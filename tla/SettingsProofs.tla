--------------------------- MODULE SettingsProofs ---------------------------
(***************************************************************************)
(* Theorems about Settings.                                                *)
(***************************************************************************)
EXTENDS Settings, SeqFacts

\* What is no JSON, and the null of JSON, is none of the functions that objects, lists
\* and structures are in this model.
NullsApart == \A D, f : [x \in D |-> f[x]] \notin {Null, Missing, Empty, Broken}

Kinds == {"syntax", "theme"}

\* Settings as Sanitize leaves them.
Sound(s) ==
    /\ WellTyped(s)
    /\ InOrder(s)
    /\ s.stack_breakpoint_dp \notin 1..399
    /\ s.default_accept_encoding \in Encodings \cup {"gzip, deflate, br"}

EditorFields ==
    {"draft", "switch", "agent", "proxy", "headers", "rows", "of", "picker", "dialog", "base"}

PickerFits(p) ==
    /\ DOMAIN p = {"kind", "idx", "color"}
    /\ \/ p = NoPicker
       \/ p.kind = "syntax" /\ p.idx \in Tokens
       \/ p.kind = "theme" /\ p.idx \in Colors

\* The rows are those of the theme they are said to be of, if that is the theme in use.
RowsFit(e) ==
    \A kind \in Kinds :
        e.of[kind] = e.draft.theme => e.rows[kind] = OverrideOf(Overrides(e.draft, kind), e.draft.theme)

\* What every event of the page keeps of the editor, before the settings are gathered.
Workable(e) ==
    /\ DOMAIN e = EditorFields /\ IsMap(e)
    /\ WellTyped(e.draft)
    /\ IsValidID(e.draft.theme, e.draft.custom_themes)
    /\ e.switch \in [Switches -> BOOLEAN]
    /\ Null \notin {e.agent, e.proxy, e.base}
    /\ AreLines(e.headers)
    /\ DOMAIN e.rows = Kinds /\ DOMAIN e.of = Kinds
    /\ RowsFit(e)
    /\ PickerFits(e.picker)

\* An editor in step with the settings s, but for the sidebar.
Current(e, s) ==
    /\ Sound(e.draft)
    /\ \A k \in SettingsKeys \ {"hide_sidebar"} : e.draft[k] = s[k]
    /\ \A k \in Switches \ {"hide_sidebar"} : e.switch[k] = s[k]
    /\ textToHeaders(e.headers) = Named(s.default_headers)
    /\ \A kind \in Kinds : e.of[kind] = s.theme

IInv ==
    /\ Sound(settings)
    /\ hideSaved # Null => hideSaved \in BOOLEAN
    /\ section \in Sections
    /\ open \in BOOLEAN
    /\ saveNeeded \in BOOLEAN
    /\ edits \in 0..MaxEdits
    /\ open => ed # Null
    /\ ed # Null => Workable(ed) /\ Current(ed, settings)
    /\ WellTyped(LoadWithRaw(file, DefaultSettings).settings)
    /\ SurvivesRestart
    /\ RuntimeMatches

-----------------------------------------------------------------------------
(* What is merged, kept and decoded.                                       *)

LEMMA MergeDomain ==
    ASSUME NEW f, NEW g
    PROVE  DOMAIN (f ++ g) = DOMAIN f \cup DOMAIN g /\ IsMap(f ++ g)
  BY DEF ++, IsMap

LEMMA MergeFirst ==
    ASSUME NEW f, NEW g, NEW x \in DOMAIN f
    PROVE  (f ++ g)[x] = f[x]
  BY DEF ++

LEMMA MergeSecond ==
    ASSUME NEW f, NEW g, NEW x \in DOMAIN g, x \notin DOMAIN f
    PROVE  (f ++ g)[x] = g[x]
  BY DEF ++

LEMMA MembersOfObj ==
    ASSUME NEW f, IsMap(f)
    PROVE  Members(Obj(f)) = f
  <1>1. DOMAIN <<>> = {}
    BY SMT
  <1> QED
    BY <1>1 DEF Members, Obj, ++, IsMap

LEMMA ObjIsSomething ==
    ASSUME NullsApart, NEW f
    PROVE  Obj(f) \notin {Null, Missing, Empty, Broken}
<1>1. Obj(f) = [x \in {"exact", "other"} |-> Obj(f)[x]]
  BY DEF Obj
<1> QED
  BY <1>1 DEF NullsApart

LEMMA EmptyMap == DOMAIN <<>> = {} /\ IsMap(<<>>)
  BY SMT DEF IsMap

LEMMA HeaderBack ==
    ASSUME NullsApart, NEW h, IsHeader(h)
    PROVE  DecodeHeader(EncodeHeader(h)) = h
<1>1. Kept(h, HeaderKeys, <<>>) = h
  BY EmptyMap DEF Kept, HeaderKeys, IsHeader, IsMap
<1>2. Members(Obj(h)) = h
  BY MembersOfObj DEF IsHeader
<1> QED
  BY <1>1, <1>2, ObjIsSomething DEF DecodeHeader, EncodeHeader, Scalars, IsHeader, IsMap

LEMMA OverrideBack ==
    ASSUME NullsApart, NEW K, NEW ov, IsOverride(ov, K)
    PROVE  OverrideFrom(Obj(ov), K) = ov
<1>1. Members(Obj(ov)) = ov
  BY MembersOfObj DEF IsOverride
<1>2. {k \in DOMAIN ov \cap K : ov[k] \notin {Null, ""}} = DOMAIN ov
  BY DEF IsOverride
<1> QED
  BY <1>1, <1>2, ObjIsSomething DEF OverrideFrom, IsOverride, IsMap

LEMMA CustomThemeBack ==
    ASSUME NullsApart, NEW c, IsCustomTheme(c)
    PROVE  DecodeCustomTheme(EncodeCustomTheme(c)) = c
<1>0. PICK zero : zero = [based_on |-> ""]
  OBVIOUS
<1>1. PICK a : a = Kept(c, CustomThemeKeys, zero)
  OBVIOUS
<1>2. PICK b : b = [palette |-> EncodeThemeOverride(c.palette), syntax |-> EncodeSyntaxOverride(c.syntax)]
  OBVIOUS
<1>3. PICK m : m = a ++ b
  OBVIOUS
<1>4. Members(EncodeCustomTheme(c)) = m
  BY <1>0, <1>1, <1>2, <1>3, MergeDomain, MembersOfObj DEF EncodeCustomTheme
<1>5. DOMAIN a = {k \in CustomThemeKeys : k = "based_on" => c[k] # ""} /\ \A k \in DOMAIN a : a[k] = c[k]
  <2>1. DOMAIN zero = {"based_on"} /\ zero["based_on"] = ""
    BY <1>0
  <2> QED
    BY <1>1, <2>1 DEF Kept, CustomThemeKeys
<1>6. DOMAIN b = {"palette", "syntax"} /\ b["palette"] = Obj(c.palette) /\ b["syntax"] = Obj(c.syntax)
  BY <1>2 DEF EncodeThemeOverride, EncodeSyntaxOverride
<1>7. DOMAIN m = DOMAIN a \cup DOMAIN b /\ \A k \in DOMAIN a : m[k] = c[k]
  BY <1>3, <1>5, MergeDomain, MergeFirst
<1>8. m["palette"] = Obj(c.palette) /\ m["syntax"] = Obj(c.syntax)
  <2>1. "palette" \notin DOMAIN a /\ "syntax" \notin DOMAIN a
    BY <1>5 DEF CustomThemeKeys
  <2>2. \A k \in DOMAIN b : k \notin DOMAIN a => m[k] = b[k]
    BY <1>3, MergeSecond
  <2> QED
    BY <2>1, <2>2, <1>6
<1>9. PICK x : x = Scalars(m, CustomThemeKeys, [k \in CustomThemeKeys |-> ""])
  OBVIOUS
<1>10. PICK y : y = [palette |-> Part(m, "palette", <<>>, DecodeThemeOverride),
                     syntax |-> Part(m, "syntax", <<>>, DecodeSyntaxOverride)]
  OBVIOUS
<1>11. DOMAIN x = CustomThemeKeys /\ \A k \in CustomThemeKeys : x[k] = c[k]
  BY <1>5, <1>6, <1>7, <1>9 DEF Scalars, IsCustomTheme, CustomThemeKeys
<1>12. DOMAIN y = {"palette", "syntax"} /\ y["palette"] = c.palette /\ y["syntax"] = c.syntax
  <2>1. DOMAIN y = {"palette", "syntax"} /\ y["palette"] = DecodeThemeOverride(m["palette"])
                                        /\ y["syntax"] = DecodeSyntaxOverride(m["syntax"])
    BY <1>6, <1>7, <1>8, <1>10, ObjIsSomething DEF Part
  <2>2. DecodeThemeOverride(Obj(c.palette)) = c.palette
    BY OverrideBack DEF IsCustomTheme, DecodeThemeOverride
  <2>3. DecodeSyntaxOverride(Obj(c.syntax)) = c.syntax
    BY OverrideBack DEF IsCustomTheme, DecodeSyntaxOverride
  <2> QED
    BY <2>1, <2>2, <2>3, <1>8
<1>13. DecodeCustomTheme(EncodeCustomTheme(c)) = x ++ y
  BY <1>4, <1>9, <1>10 DEF DecodeCustomTheme
<1>14. PICK z : z = x ++ y
  OBVIOUS
<1>15. DOMAIN z = DOMAIN c /\ IsMap(z)
  <2>1. DOMAIN z = DOMAIN x \cup DOMAIN y /\ IsMap(z)
    BY <1>14, MergeDomain
  <2> QED
    BY <1>11, <1>12, <2>1 DEF IsCustomTheme
<1>16. \A k \in DOMAIN c : z[k] = c[k]
  <2>1. \A k \in DOMAIN x : z[k] = x[k]
    BY <1>14, MergeFirst
  <2>2. \A k \in DOMAIN y : k \notin DOMAIN x => z[k] = y[k]
    BY <1>14, MergeSecond
  <2>3. "palette" \notin DOMAIN x /\ "syntax" \notin DOMAIN x
    BY <1>11 DEF CustomThemeKeys
  <2> QED
    BY <1>11, <1>12, <2>1, <2>2, <2>3 DEF IsCustomTheme
<1>17. z = c
  BY <1>15, <1>16 DEF IsMap, IsCustomTheme
<1> QED
  BY <1>13, <1>14, <1>17

-----------------------------------------------------------------------------
(* The fields of the settings.                                             *)

LEMMA KindsOfKeys ==
    /\ SettingsKeys = Switches \cup Numbers \cup Texts \cup {"default_headers"} \cup ThemeMapKeys
    /\ Switches \cap (Numbers \cup Texts \cup {"default_headers"} \cup ThemeMapKeys) = {}
    /\ Numbers \cap (Texts \cup {"default_headers"} \cup ThemeMapKeys) = {}
    /\ Texts \cap ({"default_headers"} \cup ThemeMapKeys) = {}
    /\ "default_headers" \notin ThemeMapKeys
<1>1. Numbers \subseteq SettingsKeys
  BY SMTT(60) DEF Numbers, Limits, SettingsKeys, AppearanceKeys, HTTPKeys, ViewKeys
<1>2. Numbers \cap (Texts \cup {"default_headers"} \cup ThemeMapKeys) = {}
  BY SMTT(60) DEF Numbers, Limits, Texts, ThemeMapKeys
<1>3. Texts \cap ({"default_headers"} \cup ThemeMapKeys) = {} /\ "default_headers" \notin ThemeMapKeys
  BY DEF Texts, ThemeMapKeys
<1>4. Texts \cup {"default_headers"} \cup ThemeMapKeys \subseteq SettingsKeys
  BY SMTT(60) DEF Texts, SettingsKeys, AppearanceKeys, HTTPKeys
<1> QED
  BY <1>1, <1>2, <1>3, <1>4 DEF Switches, Others

LEMMA SomeKeys ==
    /\ {"hide_sidebar", "cookie_jar_enabled"} \subseteq Switches
    /\ {"theme", "user_agent", "default_method", "default_accept_encoding", "proxy"} = Texts
    /\ {"stack_breakpoint_dp", "default_sidebar_width_px", "sticky_max_lines"} \subseteq Numbers
    /\ {"syntax_overrides", "theme_overrides", "custom_themes"} = ThemeMapKeys
<1>1. {"hide_sidebar", "cookie_jar_enabled"} \subseteq SettingsKeys
  BY DEF SettingsKeys, AppearanceKeys, HTTPKeys
<1>2. {"hide_sidebar", "cookie_jar_enabled"} \cap (Texts \cup {"default_headers"} \cup ThemeMapKeys) = {}
  BY DEF Texts, ThemeMapKeys
<1>3. {"hide_sidebar", "cookie_jar_enabled"} \cap Numbers = {}
  BY DEF Numbers, Limits
<1> QED
  BY <1>1, <1>2, <1>3 DEF Switches, Others, Texts, ThemeMapKeys, Numbers, Limits

\* The numbers among the defaults.
LEMMA DefaultNumbers ==
    /\ DefaultSettings["ui_text_size"] = 14
    /\ DefaultSettings["body_text_size"] = 13
    /\ DefaultSettings["ui_scale"] = 100
    /\ DefaultSettings["response_body_padding"] = 4
    /\ DefaultSettings["default_split_ratio"] = 50
    /\ DefaultSettings["stack_breakpoint_dp"] = 700
    /\ DefaultSettings["request_timeout_sec"] = 0
    /\ DefaultSettings["connect_timeout_sec"] = 0
    /\ DefaultSettings["tls_handshake_timeout_sec"] = 0
    /\ DefaultSettings["idle_conn_timeout_sec"] = 0
    /\ DefaultSettings["max_redirects"] = 10
    /\ DefaultSettings["max_conns_per_host"] = 0
    /\ DefaultSettings["default_sidebar_width_px"] = 250
    /\ DefaultSettings["sticky_max_lines"] = 5
    /\ DefaultSettings["max_tab_rows"] = 3
    /\ DefaultSettings["json_indent_spaces"] = 2
    /\ DefaultSettings["preview_max_mb"] = 100
    /\ DefaultSettings["syntax_highlight_max_mb"] = 100
  BY SMTT(60) DEF DefaultSettings

\* The limits of every number are integers, and its default lies between them.
LEMMA LimitsOK ==
    \A k \in Numbers :
        /\ Limits[k][1] \in Nat /\ Limits[k][2] \in Nat /\ Limits[k][1] <= Limits[k][2]
        /\ DefaultSettings[k] \in Limits[k][1]..Limits[k][2]
<1>1. \A k \in Numbers : Limits[k][1] \in Nat /\ Limits[k][2] \in Nat /\ Limits[k][1] <= Limits[k][2]
  BY SMTT(60) DEF Numbers, Limits
<1>2. \A k \in Numbers : DefaultSettings[k] \in Limits[k][1]..Limits[k][2]
  BY DefaultNumbers, SMTT(60) DEF Numbers, Limits
<1> QED
  BY <1>1, <1>2

LEMMA SpecialLimits ==
    /\ Limits["stack_breakpoint_dp"] = <<0, 2000>>
    /\ Limits["default_sidebar_width_px"] = <<160, 1000>>
    /\ Limits["sticky_max_lines"] = <<1, 12>>
  BY DEF Limits

\* The other fields of the defaults.
LEMMA DefaultOthers ==
    /\ DefaultSettings["hide_tab_bar"] \in BOOLEAN
    /\ DefaultSettings["hide_sidebar"] \in BOOLEAN
    /\ DefaultSettings["compact_menus"] \in BOOLEAN
    /\ DefaultSettings["limit_tab_rows"] \in BOOLEAN
    /\ DefaultSettings["follow_redirects"] \in BOOLEAN
    /\ DefaultSettings["verify_ssl"] \in BOOLEAN
    /\ DefaultSettings["keep_alive"] \in BOOLEAN
    /\ DefaultSettings["disable_http2"] \in BOOLEAN
    /\ DefaultSettings["cookie_jar_enabled"] \in BOOLEAN
    /\ DefaultSettings["send_connection_close"] \in BOOLEAN
    /\ DefaultSettings["wrap_lines_default"] \in BOOLEAN
    /\ DefaultSettings["auto_format_json"] \in BOOLEAN
    /\ DefaultSettings["auto_format_json_request"] \in BOOLEAN
    /\ DefaultSettings["strip_json_comments"] \in BOOLEAN
    /\ DefaultSettings["trim_trailing_whitespace"] \in BOOLEAN
    /\ DefaultSettings["bracket_pair_colorization"] \in BOOLEAN
    /\ DefaultSettings["restore_tabs_on_startup"] \in BOOLEAN
    /\ DefaultSettings["select_env_on_edit"] \in BOOLEAN
    /\ DefaultSettings["theme"] = "dark" /\ DefaultSettings["user_agent"] = "Mozilla"
    /\ DefaultSettings["default_method"] = "GET" /\ DefaultSettings["proxy"] = ""
    /\ DefaultSettings["default_accept_encoding"] = "gzip"
    /\ DefaultSettings["default_headers"] = <<>> /\ DefaultSettings["custom_themes"] = <<>>
    /\ DefaultSettings["syntax_overrides"] = <<>> /\ DefaultSettings["theme_overrides"] = <<>>
  BY SMTT(60) DEF DefaultSettings, DefaultAgent

\* The switches are the fields that are neither numbers nor texts nor lists.
LEMMA SwitchKeys ==
    Switches \subseteq
        {"hide_tab_bar", "hide_sidebar", "compact_menus", "limit_tab_rows", "follow_redirects", "verify_ssl", "keep_alive", "disable_http2", "cookie_jar_enabled", "send_connection_close", "wrap_lines_default", "auto_format_json", "auto_format_json_request", "strip_json_comments", "trim_trailing_whitespace", "bracket_pair_colorization", "restore_tabs_on_startup", "select_env_on_edit"}
  BY SMTT(60) DEF Switches, Numbers, Limits, Others, Texts, SettingsKeys, AppearanceKeys, HTTPKeys,
                  ViewKeys, ThemeMapKeys

LEMMA DefaultsTyped == WellTyped(DefaultSettings)
<1>1. DOMAIN DefaultSettings = SettingsKeys
  BY SMTT(60) DEF DefaultSettings, SettingsKeys, AppearanceKeys, HTTPKeys, ViewKeys, ThemeMapKeys
<1>2. IsMap(DefaultSettings)
  BY ZenonT(60) DEF IsMap, DefaultSettings
<1>3. \A k \in Switches : DefaultSettings[k] \in BOOLEAN
  BY DefaultOthers, SwitchKeys, ZenonT(60)
<1>4. \A k \in Numbers : DefaultSettings[k] \in Int
  BY LimitsOK
<1>5. \A k \in Texts : DefaultSettings[k] # Null
  BY NullAssumption
<1>6. IsList(<<>>)
  BY EmptyMap DEF IsList
<1> QED
  BY <1>1, <1>2, <1>3, <1>4, <1>5, <1>6, EmptyMap, DefaultOthers
     DEF WellTyped, AreHeaders, AreOverrides, AreThemes

-----------------------------------------------------------------------------
(* What is written of the settings and read again.                         *)

LEMMA ListIsMap ==
    ASSUME NEW s, IsList(s)
    PROVE  IsMap(s) /\ Len(s) \in Nat /\ DOMAIN s = 1..Len(s)
  BY DEF IsList, IsMap

LEMMA NoElements ==
    ASSUME NEW f, IsMap(f)
    PROVE  f = <<>> <=> DOMAIN f = {}
  BY EmptyMap DEF IsMap

LEMMA HeadersBack ==
    ASSUME NullsApart, NEW hs, AreHeaders(hs)
    PROVE  Each(DecodeHeader, Each(EncodeHeader, hs)) = hs
<1>1. IsMap(hs)
  BY ListIsMap DEF AreHeaders
<1>2. \A i \in DOMAIN hs : DecodeHeader(EncodeHeader(hs[i])) = hs[i]
  BY HeaderBack DEF AreHeaders
<1> QED
  BY <1>1, <1>2 DEF Each, IsMap

LEMMA CustomThemesBack ==
    ASSUME NullsApart, NEW customs, AreThemes(customs)
    PROVE  Each(DecodeCustomTheme, Each(EncodeCustomTheme, customs)) = customs
<1>1. IsMap(customs)
  BY ListIsMap DEF AreThemes
<1>2. \A i \in DOMAIN customs : DecodeCustomTheme(EncodeCustomTheme(customs[i])) = customs[i]
  BY CustomThemeBack DEF AreThemes
<1> QED
  BY <1>1, <1>2 DEF Each, IsMap

LEMMA OverridesBack ==
    ASSUME NullsApart, NEW all
    PROVE  /\ AreOverrides(all, SyntaxColorKeys) => Each(DecodeSyntaxOverride, Each(EncodeSyntaxOverride, all)) = all
           /\ AreOverrides(all, ThemeColorKeys) => Each(DecodeThemeOverride, Each(EncodeThemeOverride, all)) = all
<1>1. ASSUME AreOverrides(all, SyntaxColorKeys)
      PROVE  \A t \in DOMAIN all : DecodeSyntaxOverride(EncodeSyntaxOverride(all[t])) = all[t]
  BY <1>1, OverrideBack DEF AreOverrides, DecodeSyntaxOverride, EncodeSyntaxOverride
<1>2. ASSUME AreOverrides(all, ThemeColorKeys)
      PROVE  \A t \in DOMAIN all : DecodeThemeOverride(EncodeThemeOverride(all[t])) = all[t]
  BY <1>2, OverrideBack DEF AreOverrides, DecodeThemeOverride, EncodeThemeOverride
<1> QED
  BY <1>1, <1>2 DEF Each, IsMap, AreOverrides

\* A list or a map of objects is not null.
LEMMA EachIsSomething ==
    ASSUME NullsApart, NEW s
    PROVE  /\ Each(EncodeHeader, s) # Null /\ Each(EncodeCustomTheme, s) # Null
           /\ Each(EncodeSyntaxOverride, s) # Null /\ Each(EncodeThemeOverride, s) # Null
<1>1. ASSUME NEW f, IsMap(f) PROVE f # Null
  BY <1>1 DEF NullsApart, IsMap
<1>2. IsMap(Each(EncodeHeader, s)) /\ IsMap(Each(EncodeCustomTheme, s))
  BY DEF IsMap, Each
<1>3. IsMap(Each(EncodeSyntaxOverride, s)) /\ IsMap(Each(EncodeThemeOverride, s))
  BY DEF IsMap, Each
<1> QED
  BY <1>1, <1>2, <1>3

LEMMA GroupsOfKeys ==
    /\ AppearanceKeys \cap (HTTPKeys \cup {"default_headers"} \cup ViewKeys \cup ThemeMapKeys) = {}
    /\ HTTPKeys \cap ({"default_headers"} \cup ViewKeys \cup ThemeMapKeys) = {}
    /\ "default_headers" \notin ViewKeys \cup ThemeMapKeys
    /\ ViewKeys \cap ThemeMapKeys = {}
    /\ {"default_sidebar_width_px", "sticky_max_lines"} \subseteq ViewKeys
    /\ SettingsKeys = AppearanceKeys \cup HTTPKeys \cup {"default_headers"} \cup ViewKeys \cup ThemeMapKeys
    /\ ThemeMapKeys = {"syntax_overrides", "theme_overrides", "custom_themes"}
<1>1. AppearanceKeys \cap (HTTPKeys \cup {"default_headers"} \cup ViewKeys \cup ThemeMapKeys) = {}
  BY SMTT(60) DEF AppearanceKeys, HTTPKeys, ViewKeys, ThemeMapKeys
<1>2. HTTPKeys \cap ({"default_headers"} \cup ViewKeys \cup ThemeMapKeys) = {}
  BY SMTT(60) DEF HTTPKeys, ViewKeys, ThemeMapKeys
<1>3. "default_headers" \notin ViewKeys \cup ThemeMapKeys
  BY SMTT(60) DEF ViewKeys, ThemeMapKeys
<1>4. ViewKeys \cap ThemeMapKeys = {}
  BY SMTT(60) DEF ViewKeys, ThemeMapKeys
<1>5. {"default_sidebar_width_px", "sticky_max_lines"} \subseteq ViewKeys
  BY SMTT(60) DEF ViewKeys
<1> QED
  BY <1>1, <1>2, <1>3, <1>4, <1>5 DEF SettingsKeys, ThemeMapKeys

\* A value of one of the scalar fields is not null.
LEMMA ScalarsAreSomething ==
    ASSUME NEW s, WellTyped(s), NEW k \in AppearanceKeys \cup HTTPKeys \cup ViewKeys
    PROVE  s[k] # Null
<1>1. k \in Switches \cup Numbers \cup Texts
  BY GroupsOfKeys, KindsOfKeys
<1> QED
  BY <1>1, NullAssumption DEF WellTyped

\* The settings in the file.
Written(s) == EncodeFront(s) ++ EncodeBack(s)

LEMMA FrontWritten ==
    ASSUME NEW s, WellTyped(s)
    PROVE  /\ DOMAIN EncodeFront(s) = AppearanceKeys \cup HTTPKeys \cup {"default_headers"}
           /\ \A k \in AppearanceKeys \cup HTTPKeys : EncodeFront(s)[k] = s[k]
           /\ EncodeFront(s)["default_headers"] =
                  IF s.default_headers = <<>> THEN Null ELSE Each(EncodeHeader, s.default_headers)
<1>1. PICK a : a = Kept(s, AppearanceKeys \cup HTTPKeys, <<>>)
  OBVIOUS
<1>2. PICK x : x = IF s.default_headers = <<>> THEN Null ELSE Each(EncodeHeader, s.default_headers)
  OBVIOUS
<1>3. PICK b : b = [default_headers |-> x]
  OBVIOUS
<1>4. DOMAIN a = AppearanceKeys \cup HTTPKeys /\ \A k \in AppearanceKeys \cup HTTPKeys : a[k] = s[k]
  BY <1>1, EmptyMap DEF Kept
<1>5. DOMAIN b = {"default_headers"} /\ b["default_headers"] = x
  BY <1>3
<1>6. EncodeFront(s) = a ++ b
  BY <1>1, <1>2, <1>3 DEF EncodeFront
<1>7. DOMAIN a \cap DOMAIN b = {}
  BY <1>4, <1>5, GroupsOfKeys
<1> QED
  <2>1. /\ DOMAIN EncodeFront(s) = DOMAIN a \cup DOMAIN b
        /\ \A k \in DOMAIN a : EncodeFront(s)[k] = a[k]
        /\ \A k \in DOMAIN b : EncodeFront(s)[k] = b[k]
    BY <1>6, <1>7 DEF ++
  <2> QED
    BY <1>2, <1>4, <1>5, <2>1

\* A width or a number of sticky lines of zero is left out, and so is a list without elements.
LEMMA BackWritten ==
    ASSUME NEW s, WellTyped(s)
    PROVE  /\ DOMAIN EncodeBack(s) \subseteq ViewKeys \cup ThemeMapKeys
           /\ \A k \in ViewKeys :
                 k \in DOMAIN EncodeBack(s)
                 <=> ~(k \in {"default_sidebar_width_px", "sticky_max_lines"} /\ s[k] = 0)
           /\ \A k \in ViewKeys \cap DOMAIN EncodeBack(s) : EncodeBack(s)[k] = s[k]
           /\ \A k \in ThemeMapKeys : k \in DOMAIN EncodeBack(s) <=> s[k] # <<>>
           /\ "syntax_overrides" \in DOMAIN EncodeBack(s) =>
                 EncodeBack(s)["syntax_overrides"] = Each(EncodeSyntaxOverride, s.syntax_overrides)
           /\ "theme_overrides" \in DOMAIN EncodeBack(s) =>
                 EncodeBack(s)["theme_overrides"] = Each(EncodeThemeOverride, s.theme_overrides)
           /\ "custom_themes" \in DOMAIN EncodeBack(s) =>
                 EncodeBack(s)["custom_themes"] = Each(EncodeCustomTheme, s.custom_themes)
<1>1. PICK none : none = [default_sidebar_width_px |-> 0, sticky_max_lines |-> 0]
  OBVIOUS
<1>2. PICK a : a = Kept(s, ViewKeys, none)
  OBVIOUS
<1>3. PICK lists : lists = [syntax_overrides |-> Each(EncodeSyntaxOverride, s.syntax_overrides),
                            theme_overrides |-> Each(EncodeThemeOverride, s.theme_overrides),
                            custom_themes |-> Each(EncodeCustomTheme, s.custom_themes)]
  OBVIOUS
<1>4. PICK zeros : zeros = Zeros({}, {}, {}, ThemeMapKeys)
  OBVIOUS
<1>5. PICK b : b = Kept(lists, ThemeMapKeys, zeros)
  OBVIOUS
<1>6. EncodeBack(s) = a ++ b
  BY <1>1, <1>2, <1>3, <1>4, <1>5 DEF EncodeBack
<1>7. /\ DOMAIN none = {"default_sidebar_width_px", "sticky_max_lines"}
      /\ \A k \in DOMAIN none : none[k] = 0
  BY <1>1
<1>8. DOMAIN a = {k \in ViewKeys : k \in DOMAIN none => s[k] # 0} /\ \A k \in DOMAIN a : a[k] = s[k]
  BY <1>2, <1>7 DEF Kept
<1>9. DOMAIN zeros = ThemeMapKeys /\ \A k \in ThemeMapKeys : zeros[k] = <<>>
  BY <1>4 DEF Zeros
<1>10. DOMAIN b = {k \in ThemeMapKeys : lists[k] # <<>>} /\ \A k \in DOMAIN b : b[k] = lists[k]
  BY <1>5, <1>9 DEF Kept
<1>11. /\ lists["syntax_overrides"] = Each(EncodeSyntaxOverride, s.syntax_overrides)
       /\ lists["theme_overrides"] = Each(EncodeThemeOverride, s.theme_overrides)
       /\ lists["custom_themes"] = Each(EncodeCustomTheme, s.custom_themes)
  BY <1>3
<1>12. \A k \in ThemeMapKeys : lists[k] = <<>> <=> s[k] = <<>>
  <2>1. \A k \in ThemeMapKeys : IsMap(s[k])
    BY ListIsMap DEF ThemeMapKeys, WellTyped, AreOverrides, AreThemes
  <2>2. \A k \in ThemeMapKeys : IsMap(lists[k]) /\ DOMAIN lists[k] = DOMAIN s[k]
    BY <1>11 DEF ThemeMapKeys, IsMap, Each
  <2> QED
    BY <2>1, <2>2, NoElements
<1>13. DOMAIN a \cap DOMAIN b = {}
  BY <1>8, <1>10, GroupsOfKeys
<1>14. /\ DOMAIN EncodeBack(s) = DOMAIN a \cup DOMAIN b
       /\ \A k \in DOMAIN a : EncodeBack(s)[k] = a[k]
       /\ \A k \in DOMAIN b : EncodeBack(s)[k] = b[k]
  BY <1>6, <1>13 DEF ++
<1>15. \A k \in ViewKeys : k \in DOMAIN EncodeBack(s) <=> k \in DOMAIN a
  BY <1>10, <1>14, GroupsOfKeys
<1>16. \A k \in ThemeMapKeys : k \in DOMAIN EncodeBack(s) <=> k \in DOMAIN b
  BY <1>8, <1>14, GroupsOfKeys
<1>17. /\ DOMAIN EncodeBack(s) \subseteq ViewKeys \cup ThemeMapKeys
       /\ \A k \in ViewKeys :
             k \in DOMAIN EncodeBack(s)
             <=> ~(k \in {"default_sidebar_width_px", "sticky_max_lines"} /\ s[k] = 0)
       /\ \A k \in ViewKeys \cap DOMAIN EncodeBack(s) : EncodeBack(s)[k] = s[k]
  BY <1>7, <1>8, <1>10, <1>14, <1>15
<1>18. \A k \in ThemeMapKeys : k \in DOMAIN EncodeBack(s) <=> s[k] # <<>>
  BY <1>10, <1>12, <1>16
<1>19. \A k \in ThemeMapKeys \cap DOMAIN EncodeBack(s) : EncodeBack(s)[k] = lists[k]
  BY <1>10, <1>14, <1>16
<1> QED
  BY <1>11, <1>17, <1>18, <1>19 DEF ThemeMapKeys

\* What is in the file of each field.
LEMMA AllWritten ==
    ASSUME NEW s, WellTyped(s)
    PROVE  /\ IsMap(Written(s))
           /\ \A k \in AppearanceKeys \cup HTTPKeys : k \in DOMAIN Written(s) /\ Written(s)[k] = s[k]
           /\ "default_headers" \in DOMAIN Written(s)
           /\ Written(s)["default_headers"] =
                  IF s.default_headers = <<>> THEN Null ELSE Each(EncodeHeader, s.default_headers)
           /\ \A k \in ViewKeys \cup ThemeMapKeys :
                  /\ k \in DOMAIN Written(s) <=> k \in DOMAIN EncodeBack(s)
                  /\ k \in DOMAIN Written(s) => Written(s)[k] = EncodeBack(s)[k]
<1>1. DOMAIN EncodeFront(s) \cap DOMAIN EncodeBack(s) = {}
  BY FrontWritten, BackWritten, GroupsOfKeys
<1>2. /\ IsMap(Written(s))
      /\ DOMAIN Written(s) = DOMAIN EncodeFront(s) \cup DOMAIN EncodeBack(s)
      /\ \A k \in DOMAIN EncodeFront(s) : Written(s)[k] = EncodeFront(s)[k]
      /\ \A k \in DOMAIN EncodeBack(s) : Written(s)[k] = EncodeBack(s)[k]
  BY <1>1 DEF Written, ++, IsMap
<1>3. \A k \in ViewKeys \cup ThemeMapKeys : k \notin DOMAIN EncodeFront(s)
  BY FrontWritten, GroupsOfKeys
<1> QED
  BY <1>2, <1>3, FrontWritten

\* The fields that are left out when zero.
LeftOut(s, k) == k \in {"default_sidebar_width_px", "sticky_max_lines"} /\ s[k] = 0

\* What is written is read again, field by field; what was left out is the default.
LEMMA ScalarsRead ==
    ASSUME NEW s, WellTyped(s), NEW K, K \subseteq AppearanceKeys \cup HTTPKeys \cup ViewKeys
    PROVE  /\ DOMAIN Scalars(Written(s), K, DefaultSettings) = K
           /\ \A k \in K : Scalars(Written(s), K, DefaultSettings)[k] =
                              IF LeftOut(s, k) THEN DefaultSettings[k] ELSE s[k]
<1>1. \A k \in K : s[k] # Null
  BY ScalarsAreSomething
<1>2. \A k \in K \cap (AppearanceKeys \cup HTTPKeys) : ~LeftOut(s, k)
  BY GroupsOfKeys DEF LeftOut
<1>3. \A k \in K : k \in DOMAIN Written(s) <=> ~LeftOut(s, k)
  BY <1>2, AllWritten, BackWritten DEF LeftOut
<1>4. \A k \in K : k \in DOMAIN Written(s) => Written(s)[k] = s[k]
  BY AllWritten, BackWritten
<1> QED
  BY <1>1, <1>3, <1>4 DEF Scalars

LEMMA HeadersRead ==
    ASSUME NullsApart, NEW s, WellTyped(s)
    PROVE  List(Written(s), "default_headers", DefaultSettings.default_headers, DecodeHeader) = s.default_headers
<1>1. CASE s.default_headers = <<>>
  BY <1>1, AllWritten DEF List
<1>2. CASE s.default_headers # <<>>
  <2>1. Written(s)["default_headers"] = Each(EncodeHeader, s.default_headers)
    BY <1>2, AllWritten
  <2>2. Each(DecodeHeader, Each(EncodeHeader, s.default_headers)) = s.default_headers
    BY HeadersBack DEF WellTyped
  <2>3. Each(EncodeHeader, s.default_headers) # Null
    BY EachIsSomething
  <2>4. "default_headers" \in DOMAIN Written(s)
    BY AllWritten
  <2> QED
    BY <2>1, <2>2, <2>3, <2>4 DEF List
<1> QED
  BY <1>1, <1>2

LEMMA ThemeMapsRead ==
    ASSUME NullsApart, NEW s, WellTyped(s)
    PROVE  /\ DOMAIN DecodeThemeMaps(Written(s), DefaultSettings) = ThemeMapKeys
           /\ \A k \in ThemeMapKeys : DecodeThemeMaps(Written(s), DefaultSettings)[k] = s[k]
<1> DEFINE m == Written(s)
           Syntax(o) == Each(DecodeSyntaxOverride, o)
           Palettes(o) == Each(DecodeThemeOverride, o)
<1>1. PICK r : r = DecodeThemeMaps(m, DefaultSettings)
  OBVIOUS
<1>2. \A k \in ThemeMapKeys : DefaultSettings[k] = <<>> /\ (k \in DOMAIN m <=> s[k] # <<>>)
  BY AllWritten, BackWritten, DefaultOthers DEF ThemeMapKeys
<1>3. \A k \in ThemeMapKeys : k \in DOMAIN m => m[k] = EncodeBack(s)[k] /\ k \in DOMAIN EncodeBack(s)
  BY AllWritten
<1>4. "syntax_overrides" \in DOMAIN m => m["syntax_overrides"] = Each(EncodeSyntaxOverride, s.syntax_overrides)
  BY <1>3, BackWritten DEF ThemeMapKeys
<1>5. "theme_overrides" \in DOMAIN m => m["theme_overrides"] = Each(EncodeThemeOverride, s.theme_overrides)
  BY <1>3, BackWritten DEF ThemeMapKeys
<1>6. "custom_themes" \in DOMAIN m => m["custom_themes"] = Each(EncodeCustomTheme, s.custom_themes)
  BY <1>3, BackWritten DEF ThemeMapKeys
<1>7. /\ Each(DecodeSyntaxOverride, Each(EncodeSyntaxOverride, s.syntax_overrides)) = s.syntax_overrides
      /\ Each(DecodeThemeOverride, Each(EncodeThemeOverride, s.theme_overrides)) = s.theme_overrides
      /\ Each(DecodeCustomTheme, Each(EncodeCustomTheme, s.custom_themes)) = s.custom_themes
  BY OverridesBack, CustomThemesBack DEF WellTyped
<1> HIDE DEF m
<1>8. Part(m, "syntax_overrides", DefaultSettings.syntax_overrides, Syntax) = s.syntax_overrides
  BY <1>2, <1>4, <1>7, EachIsSomething DEF Part, ThemeMapKeys
<1>9. Part(m, "theme_overrides", DefaultSettings.theme_overrides, Palettes) = s.theme_overrides
  BY <1>2, <1>5, <1>7, EachIsSomething DEF Part, ThemeMapKeys
<1>10. List(m, "custom_themes", DefaultSettings.custom_themes, DecodeCustomTheme) = s.custom_themes
  BY <1>2, <1>6, <1>7, EachIsSomething DEF List, ThemeMapKeys
<1>11. r = [syntax_overrides |-> s.syntax_overrides, theme_overrides |-> s.theme_overrides,
            custom_themes |-> s.custom_themes]
  BY <1>1, <1>8, <1>9, <1>10 DEF DecodeThemeMaps
<1>12. DOMAIN r = ThemeMapKeys /\ \A k \in ThemeMapKeys : r[k] = s[k]
  BY <1>11 DEF ThemeMapKeys
<1> QED
  BY <1>1, <1>12 DEF m

\* The settings that are written and read.
LEMMA RoundTrip ==
    ASSUME NullsApart, NEW s, WellTyped(s)
    PROVE  DecodeSettings(EncodeSettings(s), DefaultSettings) =
               [k \in SettingsKeys |-> IF LeftOut(s, k) THEN DefaultSettings[k] ELSE s[k]]
<1> DEFINE m == Written(s)
<1>1. PICK a : a = DecodeAppearance(m, DefaultSettings)
  OBVIOUS
<1>2. PICK b : b = Scalars(m, HTTPKeys, DefaultSettings)
  OBVIOUS
<1>3. PICK h : h = [default_headers |-> s.default_headers]
  OBVIOUS
<1>4. PICK c : c = DecodeView(m, DefaultSettings)
  OBVIOUS
<1>5. PICK d : d = DecodeThemeMaps(m, DefaultSettings)
  OBVIOUS
<1>6. PICK bh : bh = b ++ h
  OBVIOUS
<1>7. DecodeHTTP(m, DefaultSettings) = bh
  BY <1>2, <1>3, <1>6, HeadersRead DEF DecodeHTTP
<1>8. Members(EncodeSettings(s)) = m
  <2>1. EncodeSettings(s) = Obj(m)
    BY DEF EncodeSettings, Written
  <2> QED
    BY <2>1, AllWritten, MembersOfObj
<1>9. PICK r : r = a ++ bh ++ c ++ d
  OBVIOUS
<1>10. DecodeSettings(EncodeSettings(s), DefaultSettings) = r
  BY <1>1, <1>4, <1>5, <1>7, <1>8, <1>9 DEF DecodeSettings, DecodeSettingsFrom
<1>11. DOMAIN a = AppearanceKeys
       /\ \A k \in AppearanceKeys : a[k] = IF LeftOut(s, k) THEN DefaultSettings[k] ELSE s[k]
  BY <1>1, ScalarsRead DEF DecodeAppearance
<1>12. DOMAIN b = HTTPKeys
       /\ \A k \in HTTPKeys : b[k] = IF LeftOut(s, k) THEN DefaultSettings[k] ELSE s[k]
  BY <1>2, ScalarsRead
<1>13. DOMAIN h = {"default_headers"} /\ h["default_headers"] = s["default_headers"]
  BY <1>3
<1>14. DOMAIN c = ViewKeys
       /\ \A k \in ViewKeys : c[k] = IF LeftOut(s, k) THEN DefaultSettings[k] ELSE s[k]
  BY <1>4, ScalarsRead DEF DecodeView
<1>15. DOMAIN d = ThemeMapKeys /\ \A k \in ThemeMapKeys : d[k] = s[k]
  BY <1>5, ThemeMapsRead
<1> HIDE DEF m
<1>16. DOMAIN bh = HTTPKeys \cup {"default_headers"} /\ (\A k \in HTTPKeys : bh[k] = b[k])
       /\ bh["default_headers"] = s["default_headers"]
  <2>1. "default_headers" \notin HTTPKeys
    BY GroupsOfKeys
  <2> QED
    BY <1>6, <1>12, <1>13, <2>1 DEF ++
<1>17. IsMap(r) /\ DOMAIN r = DOMAIN a \cup DOMAIN bh \cup DOMAIN c \cup DOMAIN d
       /\ (\A k \in DOMAIN a : r[k] = a[k]) /\ (\A k \in DOMAIN bh : r[k] = bh[k])
       /\ (\A k \in DOMAIN c : r[k] = c[k]) /\ (\A k \in DOMAIN d : r[k] = d[k])
  <2>1. DOMAIN a \cap (DOMAIN bh \cup DOMAIN c \cup DOMAIN d) = {}
    BY <1>11, <1>14, <1>15, <1>16, GroupsOfKeys
  <2>2. DOMAIN bh \cap (DOMAIN c \cup DOMAIN d) = {}
    BY <1>14, <1>15, <1>16, GroupsOfKeys
  <2>3. DOMAIN c \cap DOMAIN d = {}
    BY <1>14, <1>15, GroupsOfKeys
  <2>4. PICK x : x = a ++ bh
    OBVIOUS
  <2>5. PICK y : y = x ++ c
    OBVIOUS
  <2>6. r = y ++ d
    BY <1>9, <2>4, <2>5
  <2>7. DOMAIN x = DOMAIN a \cup DOMAIN bh
        /\ (\A k \in DOMAIN a : x[k] = a[k]) /\ (\A k \in DOMAIN bh : x[k] = bh[k])
    BY <2>1, <2>4 DEF ++
  <2>8. DOMAIN y = DOMAIN x \cup DOMAIN c
        /\ (\A k \in DOMAIN x : y[k] = x[k]) /\ (\A k \in DOMAIN c : y[k] = c[k])
    BY <2>1, <2>2, <2>5, <2>7 DEF ++
  <2>9. DOMAIN r = DOMAIN y \cup DOMAIN d /\ IsMap(r)
        /\ (\A k \in DOMAIN y : r[k] = y[k]) /\ (\A k \in DOMAIN d : r[k] = d[k])
    BY <2>1, <2>2, <2>3, <2>6, <2>7, <2>8 DEF ++, IsMap
  <2> QED
    BY <2>7, <2>8, <2>9
<1>18. \A k \in ThemeMapKeys \cup {"default_headers"} : ~LeftOut(s, k)
  BY GroupsOfKeys DEF LeftOut
<1>19. DOMAIN r = SettingsKeys
  BY <1>11, <1>14, <1>15, <1>16, <1>17, GroupsOfKeys
<1>20. \A k \in SettingsKeys : r[k] = IF LeftOut(s, k) THEN DefaultSettings[k] ELSE s[k]
  BY <1>11, <1>12, <1>14, <1>15, <1>16, <1>17, <1>18, GroupsOfKeys
<1> QED
  BY <1>10, <1>17, <1>19, <1>20 DEF IsMap

\* The state file that Save writes, as far as the settings are concerned.
Saved(s, sec) == EncodeState([NoState EXCEPT !.settings = s, !.sidebar_section = sec])

LEMMA SettingsRead ==
    ASSUME NullsApart, NEW s, WellTyped(s), NEW sec,
           NEW f, f = Saved(s, sec)
    PROVE  LoadWithRaw(f, DefaultSettings).settings =
               [k \in SettingsKeys |-> IF LeftOut(s, k) THEN DefaultSettings[k] ELSE s[k]]
<1> DEFINE back == [k \in SettingsKeys |-> IF LeftOut(s, k) THEN DefaultSettings[k] ELSE s[k]]
<1>0. DecodeSettings(EncodeSettings(s), DefaultSettings) = back
  BY RoundTrip
<1>1. s # Null /\ back # Null
  BY DEF WellTyped, NullsApart, IsMap
<1>2. EncodeSettings(s) # Null
  BY ObjIsSomething DEF EncodeSettings
<1> HIDE DEF back
<1>3. "settings" \in DOMAIN NoState /\ NoState["settings"] = Null
  <2>1. PICK z : z = Zeros({}, SidebarNumbers \cup WindowNumbers, SidebarTexts \cup {"window_mode"},
                           Orders \cup {"tabs", "collection_expanded"})
    OBVIOUS
  <2>2. PICK p : p = [k \in Spoilers \cup WindowPlace \cup {"settings"} |-> Null]
    OBVIOUS
  <2>3. "settings" \notin DOMAIN z
    BY <2>1 DEF Zeros, SidebarNumbers, WindowNumbers, SidebarTexts, Orders
  <2>4. "settings" \in DOMAIN p /\ p["settings"] = Null
    BY <2>2
  <2>5. NoState = z ++ p
    BY <2>1, <2>2 DEF NoState
  <2> QED
    BY <2>3, <2>4, <2>5 DEF ++
<1>4. PICK w : w = [[NoState EXCEPT !.settings = s, !.sidebar_section = sec] EXCEPT
                       !.tabs = Each(EncodeTab, @),
                       !.settings = IF @ = Null THEN Null ELSE EncodeSettings(@)]
  OBVIOUS
<1>5. w["settings"] = EncodeSettings(s)
  BY <1>1, <1>3, <1>4
<1>6. PICK zeros : zeros = [k \in StateKeys \ Always |-> NoState[k]]
  OBVIOUS
<1>7. PICK m : m = Kept(w, StateKeys, zeros)
  OBVIOUS
<1>8. "settings" \in StateKeys \ Always
  BY DEF StateKeys, Always
<1>9. "settings" \in DOMAIN m /\ m["settings"] = EncodeSettings(s) /\ IsMap(m)
  <2>1. "settings" \in DOMAIN zeros => zeros["settings"] = Null
    BY <1>3, <1>6, <1>8
  <2> QED
    BY <1>2, <1>5, <1>7, <1>8, <2>1 DEF Kept, IsMap
<1>10. f = Obj(m)
  BY <1>4, <1>6, <1>7 DEF EncodeState, Saved
<1>11. Members(f) = m /\ f \notin {Missing, Empty, Broken}
  BY <1>9, <1>10, MembersOfObj, ObjIsSomething
<1>12. DecodeSidebar(m, DefaultSettings)["settings"] = back /\ "settings" \in DOMAIN DecodeSidebar(m, DefaultSettings)
  <2>1. PICK a : a = Scalars(m, SidebarKeys, NoState)
    OBVIOUS
  <2>2. \E b : /\ DecodeSidebar(m, DefaultSettings) = a ++ b
               /\ "settings" \in DOMAIN b
               /\ b["settings"] = DecodeSettings(m["settings"], DefaultSettings)
    <3> DEFINE Settings(j) == DecodeSettings(j, DefaultSettings)
               Paths(o) == Each(LAMBDA p : IF p = Null THEN <<>> ELSE p, o)
               b == [tabs |-> List(m, "tabs", <<>>, DecodeTab),
                     settings |-> Pointer(m, "settings", DefaultSettings, Settings),
                     env_ids_order |-> List(m, "env_ids_order", <<>>, Same),
                     collection_ids_order |-> List(m, "collection_ids_order", <<>>, Same),
                     collection_expanded |-> Part(m, "collection_expanded", <<>>, Paths)]
    <3>1. DecodeSidebar(m, DefaultSettings) = a ++ b
      BY <2>1 DEF DecodeSidebar
    <3>2. "settings" \in DOMAIN b /\ b["settings"] = Pointer(m, "settings", DefaultSettings, Settings)
      OBVIOUS
    <3>3. Pointer(m, "settings", DefaultSettings, Settings) = DecodeSettings(m["settings"], DefaultSettings)
      BY <1>2, <1>9 DEF Pointer
    <3> HIDE DEF b
    <3> QED
      BY <3>1, <3>2, <3>3
  <2>3. "settings" \notin DOMAIN a
    BY <2>1 DEF Scalars, SidebarKeys, SidebarNumbers, SidebarTexts
  <2> QED
    BY <1>0, <1>9, <2>2, <2>3 DEF ++
<1>13. DecodeState(f, DefaultSettings)["settings"] = back
  <2>1. DecodeState(f, DefaultSettings) = DecodeSidebar(m, DefaultSettings) ++ DecodeWindow(m)
    BY <1>11 DEF DecodeState, DecodeMembers
  <2> QED
    BY <1>12, <2>1 DEF ++
<1>14. LoadWithRaw(f, DefaultSettings) = DecodeState(f, DefaultSettings)
  BY <1>1, <1>11, <1>13 DEF LoadWithRaw, WithSettings
<1> QED
  BY <1>13, <1>14 DEF back

-----------------------------------------------------------------------------
(* What Sanitize does.                                                     *)

Special == {"theme", "user_agent", "default_method", "default_accept_encoding"}

LEMMA SanitizeFields ==
    ASSUME NEW s
    PROVE  /\ DOMAIN Sanitize(s) = SettingsKeys /\ IsMap(Sanitize(s))
           /\ \A k \in Numbers : Sanitize(s)[k] = SaneNumber(k, s[k])
           /\ \A k \in SettingsKeys \ (Numbers \cup Special) : Sanitize(s)[k] = s[k]
           /\ Sanitize(s)["theme"] = IF IsValidID(s.theme, s.custom_themes) THEN s["theme"] ELSE "dark"
           /\ Sanitize(s)["user_agent"] = IF s["user_agent"] = "" THEN DefaultAgent ELSE s["user_agent"]
           /\ Sanitize(s)["default_method"] =
                  IF s["default_method"] \in Methods THEN s["default_method"] ELSE "GET"
           /\ Sanitize(s)["default_accept_encoding"] =
                  IF s["default_accept_encoding"] \in Encodings \cup {"gzip, deflate, br"}
                  THEN s["default_accept_encoding"] ELSE "gzip"
<1>1. Special \subseteq Texts /\ Numbers \subseteq SettingsKeys /\ Texts \subseteq SettingsKeys
      /\ Numbers \cap Texts = {}
  BY KindsOfKeys DEF Special, Texts
<1>2. Numbers \cap Special = {} /\ Special \subseteq SettingsKeys
  BY <1>1
<1>3. DOMAIN Sanitize(s) = SettingsKeys /\ IsMap(Sanitize(s))
  BY DEF Sanitize, IsMap
<1>4. \A k \in Numbers : Sanitize(s)[k] = SaneNumber(k, s[k])
  BY <1>1, <1>2 DEF Sanitize, Special
<1>5. \A k \in SettingsKeys \ (Numbers \cup Special) : Sanitize(s)[k] = s[k]
  BY <1>1, <1>2 DEF Sanitize, Special
<1>6. (Special \cap SettingsKeys) \ Numbers = Special
  BY <1>2
<1>7. Sanitize(s)["theme"] = IF IsValidID(s.theme, s.custom_themes) THEN s["theme"] ELSE "dark"
  BY <1>6 DEF Sanitize, Special
<1>8. Sanitize(s)["user_agent"] = IF s["user_agent"] = "" THEN DefaultAgent ELSE s["user_agent"]
  BY <1>6 DEF Sanitize, Special
<1>9. Sanitize(s)["default_method"] =
         IF s["default_method"] \in Methods THEN s["default_method"] ELSE "GET"
  BY <1>6 DEF Sanitize, Special
<1>10. Sanitize(s)["default_accept_encoding"] =
          IF s["default_accept_encoding"] \in Encodings \cup {"gzip, deflate, br"}
          THEN s["default_accept_encoding"] ELSE "gzip"
  BY <1>6 DEF Sanitize, Special
<1> QED
  BY <1>3, <1>4, <1>5, <1>7, <1>8, <1>9, <1>10

\* A number in order.
GoodNumber(k, v) ==
    /\ v \in Limits[k][1]..Limits[k][2] \cup (IF k = "default_sidebar_width_px" THEN {0} ELSE {})
    /\ k = "stack_breakpoint_dp" => v \notin 1..399

LEMMA SaneNumbers ==
    ASSUME NEW k \in Numbers, NEW v \in Int
    PROVE  /\ GoodNumber(k, SaneNumber(k, v))
           /\ GoodNumber(k, v) => SaneNumber(k, v) = v
<1>1. PICK lo \in Nat, hi \in Nat : lo = Limits[k][1] /\ hi = Limits[k][2] /\ lo <= hi
  BY LimitsOK
<1>2. DefaultSettings[k] \in lo..hi
  BY <1>1, LimitsOK
<1>3. k = "stack_breakpoint_dp" => lo = 0 /\ hi = 2000
  BY <1>1, SpecialLimits
<1>4. k = "default_sidebar_width_px" => lo = 160
  BY <1>1, SpecialLimits
<1>5. TooSmall(k, v) \in {DefaultSettings[k], lo} \cup (IF k = "default_sidebar_width_px" THEN {0} ELSE {})
  BY <1>1 DEF TooSmall
<1>6. k = "stack_breakpoint_dp" => TooSmall(k, v) = lo
  BY <1>1 DEF TooSmall
<1>7. k = "default_sidebar_width_px" /\ v <= 0 => TooSmall(k, v) = 0
  BY <1>1 DEF TooSmall
<1>8. CASE k = "stack_breakpoint_dp"
  BY <1>1, <1>3, <1>6, <1>8 DEF SaneNumber, GoodNumber, Min2
<1>9. CASE k = "default_sidebar_width_px"
  BY <1>1, <1>2, <1>4, <1>5, <1>7, <1>9 DEF SaneNumber, GoodNumber, Min2
<1>10. CASE k \notin {"stack_breakpoint_dp", "default_sidebar_width_px"}
  BY <1>1, <1>2, <1>5, <1>10 DEF SaneNumber, GoodNumber, Min2
<1> QED
  BY <1>8, <1>9, <1>10

LEMMA SoundNumbers ==
    ASSUME NEW s, Sound(s)
    PROVE  \A k \in Numbers : s[k] \in Int /\ GoodNumber(k, s[k])
BY DEF Sound, InOrder, WellTyped, GoodNumber

\* Whatever a file holds, Sanitize puts it in order.
LEMMA SanitizeSound ==
    ASSUME NEW s, WellTyped(s)
    PROVE  Sound(Sanitize(s))
<1>1. PICK t : t = Sanitize(s)
  OBVIOUS
<1>2. /\ DOMAIN t = SettingsKeys /\ IsMap(t)
      /\ \A k \in Numbers : t[k] = SaneNumber(k, s[k])
      /\ \A k \in SettingsKeys \ (Numbers \cup Special) : t[k] = s[k]
      /\ t["theme"] = IF IsValidID(s.theme, s.custom_themes) THEN s["theme"] ELSE "dark"
      /\ t["user_agent"] = IF s["user_agent"] = "" THEN DefaultAgent ELSE s["user_agent"]
      /\ t["default_method"] = IF s["default_method"] \in Methods THEN s["default_method"] ELSE "GET"
      /\ t["default_accept_encoding"] =
             IF s["default_accept_encoding"] \in Encodings \cup {"gzip, deflate, br"}
             THEN s["default_accept_encoding"] ELSE "gzip"
  BY <1>1, SanitizeFields
<1>3. /\ Switches \subseteq SettingsKeys \ (Numbers \cup Special)
      /\ {"default_headers", "syntax_overrides", "theme_overrides", "custom_themes", "proxy"}
             \subseteq SettingsKeys \ (Numbers \cup Special)
  BY KindsOfKeys, SomeKeys DEF Special
<1>4. \A k \in Switches : t[k] = s[k] /\ t[k] \in BOOLEAN
  BY <1>2, <1>3 DEF WellTyped
<1>5. \A k \in Numbers : GoodNumber(k, t[k])
  <2>1. \A k \in Numbers : s[k] \in Int
    BY DEF WellTyped
  <2>2. \A k \in Numbers : GoodNumber(k, SaneNumber(k, s[k]))
    BY <2>1, SaneNumbers
  <2>3. \A k \in Numbers : t[k] = SaneNumber(k, s[k])
    BY <1>2
  <2> QED
    BY <2>2, <2>3
<1>6. \A k \in Numbers : t[k] \in Int
  BY <1>5, LimitsOK DEF GoodNumber
<1>7. /\ t.default_headers = s.default_headers /\ t.syntax_overrides = s.syntax_overrides
      /\ t.theme_overrides = s.theme_overrides /\ t.custom_themes = s.custom_themes
      /\ t.proxy = s.proxy
  BY <1>2, <1>3
<1>8. \A k \in Texts : t[k] # Null
  <2>1. \A k \in Texts : s[k] # Null
    BY DEF WellTyped
  <2>2. Null \notin {"dark", DefaultAgent, "GET", "gzip"}
    BY NullAssumption, SettingsAssumption, DefaultOthers DEF Texts, DefaultAgent, Methods, Encodings
  <2> QED
    BY <1>2, <1>7, <2>1, <2>2 DEF Texts
<1>9. WellTyped(t)
  BY <1>2, <1>4, <1>6, <1>7, <1>8 DEF WellTyped
<1>10. InOrder(t)
  <2>1. t.default_method \in Methods
    BY <1>2 DEF Methods
  <2>2. IsValidID(t.theme, t.custom_themes)
    BY <1>2, <1>7, SettingsAssumption DEF IsValidID
  <2>3. t.user_agent # ""
    BY <1>2 DEF DefaultAgent
  <2> QED
    BY <1>2, <1>4, <1>5, <2>1, <2>2, <2>3 DEF InOrder, GoodNumber
<1>11. t.default_accept_encoding \in Encodings \cup {"gzip, deflate, br"}
  BY <1>2 DEF Encodings
<1>12. t.stack_breakpoint_dp \notin 1..399
  BY <1>5, SomeKeys DEF GoodNumber
<1> QED
  BY <1>1, <1>9, <1>10, <1>11, <1>12 DEF Sound

\* ... and leaves it alone once it is.
LEMMA SanitizeSame ==
    ASSUME NEW s, Sound(s)
    PROVE  Sanitize(s) = s
<1>1. PICK t : t = Sanitize(s)
  OBVIOUS
<1>2. /\ DOMAIN t = SettingsKeys /\ IsMap(t)
      /\ \A k \in Numbers : t[k] = SaneNumber(k, s[k])
      /\ \A k \in SettingsKeys \ (Numbers \cup Special) : t[k] = s[k]
      /\ t["theme"] = IF IsValidID(s.theme, s.custom_themes) THEN s["theme"] ELSE "dark"
      /\ t["user_agent"] = IF s["user_agent"] = "" THEN DefaultAgent ELSE s["user_agent"]
      /\ t["default_method"] = IF s["default_method"] \in Methods THEN s["default_method"] ELSE "GET"
      /\ t["default_accept_encoding"] =
             IF s["default_accept_encoding"] \in Encodings \cup {"gzip, deflate, br"}
             THEN s["default_accept_encoding"] ELSE "gzip"
  BY <1>1, SanitizeFields
<1>3. \A k \in Numbers : t[k] = s[k]
  BY <1>2, SoundNumbers, SaneNumbers
<1>4. \A k \in Special : t[k] = s[k]
  BY <1>2 DEF Special, Sound, InOrder
<1>5. \A k \in SettingsKeys : t[k] = s[k]
  BY <1>2, <1>3, <1>4
<1>6. IsMap(s) /\ DOMAIN s = SettingsKeys
  BY DEF Sound, WellTyped
<1>7. t = s
  BY <1>2, <1>5, <1>6 DEF IsMap
<1> QED
  BY <1>1, <1>7

\* Setting the sidebar keeps settings in order.
LEMMA SidebarSound ==
    ASSUME NEW s, Sound(s), NEW b \in BOOLEAN, NEW t, t = [s EXCEPT !.hide_sidebar = b]
    PROVE  /\ Sound(t)
           /\ t["hide_sidebar"] = b
           /\ \A k \in SettingsKeys \ {"hide_sidebar"} : t[k] = s[k]
<1>1. IsMap(s) /\ DOMAIN s = SettingsKeys
  BY DEF Sound, WellTyped
<1>2. "hide_sidebar" \in Switches /\ "hide_sidebar" \in SettingsKeys
      /\ "hide_sidebar" \notin Numbers \cup Texts \cup {"default_headers"} \cup ThemeMapKeys
  BY SomeKeys, KindsOfKeys
<1>3. /\ DOMAIN t = SettingsKeys /\ IsMap(t)
      /\ t["hide_sidebar"] = b /\ \A k \in SettingsKeys \ {"hide_sidebar"} : t[k] = s[k]
  BY <1>1, <1>2 DEF IsMap
<1>4. \A k \in Numbers \cup Texts \cup {"default_headers"} \cup ThemeMapKeys : t[k] = s[k]
  BY <1>2, <1>3, KindsOfKeys
<1>5. \A k \in Switches : t[k] \in BOOLEAN
  BY <1>3, KindsOfKeys DEF Sound, WellTyped
<1>6. /\ t.default_headers = s.default_headers /\ t.syntax_overrides = s.syntax_overrides
      /\ t.theme_overrides = s.theme_overrides /\ t.custom_themes = s.custom_themes
      /\ t.theme = s.theme /\ t.user_agent = s.user_agent /\ t.default_method = s.default_method
      /\ t.default_accept_encoding = s.default_accept_encoding
      /\ t.stack_breakpoint_dp = s.stack_breakpoint_dp
  BY <1>4, SomeKeys
<1>7. WellTyped(t)
  BY <1>3, <1>4, <1>5, <1>6 DEF Sound, WellTyped
<1>8. InOrder(t)
  <2>1. \A k \in Numbers : GoodNumber(k, t[k])
    BY <1>4, SoundNumbers
  <2>2. IsValidID(t.theme, t.custom_themes) /\ t.default_method \in Methods /\ t.user_agent # ""
    BY <1>6 DEF Sound, InOrder
  <2> QED
    BY <1>3, <1>5, <2>1, <2>2 DEF InOrder, GoodNumber
<1> QED
  BY <1>3, <1>6, <1>7, <1>8 DEF Sound

\* What is saved is what is loaded, but for a width of zero.
LEMMA LoadedBack ==
    ASSUME NullsApart, NEW s, Sound(s), NEW sec,
           NEW f, f = Saved(s, sec)
    PROVE  /\ WellTyped(LoadWithRaw(f, DefaultSettings).settings)
           /\ [Loaded(f) EXCEPT !.default_sidebar_width_px = 0] = [s EXCEPT !.default_sidebar_width_px = 0]
           /\ WidthOf(Loaded(f)) = WidthOf(s)
<1>0. WellTyped(s)
  BY DEF Sound
<1>1. PICK t : t = [k \in SettingsKeys |-> IF LeftOut(s, k) THEN DefaultSettings[k] ELSE s[k]]
  OBVIOUS
<1>2. LoadWithRaw(f, DefaultSettings).settings = t
  BY <1>0, <1>1, SettingsRead
<1>3. \A k \in SettingsKeys : LeftOut(s, k) <=> k = "default_sidebar_width_px" /\ s[k] = 0
  <2>1. s["sticky_max_lines"] \in 1..12
    BY SoundNumbers, SomeKeys, SpecialLimits DEF GoodNumber
  <2> QED
    BY <2>1 DEF LeftOut
<1>4. /\ DOMAIN t = SettingsKeys /\ IsMap(t)
      /\ \A k \in SettingsKeys \ {"default_sidebar_width_px"} : t[k] = s[k]
      /\ t["default_sidebar_width_px"] =
             IF s["default_sidebar_width_px"] = 0 THEN 250 ELSE s["default_sidebar_width_px"]
  <2>1. "default_sidebar_width_px" \in SettingsKeys
    BY KindsOfKeys, SomeKeys
  <2> QED
    BY <1>1, <1>3, <2>1, DefaultNumbers DEF IsMap
<1>5. \A k \in Switches \cup Texts \cup {"default_headers"} \cup ThemeMapKeys : t[k] = s[k]
  BY <1>4, KindsOfKeys, SomeKeys
<1>6. \A k \in Numbers : GoodNumber(k, t[k]) /\ t[k] \in Int
  <2>1. \A k \in Numbers : k # "default_sidebar_width_px" => t[k] = s[k]
    BY <1>4, KindsOfKeys
  <2>2. GoodNumber("default_sidebar_width_px", 250)
    BY SpecialLimits DEF GoodNumber
  <2> QED
    BY <1>4, <2>1, <2>2, SoundNumbers, SomeKeys
<1>7. /\ t.default_headers = s.default_headers /\ t.syntax_overrides = s.syntax_overrides
      /\ t.theme_overrides = s.theme_overrides /\ t.custom_themes = s.custom_themes
      /\ t.theme = s.theme /\ t.user_agent = s.user_agent /\ t.default_method = s.default_method
      /\ t.default_accept_encoding = s.default_accept_encoding
  BY <1>5, SomeKeys
<1>8. WellTyped(t)
  BY <1>4, <1>5, <1>6, <1>7 DEF Sound, WellTyped
<1>9. Sound(t)
  <2>1. InOrder(t)
    <3>1. IsValidID(t.theme, t.custom_themes) /\ t.default_method \in Methods /\ t.user_agent # ""
      BY <1>7 DEF Sound, InOrder
    <3> QED
      BY <1>6, <1>8, <3>1 DEF InOrder, GoodNumber, WellTyped
  <2>2. t.stack_breakpoint_dp \notin 1..399
    BY <1>6, SomeKeys DEF GoodNumber
  <2> QED
    BY <1>7, <1>8, <2>1, <2>2 DEF Sound
<1>10. Loaded(f) = t
  BY <1>2, <1>9, SanitizeSame DEF Loaded
<1>11. [t EXCEPT !.default_sidebar_width_px = 0] = [s EXCEPT !.default_sidebar_width_px = 0]
  BY <1>0, <1>4 DEF WellTyped, IsMap
<1>12. WidthOf(t) = WidthOf(s)
  BY <1>4 DEF WidthOf
<1> QED
  BY <1>2, <1>8, <1>10, <1>11, <1>12

-----------------------------------------------------------------------------
(* Lists, and what is selected of them.                                    *)

LEMMA ListIn ==
    ASSUME NEW s, IsList(s)
    PROVE  /\ s \in Seq({s[i] : i \in DOMAIN s})
           /\ Len(s) \in Nat /\ DOMAIN s = 1..Len(s)
  BY ListIsMap DEF IsList

\* A list is a list, whatever set its elements are taken from.
LEMMA SeqIsList ==
    ASSUME NEW R, NEW s \in Seq(R)
    PROVE  IsList(s) /\ \A i \in DOMAIN s : s[i] \in R
<1>1. Len(s) \in Nat /\ s \in [1..Len(s) -> R] /\ DOMAIN s = 1..Len(s)
  OBVIOUS
<1>2. s \in [1..Len(s) -> {s[i] : i \in DOMAIN s}]
  BY <1>1
<1> QED
  BY <1>1, <1>2, SeqDef DEF IsList

\* A function on 1..n is a list.
LEMMA FunctionIsList ==
    ASSUME NEW n \in Nat, NEW s, s = [i \in 1..n |-> s[i]]
    PROVE  IsList(s) /\ Len(s) = n /\ DOMAIN s = 1..n
<1>1. DOMAIN s = 1..n
  OBVIOUS
<1>2. s \in [1..n -> {s[i] : i \in DOMAIN s}]
  BY <1>1
<1>3. s \in Seq({s[i] : i \in DOMAIN s})
  BY <1>2, SeqDef
<1>4. Len(s) = n
  BY <1>1, <1>3, LenProperties
<1> QED
  BY <1>1, <1>3, <1>4 DEF IsList

\* What is selected of the first n elements.
Picked(T, q, S) ==
    /\ T[0] = <<>>
    /\ \A n \in 1..Len(q) : T[n] = IF q[n] \in S THEN Append(T[n - 1], q[n]) ELSE T[n - 1]

LEMMA SelectionSteps ==
    ASSUME NEW q, IsList(q), NEW S
    PROVE  \E T : Selected(q, S) = T[Len(q)] /\ Picked(T, q, S)
<1> DEFINE Body(T, n) == IF n = 0 THEN <<>> ELSE IF q[n] \in S THEN Append(T[n - 1], q[n]) ELSE T[n - 1]
           U == CHOOSE T : T = [n \in 0..Len(q) |-> Body(T, n)]
<1>1. Len(q) \in Nat
  BY ListIn
<1>2. Selected(q, S) = U[Len(q)]
  BY DEF Selected
<1>3. U = [n \in 0..Len(q) |-> Body(U, n)]
  <2>1. \E T : T = [n \in 0..Len(q) |-> Body(T, n)]
    BY <1>1, SelectionExists
  <2> HIDE DEF Body
  <2> QED
    BY <2>1
<1> HIDE DEF U
<1>4. Picked(U, q, S)
  <2>1. 0 \in 0..Len(q) /\ \A n \in 1..Len(q) : n \in 0..Len(q) /\ n # 0
    BY <1>1
  <2>2. \A n \in 0..Len(q) : U[n] = Body(U, n)
    <3> HIDE DEF Body
    <3> QED
      BY <1>3
  <2> QED
    BY <2>1, <2>2 DEF Picked
<1> QED
  BY <1>2, <1>4

LEMMA SelectedIn ==
    ASSUME NEW q, IsList(q), NEW S
    PROVE  /\ IsList(Selected(q, S))
           /\ \A i \in DOMAIN Selected(q, S) : Selected(q, S)[i] \in {q[j] : j \in DOMAIN q} \cap S
<1>1. PICK T : Selected(q, S) = T[Len(q)] /\ Picked(T, q, S)
  BY SelectionSteps
<1> DEFINE R == {q[j] : j \in DOMAIN q} \cap S
           Done == {n \in Nat : n <= Len(q) => T[n] \in Seq(R)}
<1>2. Len(q) \in Nat /\ DOMAIN q = 1..Len(q)
  BY ListIn
<1>3. 0 \in Done
  <2>1. <<>> \in Seq(R)
    OBVIOUS
  <2> HIDE DEF R
  <2> QED
    BY <1>1, <2>1 DEF Picked
<1>4. ASSUME NEW n \in Nat, n \in Done PROVE n + 1 \in Done
  <2>1. SUFFICES ASSUME n + 1 <= Len(q) PROVE T[n + 1] \in Seq(R)
    OBVIOUS
  <2>2. n + 1 \in 1..Len(q) /\ (n + 1) - 1 = n
    BY <1>2, <2>1
  <2>3. T[n + 1] = IF q[n + 1] \in S THEN Append(T[n], q[n + 1]) ELSE T[n]
    BY <1>1, <2>2 DEF Picked
  <2>4. T[n] \in Seq(R)
    BY <1>4, <1>2, <2>1
  <2>5. q[n + 1] \in S => q[n + 1] \in R
    BY <1>2, <2>2
  <2> HIDE DEF R
  <2> QED
    BY <2>3, <2>4, <2>5
<1>5. T[Len(q)] \in Seq(R)
  <2>1. Len(q) \in Done
    <3> HIDE DEF Done
    <3> QED
      BY <1>2, <1>3, <1>4, Induction
  <2> QED
    BY <1>2, <2>1
<1> HIDE DEF R
<1>6. IsList(T[Len(q)]) /\ \A i \in DOMAIN T[Len(q)] : T[Len(q)][i] \in R
  BY <1>5, SeqIsList
<1> QED
  BY <1>1, <1>6 DEF R

LEMMA SelectedAll ==
    ASSUME NEW q, IsList(q), NEW S, \A i \in DOMAIN q : q[i] \in S
    PROVE  Selected(q, S) = q
<1>1. PICK T : Selected(q, S) = T[Len(q)] /\ Picked(T, q, S)
  BY SelectionSteps
<1>2. PICK R : q \in Seq(R) /\ Len(q) \in Nat /\ DOMAIN q = 1..Len(q)
  BY ListIn
<1> DEFINE Done == {n \in Nat : n <= Len(q) => /\ T[n] \in Seq(R) /\ Len(T[n]) = n
                                             /\ \A i \in 1..n : T[n][i] = q[i]}
<1>3. 0 \in Done
  <2>1. T[0] = <<>>
    BY <1>1 DEF Picked
  <2>2. T[0] \in Seq(R) /\ Len(T[0]) = 0
    BY <2>1, EmptySeq
  <2>3. 1..0 = {}
    OBVIOUS
  <2> QED
    BY <2>2, <2>3
<1>4. ASSUME NEW n \in Nat, n \in Done PROVE n + 1 \in Done
  <2>1. SUFFICES ASSUME n + 1 <= Len(q)
                 PROVE  /\ T[n + 1] \in Seq(R) /\ Len(T[n + 1]) = n + 1
                        /\ \A i \in 1..(n + 1) : T[n + 1][i] = q[i]
    OBVIOUS
  <2>2. n + 1 \in 1..Len(q) /\ (n + 1) - 1 = n
    BY <1>2, <2>1
  <2>3. T[n + 1] = Append(T[n], q[n + 1])
    <3>1. q[n + 1] \in S
      BY <1>2, <2>2
    <3> QED
      BY <1>1, <2>2, <3>1 DEF Picked
  <2>4. T[n] \in Seq(R) /\ Len(T[n]) = n /\ \A i \in 1..n : T[n][i] = q[i]
    BY <1>2, <1>4, <2>1
  <2>5. q[n + 1] \in R
    BY <1>2, <2>2, ElementOfSeq
  <2>6. /\ T[n + 1] \in Seq(R) /\ Len(T[n + 1]) = n + 1 /\ T[n + 1][n + 1] = q[n + 1]
        /\ \A i \in 1..n : T[n + 1][i] = T[n][i]
    BY <2>3, <2>4, <2>5, AppendProperties
  <2> QED
    BY <2>4, <2>6
<1>5. Len(q) \in Done
  <2> HIDE DEF Done
  <2> QED
    BY <1>2, <1>3, <1>4, Induction
<1>6. T[Len(q)] \in Seq(R) /\ Len(T[Len(q)]) = Len(q) /\ \A i \in 1..Len(q) : T[Len(q)][i] = q[i]
  BY <1>2, <1>5
<1>7. T[Len(q)] = q
  BY <1>2, <1>6, SeqEqual
<1> QED
  BY <1>1, <1>7

LEMMA HeaderIs ==
    ASSUME NEW a, NEW b, Null \notin {a, b}, NEW h, h = [key |-> a, value |-> b]
    PROVE  IsHeader(h) /\ h.key = a
<1>1. DOMAIN h = {"key", "value"} /\ h["key"] = a /\ h["value"] = b
  OBVIOUS
<1>2. IsMap(h)
  BY Zenon DEF IsMap
<1> QED
  BY <1>1, <1>2 DEF IsHeader, HeaderKeys

\* The headers in a text.
LEMMA HeadersOfText ==
    ASSUME NEW t, AreLines(t)
    PROVE  AreHeaders(textToHeaders(t)) /\ Named(textToHeaders(t)) = textToHeaders(t)
<1>0. PICK S : S = {l \in ToSet(t) : l[1] # ""}
  OBVIOUS
<1>1. PICK lines : lines = Selected(t, S)
  OBVIOUS
<1>2. /\ IsList(lines)
      /\ \A i \in DOMAIN lines : lines[i] \in {t[j] : j \in DOMAIN t} /\ lines[i][1] # ""
  <2>1. IsList(t)
    BY DEF AreLines
  <2>2. /\ IsList(lines)
        /\ \A i \in DOMAIN lines : lines[i] \in {t[j] : j \in DOMAIN t} \cap S
    BY <1>1, <2>1, SelectedIn
  <2> QED
    BY <1>0, <2>2
<1>3. PICK n \in Nat : DOMAIN lines = 1..n
  BY <1>2, ListIn
<1>4. PICK hs : hs = [i \in 1..n |-> [key |-> lines[i][1], value |-> lines[i][2]]]
  OBVIOUS
<1>5. textToHeaders(t) = hs
  BY <1>0, <1>1, <1>3, <1>4 DEF textToHeaders
<1>6. IsList(hs) /\ DOMAIN hs = 1..n
  <2>1. hs = [i \in 1..n |-> hs[i]]
    BY <1>4
  <2> QED
    BY <2>1, FunctionIsList
<1>7. \A i \in 1..n : IsHeader(hs[i]) /\ hs[i].key # ""
  <2>1. TAKE i \in 1..n
  <2>2. lines[i][1] \notin {Null, ""} /\ lines[i][2] # Null
    BY <1>2, <1>3 DEF AreLines
  <2>3. hs[i] = [key |-> lines[i][1], value |-> lines[i][2]]
    BY <1>4
  <2>4. Null \notin {lines[i][1], lines[i][2]}
    BY <2>2
  <2>5. IsHeader(hs[i]) /\ hs[i].key = lines[i][1]
    BY <2>3, <2>4, HeaderIs
  <2> QED
    BY <2>2, <2>5
<1>8. AreHeaders(hs)
  BY <1>6, <1>7 DEF AreHeaders
<1>9. Named(hs) = hs
  <2>1. PICK named : named = {h \in ToSet(hs) : h.key # ""}
    OBVIOUS
  <2>2. \A i \in DOMAIN hs : hs[i] \in named
    BY <1>6, <1>7, <2>1 DEF ToSet
  <2>3. Selected(hs, named) = hs
    BY <1>6, <2>2, SelectedAll
  <2> QED
    BY <2>1, <2>3 DEF Named
<1> QED
  BY <1>5, <1>8, <1>9

\* The text of headers, and the headers in it: those with a key.
LEMMA TextOfHeaders ==
    ASSUME NEW hs, AreHeaders(hs)
    PROVE  AreLines(headersToText(hs)) /\ textToHeaders(headersToText(hs)) = Named(hs)
<1>0. PICK named : named = {h \in ToSet(hs) : h.key # ""}
  OBVIOUS
<1>1. PICK ns : ns = Named(hs)
  OBVIOUS
<1>2. /\ IsList(ns)
      /\ \A i \in DOMAIN ns : ns[i] \in {hs[j] : j \in DOMAIN hs} /\ ns[i].key # ""
  <2>1. IsList(hs) /\ ns = Selected(hs, named)
    BY <1>0, <1>1 DEF AreHeaders, Named
  <2>2. /\ IsList(ns)
        /\ \A i \in DOMAIN ns : ns[i] \in {hs[j] : j \in DOMAIN hs} \cap named
    BY <2>1, SelectedIn
  <2> QED
    BY <1>0, <2>2
<1>3. PICK n \in Nat : DOMAIN ns = 1..n
  BY <1>2, ListIn
<1>4. \A i \in 1..n : IsHeader(ns[i]) /\ ns[i].key # ""
  BY <1>2, <1>3 DEF AreHeaders
<1>5. PICK t : t = [i \in 1..n |-> <<ns[i].key, ns[i].value>>]
  OBVIOUS
<1>6. headersToText(hs) = t
  BY <1>1, <1>3, <1>5 DEF headersToText
<1>7. IsList(t) /\ DOMAIN t = 1..n
  <2>1. t = [i \in 1..n |-> t[i]]
    BY <1>5
  <2> QED
    BY <2>1, FunctionIsList
<1>8. \A i \in 1..n : t[i][1] = ns[i].key /\ t[i][2] = ns[i].value
  BY <1>5
<1>9. AreLines(t)
  BY <1>4, <1>7, <1>8 DEF AreLines, IsHeader, HeaderKeys
<1>10. PICK S : S = {l \in ToSet(t) : l[1] # ""}
  OBVIOUS
<1>11. Selected(t, S) = t
  <2>1. \A i \in DOMAIN t : t[i] \in S
    BY <1>4, <1>7, <1>8, <1>10 DEF ToSet
  <2> QED
    BY <1>7, <2>1, SelectedAll
<1>12. textToHeaders(t) = [i \in 1..n |-> [key |-> t[i][1], value |-> t[i][2]]]
  BY <1>7, <1>10, <1>11 DEF textToHeaders
<1>13. \A i \in 1..n : [key |-> t[i][1], value |-> t[i][2]] = ns[i]
  <2>1. TAKE i \in 1..n
  <2>2. IsMap(ns[i]) /\ DOMAIN ns[i] = {"key", "value"}
    BY <1>4 DEF IsHeader, HeaderKeys
  <2> QED
    BY <1>8, <2>2 DEF IsMap
<1>14. ns = [i \in 1..n |-> ns[i]]
  BY <1>2, <1>3, ListIsMap DEF IsMap
<1>15. textToHeaders(t) = ns
  BY <1>12, <1>13, <1>14
<1> QED
  BY <1>1, <1>6, <1>9, <1>15

-----------------------------------------------------------------------------
(* What runs by the settings.                                              *)

\* A client with the cookies x.
ClientWith(s, x) ==
    [verify |-> s.verify_ssl, keepAlive |-> s.keep_alive, maxConns |-> s.max_conns_per_host,
     http2 |-> ~s.disable_http2, connect |-> OrLibrary(s.connect_timeout_sec),
     tls |-> OrLibrary(s.tls_handshake_timeout_sec), idle |-> OrLibrary(s.idle_conn_timeout_sec),
     proxy |-> IF s.proxy \in Proxies \ {Garbled} THEN s.proxy ELSE "",
     timeout |-> s.request_timeout_sec, jar |-> x,
     redirects |-> IF ~s.follow_redirects THEN 0 ELSE OrLibrary(s.max_redirects)]

\* What Apply sets, without the cookies.
Bare(s) ==
    [vars |-> [k \in RuntimeKeys |-> s[k]],
     palette |-> Overridden(s, ThemeColorKeys, "palette", s.theme_overrides),
     syntax |-> Overridden(s, SyntaxColorKeys, "syntax", s.syntax_overrides),
     client |-> ClientWith(s, 0)]

ClientKeys ==
    {"verify", "keepAlive", "maxConns", "http2", "connect", "tls", "idle", "proxy", "timeout",
     "jar", "redirects"}

LEMMA ClientFields ==
    ASSUME NEW s, NEW x
    PROVE  /\ DOMAIN ClientWith(s, x) = ClientKeys /\ IsMap(ClientWith(s, x))
           /\ ClientWith(s, x)["jar"] = x
           /\ \A k \in ClientKeys \ {"jar"} : ClientWith(s, x)[k] = ClientWith(s, 0)[k]
<1>1. DOMAIN ClientWith(s, x) = ClientKeys
  BY DEF ClientWith, ClientKeys
<1>2. IsMap(ClientWith(s, x))
  BY Zenon DEF IsMap, ClientWith
<1>3. ClientWith(s, x)["jar"] = x
  BY DEF ClientWith
<1>4. /\ ClientWith(s, x)["verify"] = ClientWith(s, 0)["verify"]
      /\ ClientWith(s, x)["keepAlive"] = ClientWith(s, 0)["keepAlive"]
      /\ ClientWith(s, x)["maxConns"] = ClientWith(s, 0)["maxConns"]
      /\ ClientWith(s, x)["connect"] = ClientWith(s, 0)["connect"]
      /\ ClientWith(s, x)["tls"] = ClientWith(s, 0)["tls"]
      /\ ClientWith(s, x)["idle"] = ClientWith(s, 0)["idle"]
      /\ ClientWith(s, x)["proxy"] = ClientWith(s, 0)["proxy"]
      /\ ClientWith(s, x)["timeout"] = ClientWith(s, 0)["timeout"]
      /\ ClientWith(s, x)["redirects"] = ClientWith(s, 0)["redirects"]
  BY DEF ClientWith
<1>5. ClientWith(s, x)["http2"] = ClientWith(s, 0)["http2"]
  BY DEF ClientWith
<1> QED
  BY <1>1, <1>2, <1>3, <1>4, <1>5 DEF ClientKeys

LEMMA ClientApart ==
    ASSUME NEW s, NEW jar
    PROVE  /\ [buildHTTPClient(s, jar) EXCEPT !.jar = 0] = Bare(s).client
           /\ [buildHTTPClient(s, jar)' EXCEPT !.jar = 0] = Bare(s).client
<1>1. Bare(s).client = ClientWith(s, 0)
  BY DEF Bare
<1>2. ASSUME NEW x PROVE [ClientWith(s, x) EXCEPT !.jar = 0] = ClientWith(s, 0)
  <2>1. PICK f : f = ClientWith(s, x)
    OBVIOUS
  <2>2. PICK g : g = ClientWith(s, 0)
    OBVIOUS
  <2>3. DOMAIN f = ClientKeys /\ \A k \in ClientKeys \ {"jar"} : f[k] = g[k]
    BY <2>1, <2>2, ClientFields
  <2>4. DOMAIN g = ClientKeys /\ IsMap(g) /\ g["jar"] = 0
    BY <2>2, ClientFields
  <2>5. [f EXCEPT !.jar = 0] = g
    BY <2>3, <2>4 DEF IsMap
  <2> QED
    BY <2>1, <2>2, <2>5
<1>3. \E x : buildHTTPClient(s, jar) = ClientWith(s, x)
  BY Zenon DEF buildHTTPClient, ClientWith
<1>4. \E x : buildHTTPClient(s, jar)' = ClientWith(s, x)
  BY Zenon DEF buildHTTPClient, ClientWith
<1> QED
  BY <1>1, <1>2, <1>3, <1>4

LEMMA JarApart ==
    ASSUME NEW s, NEW jar
    PROVE  /\ [Apply(s, jar) EXCEPT !.client.jar = 0] = Bare(s)
           /\ [Apply(s, jar)' EXCEPT !.client.jar = 0] = Bare(s)
<1>1. PICK v : v = [k \in RuntimeKeys |-> s[k]]
  OBVIOUS
<1>2. PICK p : p = Overridden(s, ThemeColorKeys, "palette", s.theme_overrides)
  OBVIOUS
<1>3. PICK x : x = Overridden(s, SyntaxColorKeys, "syntax", s.syntax_overrides)
  OBVIOUS
<1>4. PICK c : c = Bare(s).client
  OBVIOUS
<1>5. Bare(s) = [vars |-> v, palette |-> p, syntax |-> x, client |-> c]
  BY <1>1, <1>2, <1>3, <1>4 DEF Bare
<1>6. Apply(s, jar) = [vars |-> v, palette |-> p, syntax |-> x, client |-> buildHTTPClient(s, jar)]
  BY <1>1, <1>2, <1>3 DEF Apply
<1>7. Apply(s, jar)' = [vars |-> v, palette |-> p, syntax |-> x, client |-> buildHTTPClient(s, jar)']
  BY <1>1, <1>2, <1>3 DEF Apply
<1>8. /\ [buildHTTPClient(s, jar) EXCEPT !.jar = 0] = c
      /\ [buildHTTPClient(s, jar)' EXCEPT !.jar = 0] = c
  BY <1>4, ClientApart
<1>9. ASSUME NEW b
      PROVE  [[vars |-> v, palette |-> p, syntax |-> x, client |-> b] EXCEPT !.client.jar = 0] =
                 [vars |-> v, palette |-> p, syntax |-> x, client |-> [b EXCEPT !.jar = 0]]
  OBVIOUS
<1> QED
  BY <1>5, <1>6, <1>7, <1>8, <1>9

LEMMA JarIs ==
    ASSUME NEW s, NEW jar, edits \in Nat, s.cookie_jar_enabled \in BOOLEAN
    PROVE  /\ Apply(s, jar).client.jar # 0 <=> s.cookie_jar_enabled
           /\ s.cookie_jar_enabled /\ jar # 0 => Apply(s, jar).client.jar = jar
<1>1. Apply(s, jar).client.jar = IF ~s.cookie_jar_enabled THEN 0 ELSE IF jar = 0 THEN edits + 1 ELSE jar
  <2>1. Apply(s, jar).client = buildHTTPClient(s, jar)
    BY DEF Apply
  <2>2. buildHTTPClient(s, jar).jar = IF ~s.cookie_jar_enabled THEN 0 ELSE IF jar = 0 THEN edits + 1 ELSE jar
    BY DEF buildHTTPClient
  <2> QED
    BY <2>1, <2>2
<1> QED
  BY <1>1

\* Whatever is applied is what the settings say.
LEMMA Applied ==
    ASSUME edits \in Nat, NEW s, Sound(s), settings' = s, NEW jar, runtime' = Apply(s, jar)
    PROVE  RuntimeMatches'
<1>1. s.cookie_jar_enabled \in BOOLEAN
  BY SomeKeys DEF Sound, WellTyped
<1>2. runtime'.client.jar # 0 <=> s.cookie_jar_enabled
  BY <1>1, JarIs
<1>3. [runtime' EXCEPT !.client.jar = 0] = Bare(s)
  BY JarApart
<1>4. [Apply(settings, 0) EXCEPT !.client.jar = 0]' = Bare(s)
  <2>1. [Apply(s, 0)' EXCEPT !.client.jar = 0] = Bare(s)
    BY JarApart
  <2> QED
    BY <2>1
<1> QED
  BY <1>2, <1>3, <1>4 DEF RuntimeMatches

LEMMA MatchesBare ==
    /\ RuntimeMatches <=> /\ [runtime EXCEPT !.client.jar = 0] = Bare(settings)
                          /\ runtime.client.jar # 0 <=> settings.cookie_jar_enabled
    /\ RuntimeMatches' <=> /\ [runtime' EXCEPT !.client.jar = 0] = Bare(settings')
                           /\ runtime'.client.jar # 0 <=> settings'.cookie_jar_enabled
<1>1. PICK s, t : s = settings /\ t = settings'
  OBVIOUS
<1>2. [Apply(settings, 0) EXCEPT !.client.jar = 0] = Bare(s)
  BY <1>1, JarApart
<1>3. [Apply(settings, 0) EXCEPT !.client.jar = 0]' = Bare(t)
  <2>1. [Apply(t, 0)' EXCEPT !.client.jar = 0] = Bare(t)
    BY JarApart
  <2> QED
    BY <1>1, <2>1
<1> QED
  BY <1>1, <1>2, <1>3 DEF RuntimeMatches

\* The sidebar is nothing the client, the variables or the colors depend on.
LEMMA SidebarApart ==
    ASSUME NEW s, NEW t, \A k \in SettingsKeys \ {"hide_sidebar"} : t[k] = s[k]
    PROVE  Bare(t) = Bare(s)
<1>1. RuntimeKeys \subseteq SettingsKeys \ {"hide_sidebar"}
  BY SMTT(60) DEF RuntimeKeys, SettingsKeys, AppearanceKeys, HTTPKeys, ViewKeys
<1>2. [k \in RuntimeKeys |-> t[k]] = [k \in RuntimeKeys |-> s[k]]
  BY <1>1
<1>3. /\ t.theme = s.theme /\ t.custom_themes = s.custom_themes
      /\ t.theme_overrides = s.theme_overrides /\ t.syntax_overrides = s.syntax_overrides
  BY DEF SettingsKeys, AppearanceKeys, ThemeMapKeys
<1>4. /\ t.verify_ssl = s.verify_ssl /\ t.keep_alive = s.keep_alive
      /\ t.max_conns_per_host = s.max_conns_per_host /\ t.disable_http2 = s.disable_http2
      /\ t.connect_timeout_sec = s.connect_timeout_sec
      /\ t.tls_handshake_timeout_sec = s.tls_handshake_timeout_sec
      /\ t.idle_conn_timeout_sec = s.idle_conn_timeout_sec /\ t.proxy = s.proxy
      /\ t.request_timeout_sec = s.request_timeout_sec /\ t.follow_redirects = s.follow_redirects
      /\ t.max_redirects = s.max_redirects
  BY DEF SettingsKeys, HTTPKeys
<1> QED
  BY <1>2, <1>3, <1>4 DEF Bare, ClientWith, Overridden

-----------------------------------------------------------------------------
(* The editor.                                                             *)

\* A theme in use has a name.
LEMMA ThemeHasName ==
    ASSUME NEW id, NEW customs, AreThemes(customs), IsValidID(id, customs)
    PROVE  id # ""
BY SettingsAssumption DEF IsValidID, AreThemes, IsCustomTheme

LEMMA Synced ==
    ASSUME NEW e, Workable(e), NEW y, y = SyncEditors(e)
    PROVE  /\ DOMAIN y = EditorFields /\ IsMap(y)
           /\ \A k \in EditorFields \ {"rows", "of"} : y[k] = e[k]
           /\ DOMAIN y["rows"] = Kinds /\ DOMAIN y["of"] = Kinds
           /\ \A kind \in Kinds :
                 /\ y["rows"][kind] = OverrideOf(Overrides(e.draft, kind), e.draft.theme)
                 /\ y["of"][kind] = e.draft.theme
<1>1. PICK rows : rows = [kind \in {"syntax", "theme"} |->
                             IF e.of[kind] = e.draft.theme THEN e.rows[kind]
                             ELSE OverrideOf(Overrides(e.draft, kind), e.draft.theme)]
  OBVIOUS
<1>2. PICK of : of = [kind \in {"syntax", "theme"} |-> e.draft.theme]
  OBVIOUS
<1>3. y = [e EXCEPT !.rows = rows, !.of = of]
  <2>1. DOMAIN e = EditorFields
    BY DEF Workable
  <2> QED
    BY <1>1, <1>2, <2>1 DEF SyncEditors, EditorFields
<1>4. \A kind \in Kinds : rows[kind] = OverrideOf(Overrides(e.draft, kind), e.draft.theme)
  BY <1>1 DEF Workable, RowsFit, Kinds
<1>5. DOMAIN e = EditorFields /\ {"rows", "of"} \subseteq EditorFields
  BY DEF Workable, EditorFields
<1>6. /\ DOMAIN y = EditorFields /\ IsMap(y) /\ y["rows"] = rows /\ y["of"] = of
      /\ \A k \in EditorFields \ {"rows", "of"} : y[k] = e[k]
  BY <1>3, <1>5 DEF IsMap
<1>7. DOMAIN rows = Kinds /\ DOMAIN of = Kinds /\ \A kind \in Kinds : of[kind] = e.draft.theme
  BY <1>1, <1>2 DEF Kinds
<1> QED
  BY <1>4, <1>6, <1>7

LEMMA GatheredFields ==
    ASSUME NEW e, Workable(e), NEW d, d = Gathered(e)
    PROVE  /\ Sound(d)
           /\ \A k \in Switches : d[k] = e.switch[k]
           /\ d.default_headers = textToHeaders(e.headers)
           /\ d.theme = e.draft.theme /\ d.custom_themes = e.draft.custom_themes
           /\ d.syntax_overrides = e.draft.syntax_overrides
           /\ d.theme_overrides = e.draft.theme_overrides
<1>1. PICK g : g = [k \in SettingsKeys |->
                      CASE k \in Switches -> e.switch[k]
                        [] k = "user_agent" -> e.agent
                        [] k = "proxy" -> e.proxy
                        [] k = "default_headers" -> textToHeaders(e.headers)
                        [] OTHER -> e.draft[k]]
  OBVIOUS
<1>2. d = Sanitize(g)
  BY <1>1 DEF Gathered
<1>3. DOMAIN g = SettingsKeys /\ IsMap(g)
  BY <1>1 DEF IsMap
<1> DEFINE typed == {"user_agent", "proxy", "default_headers"}
<1>4. /\ Switches \subseteq SettingsKeys /\ typed \subseteq SettingsKeys
      /\ Switches \cap typed = {} /\ Numbers \subseteq SettingsKeys \ (Switches \cup typed)
      /\ ThemeMapKeys \cup {"theme", "default_method", "default_accept_encoding"}
            \subseteq SettingsKeys \ (Switches \cup typed)
  BY KindsOfKeys, SomeKeys
<1>5. \A k \in Switches : g[k] = e.switch[k]
  BY <1>1, <1>4
<1>6. g["user_agent"] = e.agent /\ g["proxy"] = e.proxy /\ g["default_headers"] = textToHeaders(e.headers)
  BY <1>1, <1>4
<1>7. \A k \in SettingsKeys \ (Switches \cup typed) : g[k] = e.draft[k]
  BY <1>1, <1>4
<1> HIDE DEF typed
<1>8. \A k \in Numbers : g[k] = e.draft[k]
  BY <1>4, <1>7
<1>9. /\ g.theme = e.draft.theme /\ g.custom_themes = e.draft.custom_themes
      /\ g.syntax_overrides = e.draft.syntax_overrides /\ g.theme_overrides = e.draft.theme_overrides
      /\ g.default_method = e.draft.default_method
      /\ g.default_accept_encoding = e.draft.default_accept_encoding
  BY <1>4, <1>7, SomeKeys
<1>10. WellTyped(g)
  <2>1. WellTyped(e.draft) /\ e.switch \in [Switches -> BOOLEAN] /\ Null \notin {e.agent, e.proxy}
        /\ AreLines(e.headers)
    BY DEF Workable
  <2>2. \A k \in Switches : g[k] \in BOOLEAN
    BY <1>5, <2>1
  <2>3. \A k \in Numbers : g[k] \in Int
    BY <1>8, <2>1 DEF WellTyped
  <2>4. \A k \in Texts : g[k] # Null
    BY <1>6, <1>9, <2>1 DEF WellTyped, Texts
  <2>5. AreHeaders(g.default_headers)
    BY <1>6, <2>1, HeadersOfText
  <2> QED
    BY <1>3, <1>9, <2>1, <2>2, <2>3, <2>4, <2>5 DEF WellTyped
<1>11. Sound(d)
  BY <1>2, <1>10, SanitizeSound
<1>12. \A k \in Switches \cup {"default_headers"} \cup ThemeMapKeys : d[k] = g[k]
  <2>1. Switches \cup {"default_headers"} \cup ThemeMapKeys \subseteq SettingsKeys \ (Numbers \cup Special)
    BY KindsOfKeys, SomeKeys DEF Special
  <2>2. \A k \in SettingsKeys \ (Numbers \cup Special) : d[k] = g[k]
    BY <1>2, SanitizeFields
  <2> QED
    BY <2>1, <2>2
<1>13. d.theme = g.theme
  <2>1. d["theme"] = IF IsValidID(g.theme, g.custom_themes) THEN g["theme"] ELSE "dark"
    BY <1>2, SanitizeFields
  <2>2. IsValidID(g.theme, g.custom_themes)
    BY <1>9 DEF Workable
  <2> QED
    BY <2>1, <2>2
<1>14. \A k \in Switches : d[k] = e.switch[k]
  BY <1>5, <1>12
<1>15. d.default_headers = textToHeaders(e.headers)
  BY <1>6, <1>12
<1>16. /\ d.custom_themes = e.draft.custom_themes
       /\ d.syntax_overrides = e.draft.syntax_overrides /\ d.theme_overrides = e.draft.theme_overrides
  BY <1>9, <1>12, SomeKeys
<1> QED
  BY <1>9, <1>11, <1>13, <1>14, <1>15, <1>16

\* The end of Update: the page, the settings and what runs by them are in step again.
LEMMA ChangedKeeps ==
    ASSUME edits \in Nat, NEW e, Workable(e), Changed(e)
    PROVE  /\ Sound(settings') /\ RuntimeMatches'
           /\ Workable(ed') /\ Current(ed', settings')
<1>1. PICK y : y = SyncEditors(e)
  OBVIOUS
<1>2. /\ DOMAIN y = EditorFields /\ IsMap(y)
      /\ \A k \in EditorFields \ {"rows", "of"} : y[k] = e[k]
      /\ DOMAIN y["rows"] = Kinds /\ DOMAIN y["of"] = Kinds
      /\ \A kind \in Kinds :
            /\ y["rows"][kind] = OverrideOf(Overrides(e.draft, kind), e.draft.theme)
            /\ y["of"][kind] = e.draft.theme
  BY <1>1, Synced
<1>3. /\ y.draft = e.draft /\ y.switch = e.switch /\ y.agent = e.agent /\ y.proxy = e.proxy
      /\ y.headers = e.headers /\ y.picker = e.picker /\ y.base = e.base
  BY <1>2 DEF EditorFields
<1>4. Workable(y)
  <2>1. RowsFit(y)
    BY <1>2, <1>3 DEF RowsFit
  <2> QED
    BY <1>2, <1>3, <2>1 DEF Workable
<1>5. PICK d : d = Gathered(y)
  OBVIOUS
<1>6. /\ ed' = [y EXCEPT !.draft = d]
      /\ settings' = d /\ runtime' = Apply(d, runtime.client.jar)
  BY <1>1, <1>5 DEF Changed
<1>7. /\ Sound(d)
      /\ \A k \in Switches : d[k] = y.switch[k]
      /\ d.default_headers = textToHeaders(y.headers)
      /\ d.theme = y.draft.theme /\ d.custom_themes = y.draft.custom_themes
      /\ d.syntax_overrides = y.draft.syntax_overrides
      /\ d.theme_overrides = y.draft.theme_overrides
  BY <1>4, <1>5, GatheredFields
<1>8. RuntimeMatches'
  BY <1>6, <1>7, Applied
<1>9. PICK z : z = ed'
  OBVIOUS
<1>10. /\ DOMAIN z = EditorFields /\ IsMap(z) /\ z["draft"] = d
       /\ \A k \in EditorFields \ {"draft"} : z[k] = y[k]
  BY <1>2, <1>6, <1>9 DEF IsMap, EditorFields
<1>11. /\ z.draft = d /\ z.switch = y.switch /\ z.agent = y.agent /\ z.proxy = y.proxy
       /\ z.headers = y.headers /\ z.picker = y.picker /\ z.base = y.base
       /\ z.rows = y.rows /\ z.of = y.of
  BY <1>10 DEF EditorFields
<1>12. \A kind \in Kinds : Overrides(d, kind) = Overrides(e.draft, kind)
  BY <1>3, <1>7 DEF Overrides
<1>13. Workable(z)
  <2>1. RowsFit(z)
    BY <1>2, <1>3, <1>7, <1>11, <1>12 DEF RowsFit
  <2>2. WellTyped(d) /\ IsValidID(d.theme, d.custom_themes)
    BY <1>7 DEF Sound, InOrder
  <2> QED
    BY <1>4, <1>10, <1>11, <2>1, <2>2 DEF Workable
<1>14. Current(z, d)
  <2>1. textToHeaders(z.headers) = Named(d.default_headers)
    BY <1>4, <1>7, <1>11, HeadersOfText DEF Workable
  <2>2. \A kind \in Kinds : z.of[kind] = d.theme
    BY <1>2, <1>3, <1>7, <1>11
  <2> QED
    BY <1>7, <1>11, <2>1, <2>2 DEF Current
<1> QED
  BY <1>6, <1>7, <1>8, <1>9, <1>13, <1>14

LEMMA ShownKeeps ==
    ASSUME NEW e, Workable(e), Current(ed, settings), e.draft = ed.draft, e.switch = ed.switch,
           e.headers = ed.headers, ed' = SyncEditors(e), settings' = settings
    PROVE  Workable(ed') /\ Current(ed', settings')
<1>1. PICK y : y = ed'
  OBVIOUS
<1>2. /\ DOMAIN y = EditorFields /\ IsMap(y)
      /\ \A k \in EditorFields \ {"rows", "of"} : y[k] = e[k]
      /\ DOMAIN y["rows"] = Kinds /\ DOMAIN y["of"] = Kinds
      /\ \A kind \in Kinds :
            /\ y["rows"][kind] = OverrideOf(Overrides(e.draft, kind), e.draft.theme)
            /\ y["of"][kind] = e.draft.theme
  BY <1>1, Synced
<1>3. /\ y.draft = e.draft /\ y.switch = e.switch /\ y.agent = e.agent /\ y.proxy = e.proxy
      /\ y.headers = e.headers /\ y.picker = e.picker /\ y.base = e.base
  BY <1>2 DEF EditorFields
<1>4. Workable(y)
  <2>1. RowsFit(y)
    BY <1>2, <1>3 DEF RowsFit
  <2> QED
    BY <1>2, <1>3, <2>1 DEF Workable
<1>5. e.draft.theme = settings.theme
  <2>1. "theme" \in SettingsKeys \ {"hide_sidebar"}
    BY KindsOfKeys, SomeKeys
  <2> QED
    BY <2>1 DEF Current
<1>6. Current(y, settings)
  BY <1>2, <1>3, <1>5 DEF Current
<1> QED
  BY <1>1, <1>4, <1>6

\* An editor is workable with other texts, another draft and another picker, as long as the
\* overrides and the rows stay.
LEMMA Reworked ==
    ASSUME NEW e, Workable(e), \A kind \in Kinds : e.of[kind] = e.draft.theme,
           NEW f, DOMAIN f = EditorFields, IsMap(f), f.rows = e.rows, f.of = e.of,
           WellTyped(f.draft), IsValidID(f.draft.theme, f.draft.custom_themes),
           f.draft.syntax_overrides = e.draft.syntax_overrides,
           f.draft.theme_overrides = e.draft.theme_overrides,
           f.switch \in [Switches -> BOOLEAN], Null \notin {f.agent, f.proxy, f.base},
           AreLines(f.headers), PickerFits(f.picker)
    PROVE  Workable(f)
<1>1. \A kind \in Kinds : Overrides(f.draft, kind) = Overrides(e.draft, kind)
  BY DEF Overrides
<1>2. RowsFit(f)
  BY <1>1 DEF Workable, RowsFit
<1> QED
  BY <1>2 DEF Workable

\* Setting one field of the settings.
LEMMA TypedWith ==
    ASSUME NEW d, WellTyped(d), NEW k \in SettingsKeys, NEW v,
           k \in Switches => v \in BOOLEAN,
           k \in Numbers => v \in Int,
           k \in Texts => v # Null,
           k = "default_headers" => AreHeaders(v),
           k = "syntax_overrides" => AreOverrides(v, SyntaxColorKeys),
           k = "theme_overrides" => AreOverrides(v, ThemeColorKeys),
           k = "custom_themes" => AreThemes(v),
           NEW t, t = [d EXCEPT ![k] = v]
    PROVE  WellTyped(t) /\ t[k] = v /\ \A j \in SettingsKeys \ {k} : t[j] = d[j]
<1>1. DOMAIN t = SettingsKeys /\ IsMap(t) /\ t[k] = v /\ \A j \in SettingsKeys \ {k} : t[j] = d[j]
  BY DEF WellTyped, IsMap
<1>2. \A j \in Switches : t[j] \in BOOLEAN
  <2>1. TAKE j \in Switches
  <2>2. CASE j = k
    BY <1>1, <2>2
  <2>3. CASE j # k
    BY <1>1, <2>3, KindsOfKeys DEF WellTyped
  <2> QED
    BY <2>2, <2>3
<1>3. \A j \in Numbers : t[j] \in Int
  BY <1>1, KindsOfKeys DEF WellTyped
<1>4. \A j \in Texts : t[j] # Null
  BY <1>1, KindsOfKeys DEF WellTyped
<1>5. /\ AreHeaders(t["default_headers"])
      /\ AreOverrides(t["syntax_overrides"], SyntaxColorKeys)
      /\ AreOverrides(t["theme_overrides"], ThemeColorKeys)
      /\ AreThemes(t["custom_themes"])
  <2>1. {"default_headers", "syntax_overrides", "theme_overrides", "custom_themes"} \subseteq SettingsKeys
    BY KindsOfKeys, SomeKeys
  <2>2. /\ AreHeaders(d["default_headers"])
        /\ AreOverrides(d["syntax_overrides"], SyntaxColorKeys)
        /\ AreOverrides(d["theme_overrides"], ThemeColorKeys)
        /\ AreThemes(d["custom_themes"])
    BY DEF WellTyped
  <2> QED
    BY <1>1, <2>1, <2>2
<1> QED
  BY <1>1, <1>2, <1>3, <1>4, <1>5 DEF WellTyped

\* The editor of settings in order.
LEMMA NewEditorFields ==
    ASSUME NEW s, Sound(s), NEW e, e = NewEditor(s)
    PROVE  /\ Workable(e)
           /\ e.draft = s /\ e.switch = [k \in Switches |-> s[k]]
           /\ textToHeaders(e.headers) = Named(s.default_headers)
<1>1. /\ DOMAIN e = EditorFields
      /\ e.draft = s /\ e.switch = [k \in Switches |-> s[k]] /\ e.agent = s.user_agent
      /\ e.proxy = s.proxy /\ e.headers = headersToText(s.default_headers)
      /\ e.rows = [syntax |-> <<>>, theme |-> <<>>] /\ e.of = [syntax |-> "", theme |-> ""]
      /\ e.picker = NoPicker /\ e.base = ""
  BY DEF NewEditor, EditorFields
<1>2. IsMap(e)
  BY Zenon DEF IsMap, NewEditor
<1>3. WellTyped(s) /\ IsValidID(s.theme, s.custom_themes)
  BY DEF Sound, InOrder
<1>4. e.switch \in [Switches -> BOOLEAN]
  BY <1>1, <1>3 DEF WellTyped
<1>5. Null \notin {e.agent, e.proxy, e.base}
  BY <1>1, <1>3, NullAssumption, SomeKeys DEF WellTyped
<1>6. AreLines(e.headers) /\ textToHeaders(e.headers) = Named(s.default_headers)
  BY <1>1, <1>3, TextOfHeaders DEF WellTyped
<1>7. DOMAIN e.rows = Kinds /\ DOMAIN e.of = Kinds /\ e.of["syntax"] = "" /\ e.of["theme"] = ""
  <2>1. PICK rows, of : rows = [syntax |-> <<>>, theme |-> <<>>] /\ of = [syntax |-> "", theme |-> ""]
    OBVIOUS
  <2>2. DOMAIN rows = Kinds /\ DOMAIN of = Kinds /\ of["syntax"] = "" /\ of["theme"] = ""
    BY <2>1 DEF Kinds
  <2> QED
    BY <1>1, <2>1, <2>2
<1>8. RowsFit(e)
  <2>1. s.theme # ""
    BY <1>3, ThemeHasName DEF WellTyped
  <2> QED
    BY <1>1, <1>7, <2>1 DEF RowsFit, Kinds
<1>9. PickerFits(e.picker)
  BY <1>1 DEF PickerFits, NoPicker
<1> QED
  BY <1>1, <1>2, <1>3, <1>4, <1>5, <1>6, <1>7, <1>8, <1>9 DEF Workable

LEMMA DefaultsSound == Sound(DefaultSettings)
<1>1. \A k \in Numbers : GoodNumber(k, DefaultSettings[k])
  BY LimitsOK, DefaultNumbers DEF GoodNumber
<1>2. \A k \in Switches : DefaultSettings[k] \in BOOLEAN
  BY DefaultsTyped DEF WellTyped
<1>3. IsValidID(DefaultSettings.theme, DefaultSettings.custom_themes)
  BY DefaultOthers, SettingsAssumption DEF IsValidID
<1>4. InOrder(DefaultSettings)
  BY <1>1, <1>2, <1>3, DefaultsTyped, DefaultOthers DEF InOrder, GoodNumber, Methods, WellTyped
<1> QED
  <2>1. DefaultSettings.stack_breakpoint_dp \notin 1..399
    <3>1. DefaultSettings.stack_breakpoint_dp = 700
      BY DefaultNumbers
    <3> QED
      BY <3>1
  <2>2. DefaultSettings.default_accept_encoding \in Encodings
    BY DefaultOthers DEF Encodings
  <2> QED
    BY <1>4, <2>1, <2>2, DefaultsTyped, Zenon DEF Sound

-----------------------------------------------------------------------------
(* The events of the page.                                                 *)

LEMMA EditorThere ==
    ASSUME IInv, ed # Null
    PROVE  /\ Workable(ed) /\ Current(ed, settings)
           /\ \A kind \in Kinds : ed.of[kind] = ed.draft.theme
           /\ WellTyped(ed.draft) /\ Sound(ed.draft)
<1>1. Workable(ed) /\ Current(ed, settings)
  BY DEF IInv
<1>2. "theme" \in SettingsKeys \ {"hide_sidebar"}
  BY KindsOfKeys, SomeKeys
<1> QED
  BY <1>1, <1>2 DEF Current, Sound

LEMMA WorkableIsSomething ==
    ASSUME NullsApart, NEW e, Workable(e)
    PROVE  e # Null
BY DEF Workable, IsMap, NullsApart

\* An event that changed something.
LEMMA ChangedStep ==
    ASSUME NullsApart, IInv, MayEdit, NEW e, Workable(e), Changed(e)
    PROVE  IInv'
<1>1. edits \in Nat /\ edits' \in 0..MaxEdits
  <2>1. edits \in 0..MaxEdits
    BY DEF IInv
  <2>2. edits < MaxEdits
    BY DEF MayEdit
  <2>3. edits' = edits + 1
    BY DEF Changed
  <2>4. MaxEdits \in Nat
    BY SettingsAssumption
  <2> QED
    BY <2>1, <2>2, <2>3, <2>4
<1>2. Sound(settings') /\ RuntimeMatches' /\ Workable(ed') /\ Current(ed', settings')
  BY <1>1, ChangedKeeps
<1>3. /\ hideSaved' = hideSaved /\ section' = section /\ open' = open /\ file' = file
      /\ saveNeeded' = TRUE
  BY DEF Changed, Elsewhere
<1>4. SurvivesRestart'
  BY <1>3 DEF SurvivesRestart
<1>5. ed' # Null
  BY <1>2, WorkableIsSomething
<1> QED
  BY <1>1, <1>2, <1>3, <1>4, <1>5 DEF IInv

\* One that changed nothing but the page.
LEMMA ShownStep ==
    ASSUME NullsApart, IInv, ed # Null, NEW e, Workable(e), Shown(e),
           e.draft = ed.draft, e.switch = ed.switch, e.headers = ed.headers
    PROVE  IInv'
<1>1. /\ settings' = settings /\ runtime' = runtime /\ saveNeeded' = saveNeeded /\ edits' = edits
      /\ hideSaved' = hideSaved /\ section' = section /\ open' = open /\ file' = file
      /\ ed' = SyncEditors(e)
  BY DEF Shown, Elsewhere
<1>2. Workable(ed') /\ Current(ed', settings')
  BY <1>1, EditorThere, ShownKeeps
<1>3. SurvivesRestart'
  BY <1>1 DEF IInv, SurvivesRestart, Undone, Loaded, WidthOf
<1>4. RuntimeMatches'
  BY <1>1, MatchesBare DEF IInv
<1>5. ed' # Null
  BY <1>2, WorkableIsSomething
<1> QED
  BY <1>1, <1>2, <1>3, <1>4, <1>5 DEF IInv

LEMMA SwitchKeeps ==
    ASSUME NullsApart, IInv, NEW k \in Switches, Switch(k)
    PROVE  IInv'
<1>1. MayEdit /\ ed # Null /\ Changed([ed EXCEPT !.switch[k] = ~@])
  BY DEF Switch, MayEdit, Page
<1>2. PICK f : f = [ed EXCEPT !.switch[k] = ~@]
  OBVIOUS
<1>3. Workable(ed)
  BY <1>1, EditorThere
<1>4. /\ DOMAIN f = EditorFields /\ IsMap(f) /\ f["switch"] = [ed.switch EXCEPT ![k] = ~@]
      /\ \A x \in EditorFields \ {"switch"} : f[x] = ed[x]
  <2>1. DOMAIN ed = EditorFields
    BY <1>3 DEF Workable
  <2> QED
    BY <1>2, <2>1 DEF IsMap, EditorFields
<1>5. /\ f.draft = ed.draft /\ f.agent = ed.agent /\ f.proxy = ed.proxy /\ f.headers = ed.headers
      /\ f.rows = ed.rows /\ f.of = ed.of /\ f.picker = ed.picker /\ f.base = ed.base
  BY <1>4 DEF EditorFields
<1>6. f.switch \in [Switches -> BOOLEAN]
  <2>1. ed.switch \in [Switches -> BOOLEAN]
    BY <1>3 DEF Workable
  <2> QED
    BY <1>4, <2>1
<1>7. Workable(f)
  <2>1. RowsFit(f)
    BY <1>3, <1>5 DEF Workable, RowsFit
  <2> QED
    BY <1>3, <1>4, <1>5, <1>6, <2>1 DEF Workable
<1> QED
  BY <1>1, <1>2, <1>7, ChangedStep

\* A change of the draft only, apart from its overrides.
LEMMA DraftStep ==
    ASSUME NullsApart, IInv, MayEdit, NEW d, WellTyped(d), IsValidID(d.theme, d.custom_themes),
           d.syntax_overrides = ed.draft.syntax_overrides,
           d.theme_overrides = ed.draft.theme_overrides,
           NEW f, DOMAIN f = EditorFields, IsMap(f), f["draft"] = d,
           f["picker"] \in {ed.picker, NoPicker},
           \A x \in EditorFields \ {"draft", "picker", "dialog"} : f[x] = ed[x],
           Changed(f)
    PROVE  IInv'
<1>1. ed # Null
  BY DEF MayEdit, Page
<1>2. Workable(ed) /\ \A kind \in Kinds : ed.of[kind] = ed.draft.theme
  BY <1>1, EditorThere
<1>3. /\ f.draft = d /\ f.switch = ed.switch /\ f.agent = ed.agent /\ f.proxy = ed.proxy
      /\ f.headers = ed.headers /\ f.rows = ed.rows /\ f.of = ed.of /\ f.base = ed.base
  BY DEF EditorFields
<1>4. PickerFits(f.picker)
  BY <1>2 DEF Workable, PickerFits, NoPicker
<1>5. Workable(f)
  <2>1. /\ ed.switch \in [Switches -> BOOLEAN] /\ Null \notin {ed.agent, ed.proxy, ed.base}
        /\ AreLines(ed.headers)
    BY <1>2 DEF Workable
  <2> QED
    BY <1>2, <1>3, <1>4, <2>1, Reworked
<1> QED
  BY <1>5, ChangedStep

\* A field of the draft that is a number or a text and not the theme.
LEMMA FieldStep ==
    ASSUME NullsApart, IInv, MayEdit, NEW k \in (Numbers \cup Texts) \ {"theme"}, NEW v,
           k \in Numbers => v \in Int, k \in Texts => v # Null, Changed(WithDraft(k, v))
    PROVE  IInv'
<1>1. ed # Null
  BY DEF MayEdit, Page
<1>2. Workable(ed) /\ WellTyped(ed.draft)
  BY <1>1, EditorThere
<1>3. PICK d : d = [ed.draft EXCEPT ![k] = v]
  OBVIOUS
<1>4. PICK f : f = WithDraft(k, v)
  OBVIOUS
<1>5. /\ k \in SettingsKeys /\ k \notin Switches /\ k \notin {"default_headers"} \cup ThemeMapKeys
  BY KindsOfKeys
<1>6. WellTyped(d) /\ \A j \in SettingsKeys \ {k} : d[j] = ed.draft[j]
  BY <1>2, <1>3, <1>5, SomeKeys, TypedWith
<1>7. /\ d.theme = ed.draft.theme /\ d.custom_themes = ed.draft.custom_themes
      /\ d.syntax_overrides = ed.draft.syntax_overrides
      /\ d.theme_overrides = ed.draft.theme_overrides
  <2>1. {"theme", "custom_themes", "syntax_overrides", "theme_overrides"} \subseteq SettingsKeys \ {k}
    BY <1>5, KindsOfKeys, SomeKeys
  <2> QED
    BY <1>6, <2>1
<1>8. /\ DOMAIN f = EditorFields /\ IsMap(f) /\ f["draft"] = d
      /\ \A x \in EditorFields \ {"draft"} : f[x] = ed[x]
  <2>1. DOMAIN ed = EditorFields
    BY <1>2 DEF Workable
  <2> QED
    BY <1>3, <1>4, <2>1 DEF IsMap, EditorFields, WithDraft
<1>9. IsValidID(d.theme, d.custom_themes)
  BY <1>2, <1>7 DEF Workable
<1>10. f["picker"] = ed.picker
  BY <1>8 DEF EditorFields
<1> QED
  BY <1>4, <1>6, <1>7, <1>8, <1>9, <1>10, DraftStep

\* The numbers: what the buttons and the fields set is a number.
LEMMA NumberKeeps ==
    ASSUME NullsApart, IInv, NEW k \in Numbers,
           \/ Step(k, Down(k, ed.draft[k]))
           \/ Step(k, Up(k, ed.draft[k]))
           \/ \E v \in Typed : Commit(k, v)
    PROVE  IInv'
<1>1. ed # Null /\ MayEdit
  BY DEF Step, Commit, MayEdit, Page
<1>2. WellTyped(ed.draft)
  BY <1>1, EditorThere
<1>3. PICK n \in Int : n = ed.draft[k]
  BY <1>2 DEF WellTyped
<1>4. ASSUME NEW v \in Int PROVE Clamped(k, v) \in Int
  BY LimitsOK DEF Clamped, Max2, Min2
<1>5. StepOf(k, n) \in Int
  <2>1. timeoutStep(n) \in Int /\ connsStep(n) \in Int
    BY DEF timeoutStep, connsStep
  <2> QED
    BY <2>1 DEF StepOf
<1>6. Down(k, n) \in Int /\ Up(k, n) \in Int
  BY <1>4, <1>5 DEF Down, Up
<1>7. k # "theme" /\ k \notin Texts
  BY KindsOfKeys, SomeKeys
<1>8. ASSUME NEW v \in Int, Changed(WithDraft(k, v)) PROVE IInv'
  BY <1>1, <1>7, <1>8, FieldStep
<1>9. ASSUME NEW v \in Int, Step(k, v) PROVE IInv'
  BY <1>8, <1>9 DEF Step
<1>10. ASSUME NEW v \in Typed, Commit(k, v) PROVE IInv'
  <2>1. v \in Int
    BY SettingsAssumption
  <2>2. \E c \in Int : Changed(WithDraft(k, c))
    BY <1>4, <1>10, <2>1 DEF Commit
  <2> QED
    BY <1>8, <2>2
<1> QED
  BY <1>3, <1>6, <1>9, <1>10

LEMMA PickKeeps ==
    ASSUME NullsApart, IInv,
           \/ \E m \in Methods : PickMethod(m)
           \/ \E c \in Encodings : PickEncoding(c)
    PROVE  IInv'
<1>1. \A m \in Methods \cup Encodings : m # Null
  BY NullAssumption
<1>2. {"default_method", "default_accept_encoding"} \subseteq Texts \ {"theme"}
      /\ Texts \cap Numbers = {}
  BY KindsOfKeys, SomeKeys
<1>3. ASSUME NEW m \in Methods, PickMethod(m) PROVE IInv'
  <2>1. MayEdit /\ Changed(WithDraft("default_method", m))
    BY <1>3 DEF PickMethod
  <2> QED
    BY <1>1, <1>2, <2>1, FieldStep
<1>4. ASSUME NEW c \in Encodings, PickEncoding(c) PROVE IInv'
  <2>1. MayEdit /\ Changed(WithDraft("default_accept_encoding", c))
    BY <1>4 DEF PickEncoding
  <2> QED
    BY <1>1, <1>2, <2>1, FieldStep
<1> QED
  BY <1>3, <1>4

\* The texts of the page are read when the settings are gathered.
LEMMA TextKeeps ==
    ASSUME NullsApart, IInv, EditText
    PROVE  IInv'
<1>1. MayEdit /\ ed # Null
  BY DEF EditText, MayEdit, Page
<1>2. Workable(ed)
  BY <1>1, EditorThere
<1>3. DOMAIN ed = EditorFields
  BY <1>2 DEF Workable
<1>4. ASSUME NEW f, DOMAIN f = EditorFields, IsMap(f),
             \A x \in EditorFields \ {"agent", "proxy", "headers"} : f[x] = ed[x],
             Null \notin {f["agent"], f["proxy"]}, AreLines(f["headers"])
      PROVE  Workable(f)
  <2>1. /\ f.draft = ed.draft /\ f.switch = ed.switch /\ f.rows = ed.rows /\ f.of = ed.of
        /\ f.picker = ed.picker /\ f.base = ed.base
    BY <1>4 DEF EditorFields
  <2>2. RowsFit(f)
    BY <1>2, <2>1 DEF Workable, RowsFit
  <2> QED
    BY <1>2, <1>4, <2>1, <2>2 DEF Workable
<1>5. /\ Null \notin {ed["agent"], ed["proxy"]} /\ AreLines(ed["headers"])
      /\ Null \notin Agents \cup Proxies
  BY <1>2, SettingsAssumption DEF Workable
<1>6. ASSUME NEW t \in Agents, Changed([ed EXCEPT !.agent = t]) PROVE IInv'
  <2>1. PICK f : f = [ed EXCEPT !.agent = t]
    OBVIOUS
  <2>2. /\ DOMAIN f = EditorFields /\ IsMap(f) /\ f["agent"] = t
        /\ \A x \in EditorFields \ {"agent"} : f[x] = ed[x]
    BY <1>3, <2>1 DEF IsMap, EditorFields
  <2>3. f["proxy"] = ed["proxy"] /\ f["headers"] = ed["headers"]
    BY <2>2 DEF EditorFields
  <2>4. Workable(f)
    BY <1>4, <1>5, <2>2, <2>3
  <2> QED
    BY <1>1, <1>6, <2>1, <2>4, ChangedStep
<1>7. ASSUME NEW t \in Proxies, Changed([ed EXCEPT !.proxy = t]) PROVE IInv'
  <2>1. PICK f : f = [ed EXCEPT !.proxy = t]
    OBVIOUS
  <2>2. /\ DOMAIN f = EditorFields /\ IsMap(f) /\ f["proxy"] = t
        /\ \A x \in EditorFields \ {"proxy"} : f[x] = ed[x]
    BY <1>3, <2>1 DEF IsMap, EditorFields
  <2>3. f["agent"] = ed["agent"] /\ f["headers"] = ed["headers"]
    BY <2>2 DEF EditorFields
  <2>4. Workable(f)
    BY <1>4, <1>5, <2>2, <2>3
  <2> QED
    BY <1>1, <1>7, <2>1, <2>4, ChangedStep
<1>8. ASSUME NEW t \in HeaderTexts, Changed([ed EXCEPT !.headers = t]) PROVE IInv'
  <2>1. PICK f : f = [ed EXCEPT !.headers = t]
    OBVIOUS
  <2>2. /\ DOMAIN f = EditorFields /\ IsMap(f) /\ f["headers"] = t
        /\ \A x \in EditorFields \ {"headers"} : f[x] = ed[x]
    BY <1>3, <2>1 DEF IsMap, EditorFields
  <2>3. f["agent"] = ed["agent"] /\ f["proxy"] = ed["proxy"]
    BY <2>2 DEF EditorFields
  <2>4. Workable(f)
    BY <1>4, <1>5, <2>2, <2>3, LinesAssumption
  <2> QED
    BY <1>1, <1>8, <2>1, <2>4, ChangedStep
<1> QED
  BY <1>6, <1>7, <1>8 DEF EditText

-----------------------------------------------------------------------------
(* The themes of the user.                                                 *)

LEMMA ThemeAppended ==
    ASSUME NEW c, AreThemes(c), NEW x, IsCustomTheme(x), NEW r, r = Append(c, x)
    PROVE  AreThemes(r) /\ IsValidID(x.id, r)
<1>1. PICK S : c \in Seq(S) /\ x \in S /\ \A y \in S : IsCustomTheme(y)
  <2> DEFINE S == {c[i] : i \in DOMAIN c} \cup {x}
  <2>1. c \in Seq(S)
    BY SeqMonotonic DEF AreThemes, IsList
  <2>2. \A y \in S : IsCustomTheme(y)
    BY DEF AreThemes
  <2> QED
    BY <2>1, <2>2
<1>2. r \in Seq(S) /\ Len(r) = Len(c) + 1 /\ r[Len(c) + 1] = x /\ Len(c) \in Nat
  BY <1>1, AppendProperties
<1>3. IsList(r) /\ \A i \in DOMAIN r : r[i] \in S
  BY <1>2, SeqIsList
<1>4. Len(c) + 1 \in DOMAIN r
  BY <1>2
<1> QED
  BY <1>1, <1>2, <1>3, <1>4 DEF AreThemes, IsValidID

LEMMA ThemeRemoved ==
    ASSUME NEW c, AreThemes(c), NEW i \in DOMAIN c,
           NEW r, r = SubSeq(c, 1, i - 1) \o SubSeq(c, i + 1, Len(c))
    PROVE  AreThemes(r) /\ \A id : IsValidID(id, c) /\ id # c[i].id => IsValidID(id, r)
<1>1. PICK S : c \in Seq(S) /\ \A y \in S : IsCustomTheme(y)
  BY DEF AreThemes, IsList
<1>2. Len(c) \in Nat /\ DOMAIN c = 1..Len(c)
  BY <1>1
<1>3. r = RemoveAt(c, i)
  BY DEF RemoveAt
<1>4. /\ r \in Seq(S) /\ Len(r) = Len(c) - 1
      /\ \A k \in 1..(Len(c) - 1) : r[k] = IF k < i THEN c[k] ELSE c[k + 1]
  BY <1>1, <1>2, <1>3, RemoveAtProperties
<1>5. IsList(r) /\ \A k \in DOMAIN r : r[k] \in S
  BY <1>4, SeqIsList
<1>6. DOMAIN r = 1..(Len(c) - 1)
  BY <1>4, <1>2
<1>7. ASSUME NEW j \in DOMAIN c, j # i PROVE \E k \in DOMAIN r : r[k] = c[j]
  <2>0. i \in 1..Len(c) /\ j \in 1..Len(c) /\ (j < i \/ j > i)
    BY <1>2, <1>7
  <2>1. CASE j < i
    <3>1. j \in 1..(Len(c) - 1)
      BY <1>2, <2>0, <2>1
    <3>2. r[j] = c[j]
      BY <1>4, <2>1, <3>1
    <3> QED
      BY <1>6, <3>1, <3>2
  <2>2. CASE j > i
    <3>1. j - 1 \in DOMAIN r /\ ~(j - 1 < i) /\ (j - 1) + 1 = j
      BY <1>2, <1>6, <2>2
    <3> QED
      BY <1>4, <1>6, <3>1
  <2> QED
    BY <2>0, <2>1, <2>2
<1>8. \A id : IsValidID(id, c) /\ id # c[i].id => IsValidID(id, r)
  <2>1. SUFFICES ASSUME NEW id, IsValidID(id, c), id # c[i].id, id \notin Registry
                 PROVE  \E k \in DOMAIN r : r[k].id = id
    BY DEF IsValidID
  <2>2. PICK j \in DOMAIN c : c[j].id = id
    BY <2>1 DEF IsValidID
  <2>3. PICK k \in DOMAIN r : r[k] = c[j]
    BY <1>7, <2>1, <2>2
  <2> QED
    BY <2>2, <2>3
<1> QED
  BY <1>1, <1>5, <1>8 DEF AreThemes

\* The draft with other themes, another one in use, or both.
LEMMA ThemeStep ==
    ASSUME NullsApart, IInv, MayEdit, NEW t, NEW c, t # Null, AreThemes(c), IsValidID(t, c),
           NEW f, DOMAIN f = EditorFields, IsMap(f),
           f["draft"] = [[ed.draft EXCEPT !.custom_themes = c] EXCEPT !.theme = t],
           f["picker"] \in {ed.picker, NoPicker},
           \A x \in EditorFields \ {"draft", "picker", "dialog"} : f[x] = ed[x],
           Changed(f)
    PROVE  IInv'
<1>1. WellTyped(ed.draft)
  BY EditorThere DEF MayEdit, Page
<1>2. PICK d1 : d1 = [ed.draft EXCEPT !.custom_themes = c]
  OBVIOUS
<1>3. PICK d : d = [d1 EXCEPT !.theme = t]
  OBVIOUS
<1>4. {"theme", "custom_themes", "syntax_overrides", "theme_overrides"} \subseteq SettingsKeys
  BY KindsOfKeys, SomeKeys
<1>5. "custom_themes" \notin Switches \cup Numbers \cup Texts
  BY KindsOfKeys, SomeKeys
<1>6. WellTyped(d1) /\ d1["custom_themes"] = c /\ \A j \in SettingsKeys \ {"custom_themes"} : d1[j] = ed.draft[j]
  BY <1>1, <1>2, <1>4, <1>5, TypedWith
<1>7. "theme" \notin Switches \cup Numbers
  BY KindsOfKeys, SomeKeys
<1>8. WellTyped(d) /\ d["theme"] = t /\ \A j \in SettingsKeys \ {"theme"} : d[j] = d1[j]
  BY <1>3, <1>4, <1>6, <1>7, TypedWith
<1>9. /\ d.custom_themes = c /\ d.theme = t
      /\ d.syntax_overrides = ed.draft.syntax_overrides
      /\ d.theme_overrides = ed.draft.theme_overrides
  BY <1>4, <1>6, <1>8
<1>10. f["draft"] = d
  BY <1>2, <1>3
<1> QED
  BY <1>8, <1>9, <1>10, DraftStep

LEMMA PickThemeKeeps ==
    ASSUME NullsApart, IInv, Page, NEW t \in ThemeTiles, PickTheme(t)
    PROVE  IInv'
<1>1. MayEdit /\ ed # Null /\ Changed([ed EXCEPT !.draft.theme = t, !.picker = NoPicker])
  BY DEF PickTheme, Page
<1>2. Workable(ed) /\ WellTyped(ed.draft)
  BY <1>1, EditorThere
<1>3. PICK c : c = ed.draft.custom_themes
  OBVIOUS
<1>4. AreThemes(c)
  BY <1>2, <1>3 DEF WellTyped
<1>5. t # Null /\ IsValidID(t, c)
  <2>1. t \in Registry \/ \E i \in DOMAIN c : t = c[i].id
    BY <1>3 DEF ThemeTiles
  <2>2. Null \notin Registry
    BY SettingsAssumption
  <2> QED
    BY <1>4, <2>1, <2>2 DEF IsValidID, AreThemes, IsCustomTheme, CustomThemeKeys
<1>6. PICK f : f = [ed EXCEPT !.draft.theme = t, !.picker = NoPicker]
  OBVIOUS
<1>7. /\ DOMAIN f = EditorFields /\ IsMap(f)
      /\ f["draft"] = [ed.draft EXCEPT !.theme = t] /\ f["picker"] = NoPicker
      /\ \A x \in EditorFields \ {"draft", "picker"} : f[x] = ed[x]
  <2>1. DOMAIN ed = EditorFields
    BY <1>2 DEF Workable
  <2> QED
    BY <1>6, <2>1 DEF IsMap, EditorFields
<1>8. [ed.draft EXCEPT !.custom_themes = c] = ed.draft
  BY <1>2, <1>3 DEF WellTyped, IsMap
<1>9. f["draft"] = [[ed.draft EXCEPT !.custom_themes = c] EXCEPT !.theme = t]
  BY <1>7, <1>8
<1>10. Changed(f)
  BY <1>1, <1>6
<1> QED
  BY <1>1, <1>4, <1>5, <1>7, <1>9, <1>10, ThemeStep

LEMMA DeleteThemeKeeps ==
    ASSUME NullsApart, IInv, Page, NEW i \in DOMAIN ed.draft.custom_themes, DeleteCustomTheme(i)
    PROVE  IInv'
<1>1. MayEdit /\ ed # Null
  BY DEF DeleteCustomTheme, Page
<1>2. Workable(ed) /\ WellTyped(ed.draft)
  BY <1>1, EditorThere
<1>3. PICK c : c = ed.draft.custom_themes
  OBVIOUS
<1>4. PICK r : r = SubSeq(c, 1, i - 1) \o SubSeq(c, i + 1, Len(c))
  OBVIOUS
<1>5. PICK t : t = IF ed.draft.theme = c[i].id THEN "dark" ELSE ed.draft.theme
  OBVIOUS
<1>6. AreThemes(c) /\ IsValidID(ed.draft.theme, c) /\ i \in DOMAIN c
  BY <1>2, <1>3 DEF WellTyped, Workable
<1>7. AreThemes(r) /\ \A id : IsValidID(id, c) /\ id # c[i].id => IsValidID(id, r)
  BY <1>4, <1>6, ThemeRemoved
<1>8. t # Null /\ IsValidID(t, r)
  <2>1. "dark" \in Registry /\ "dark" # Null
    BY SettingsAssumption
  <2>2. ed.draft.theme # Null
    BY <1>2, SomeKeys DEF WellTyped
  <2> QED
    BY <1>5, <1>6, <1>7, <2>1, <2>2 DEF IsValidID
<1>9. PICK f : f = [ed EXCEPT !.draft.custom_themes = r,
                              !.draft.theme = IF @ = c[i].id THEN "dark" ELSE @]
  OBVIOUS
<1>10. Changed(f)
  BY <1>3, <1>4, <1>9 DEF DeleteCustomTheme
<1>11. /\ DOMAIN f = EditorFields /\ IsMap(f)
       /\ f["draft"] = [[ed.draft EXCEPT !.custom_themes = r] EXCEPT !.theme = t]
       /\ \A x \in EditorFields \ {"draft"} : f[x] = ed[x]
  <2>1. DOMAIN ed = EditorFields /\ DOMAIN ed.draft = SettingsKeys /\ "theme" \in SettingsKeys
    BY <1>2, KindsOfKeys, SomeKeys DEF Workable, WellTyped
  <2>2. PICK d1 : d1 = [ed.draft EXCEPT !.custom_themes = r]
    OBVIOUS
  <2>3. d1.theme = ed.draft.theme
    BY <2>1, <2>2
  <2>4. [d1 EXCEPT !.theme = IF @ = c[i].id THEN "dark" ELSE @] = [d1 EXCEPT !.theme = t]
    BY <1>5, <2>3
  <2>5. PICK g : g = [ed EXCEPT !.draft.custom_themes = r]
    OBVIOUS
  <2>6. DOMAIN g = EditorFields /\ g["draft"] = d1 /\ \A x \in EditorFields \ {"draft"} : g[x] = ed[x]
    BY <2>1, <2>2, <2>5 DEF EditorFields
  <2>7. f = [g EXCEPT !.draft.theme = IF @ = c[i].id THEN "dark" ELSE @]
    BY <1>9, <2>5
  <2>8. /\ DOMAIN f = EditorFields /\ IsMap(f) /\ f["draft"] = [d1 EXCEPT !.theme = t]
        /\ \A x \in EditorFields \ {"draft"} : f[x] = g[x]
    BY <2>4, <2>6, <2>7 DEF IsMap, EditorFields
  <2> QED
    BY <2>2, <2>6, <2>8
<1>12. f["picker"] = ed.picker
  BY <1>11 DEF EditorFields
<1> QED
  BY <1>1, <1>7, <1>8, <1>10, <1>11, <1>12, ThemeStep

-----------------------------------------------------------------------------
(* The dialog of a new theme and the color picker.                         *)

\* An editor with the draft, the rows and the texts of before.
Beside(f) ==
    /\ DOMAIN f = EditorFields /\ IsMap(f)
    /\ \A x \in EditorFields \ {"picker", "dialog", "base"} : f[x] = ed[x]
    /\ PickerFits(f["picker"]) /\ f["base"] # Null

LEMMA BesideWorkable ==
    ASSUME IInv, ed # Null, NEW f, Beside(f)
    PROVE  Workable(f) /\ f.draft = ed.draft /\ f.switch = ed.switch /\ f.headers = ed.headers
<1>1. Workable(ed)
  BY EditorThere
<1>2. /\ f.draft = ed.draft /\ f.switch = ed.switch /\ f.agent = ed.agent /\ f.proxy = ed.proxy
      /\ f.headers = ed.headers /\ f.rows = ed.rows /\ f.of = ed.of
  BY DEF Beside, EditorFields
<1>3. RowsFit(f)
  BY <1>1, <1>2 DEF Workable, RowsFit
<1>4. PickerFits(f.picker) /\ f.base # Null
  BY DEF Beside
<1> QED
  BY <1>1, <1>2, <1>3, <1>4 DEF Workable, Beside

LEMMA BesideStep ==
    ASSUME NullsApart, IInv, ed # Null, NEW f, Beside(f), Shown(f) \/ (MayEdit /\ Changed(f))
    PROVE  IInv'
<1>1. Workable(f) /\ f.draft = ed.draft /\ f.switch = ed.switch /\ f.headers = ed.headers
  BY BesideWorkable
<1> QED
  BY <1>1, ShownStep, ChangedStep

LEMMA DialogKeeps ==
    ASSUME NullsApart, IInv, NewThemeDialog \/ CancelTheme \/ \E t \in BaseTiles : PickBase(t)
    PROVE  IInv'
<1>1. ed # Null
  BY DEF NewThemeDialog, CancelTheme, PickBase, Page
<1>2. Workable(ed)
  BY <1>1, EditorThere
<1>3. /\ DOMAIN ed = EditorFields /\ PickerFits(ed["picker"]) /\ ed["base"] # Null
  BY <1>2 DEF Workable
<1>4. ASSUME NewThemeDialog PROVE IInv'
  <2>1. PICK f : f = [ed EXCEPT !.dialog = ~@, !.base = IF ed.dialog THEN @ ELSE ed.draft.theme]
    OBVIOUS
  <2>2. Shown(f)
    BY <1>4, <2>1 DEF NewThemeDialog
  <2>3. ed.draft.theme # Null
    BY <1>2, SomeKeys DEF Workable, WellTyped
  <2>4. Beside(f)
    BY <1>3, <2>1, <2>3 DEF Beside, EditorFields, IsMap
  <2> QED
    BY <1>1, <2>2, <2>4, BesideStep
<1>5. ASSUME CancelTheme PROVE IInv'
  <2>1. PICK f : f = [ed EXCEPT !.dialog = FALSE]
    OBVIOUS
  <2>2. Shown(f)
    BY <1>5, <2>1 DEF CancelTheme
  <2>3. Beside(f)
    BY <1>3, <2>1 DEF Beside, EditorFields, IsMap
  <2> QED
    BY <1>1, <2>2, <2>3, BesideStep
<1>6. ASSUME NEW t \in BaseTiles, PickBase(t) PROVE IInv'
  <2>1. PICK f : f = [ed EXCEPT !.base = t]
    OBVIOUS
  <2>2. Shown(f)
    BY <1>6, <2>1 DEF PickBase
  <2>3. t # Null
    BY SettingsAssumption DEF BaseTiles
  <2>4. Beside(f)
    BY <1>3, <2>1, <2>3 DEF Beside, EditorFields, IsMap
  <2> QED
    BY <1>1, <2>2, <2>4, BesideStep
<1> QED
  BY <1>4, <1>5, <1>6

\* The colors a new theme starts with are colors.
LEMMA PaletteIsOverride ==
    ASSUME NEW id, NEW customs, NEW K, NEW own
    PROVE  IsOverride(PaletteFor(id, customs, K, own), K)
<1>1. \A c \in Registry \cup Hexes : c \notin {Null, ""}
  BY SettingsAssumption
<1>2. "dark" \in Registry
  BY SettingsAssumption
<1>3. ASSUME NEW t
      PROVE  /\ IsOverride(Plain(t, K), K)
             /\ \A ov : IsOverride(ApplyOverride(Plain(t, K), ov), K)
  <2>1. PICK p : p = Plain(t, K)
    OBVIOUS
  <2>2. DOMAIN p = K /\ IsMap(p) /\ \A k \in K : p[k] \in Registry
    BY <1>2, <2>1 DEF Plain, IsMap
  <2>3. IsOverride(p, K)
    BY <1>1, <2>2 DEF IsOverride
  <2>4. ASSUME NEW ov PROVE IsOverride(ApplyOverride(p, ov), K)
    <3>1. PICK q : q = ApplyOverride(p, ov)
      OBVIOUS
    <3>2. DOMAIN q = K /\ IsMap(q) /\ \A k \in K : q[k] \in Registry \cup Hexes
      BY <2>2, <3>1 DEF ApplyOverride, IsMap, IsColor
    <3>3. IsOverride(q, K)
      BY <1>1, <3>2 DEF IsOverride
    <3> QED
      BY <3>1, <3>3
  <2> QED
    BY <2>1, <2>3, <2>4
<1>4. \/ PaletteFor(id, customs, K, own) = Plain(id, K)
      \/ \E t, ov : PaletteFor(id, customs, K, own) = ApplyOverride(Plain(t, K), ov)
  <2> DEFINE I == {i \in DOMAIN customs : customs[i].id = id}
  <2>1. CASE id \in Registry \/ I = {}
    BY <2>1 DEF PaletteFor
  <2>2. CASE ~(id \in Registry \/ I = {})
    <3>1. PaletteFor(id, customs, K, own) =
              ApplyOverride(Plain(customs[Min(I)].based_on, K), customs[Min(I)][own])
      BY <2>2 DEF PaletteFor
    <3> QED
      BY <3>1
  <2> QED
    BY <2>1, <2>2
<1> QED
  BY <1>3, <1>4

LEMMA CreateKeeps ==
    ASSUME NullsApart, IInv, NEW name \in Names, CreateTheme(name)
    PROVE  IInv'
<1>1. MayEdit /\ ed # Null
  BY DEF CreateTheme, MayEdit, Page
<1>2. Workable(ed) /\ WellTyped(ed.draft)
  BY <1>1, EditorThere
<1>3. PICK base : base = IF ed.base = "" THEN "dark" ELSE ed.base
  OBVIOUS
<1>4. PICK c : c = ed.draft.custom_themes
  OBVIOUS
<1>5. PICK palette : palette = PaletteFor(base, c, ThemeColorKeys, "palette")
  OBVIOUS
<1>6. PICK syntax : syntax = PaletteFor(base, c, SyntaxColorKeys, "syntax")
  OBVIOUS
<1>7. PICK id : id = NewIDs[edits]
  OBVIOUS
<1>8. PICK new : new = [id |-> id, name |-> name, based_on |-> base, palette |-> palette, syntax |-> syntax]
  OBVIOUS
<1>9. IsCustomTheme(new) /\ new.id = id /\ id # Null
  <2>1. edits \in 0..MaxEdits
    BY DEF IInv
  <2>2. id \notin {Null, ""} /\ name # Null
    BY <1>7, <2>1, SettingsAssumption
  <2>3. base # Null
    BY <1>2, <1>3, SettingsAssumption DEF Workable
  <2>4. IsOverride(palette, ThemeColorKeys) /\ IsOverride(syntax, SyntaxColorKeys)
    BY <1>5, <1>6, PaletteIsOverride
  <2>5. IsMap(new)
    BY <1>8, Zenon DEF IsMap
  <2>6. /\ DOMAIN new = CustomThemeKeys \cup {"palette", "syntax"}
        /\ new["id"] = id /\ new["name"] = name /\ new["based_on"] = base
        /\ new["palette"] = palette /\ new["syntax"] = syntax
    BY <1>8 DEF CustomThemeKeys
  <2> QED
    BY <2>2, <2>3, <2>4, <2>5, <2>6 DEF IsCustomTheme, CustomThemeKeys
<1>10. PICK r : r = Append(c, new)
  OBVIOUS
<1>11. AreThemes(r) /\ IsValidID(id, r)
  <2>1. AreThemes(c)
    BY <1>2, <1>4 DEF WellTyped
  <2> QED
    BY <1>9, <1>10, <2>1, ThemeAppended
<1>12. PICK f : f = [ed EXCEPT !.draft.custom_themes = Append(@, new), !.draft.theme = id,
                               !.dialog = FALSE, !.picker = NoPicker]
  OBVIOUS
<1>13. Changed(f)
  <2>1. new.id = id
    BY <1>9
  <2> QED
    BY <1>3, <1>4, <1>5, <1>6, <1>7, <1>8, <1>12, <2>1 DEF CreateTheme
<1>14. /\ DOMAIN f = EditorFields /\ IsMap(f)
       /\ f["draft"] = [[ed.draft EXCEPT !.custom_themes = r] EXCEPT !.theme = id]
       /\ f["picker"] = NoPicker
       /\ \A x \in EditorFields \ {"draft", "picker", "dialog"} : f[x] = ed[x]
  <2>1. DOMAIN ed = EditorFields /\ DOMAIN ed.draft = SettingsKeys /\ "custom_themes" \in SettingsKeys
    BY <1>2, KindsOfKeys, SomeKeys DEF Workable, WellTyped
  <2>2. PICK g : g = [ed EXCEPT !.draft.custom_themes = Append(@, new)]
    OBVIOUS
  <2>3. /\ DOMAIN g = EditorFields /\ g["draft"] = [ed.draft EXCEPT !.custom_themes = r]
        /\ \A x \in EditorFields \ {"draft"} : g[x] = ed[x]
    BY <1>4, <1>10, <2>1, <2>2 DEF EditorFields
  <2>4. f = [g EXCEPT !.draft.theme = id, !.dialog = FALSE, !.picker = NoPicker]
    BY <1>12, <2>2
  <2>5. /\ DOMAIN f = EditorFields /\ IsMap(f) /\ f["draft"] = [g["draft"] EXCEPT !.theme = id]
        /\ f["picker"] = NoPicker
        /\ \A x \in EditorFields \ {"draft", "picker", "dialog"} : f[x] = g[x]
    BY <2>3, <2>4 DEF IsMap, EditorFields
  <2> QED
    BY <2>3, <2>5
<1> QED
  BY <1>1, <1>9, <1>11, <1>13, <1>14, ThemeStep

-----------------------------------------------------------------------------
(* The colors.                                                             *)

ColorKeys(kind) == IF kind = "syntax" THEN SyntaxColorKeys ELSE ThemeColorKeys

LEMMA OverridesTyped ==
    ASSUME NEW d, WellTyped(d), NEW kind \in Kinds
    PROVE  AreOverrides(Overrides(d, kind), ColorKeys(kind))
BY DEF WellTyped, Overrides, ColorKeys, Kinds

LEMMA NoOverride ==
    ASSUME NEW K
    PROVE  IsOverride(<<>>, K)
BY EmptyMap DEF IsOverride

\* The overrides with those of one theme replaced, or without them when none is left.
Replaced(all, theme, put) ==
    IF put = <<>> THEN [t \in DOMAIN all \ {theme} |-> all[t]] ELSE Put(all, theme, put)

LEMMA OverridesPut ==
    ASSUME NEW all, NEW K, AreOverrides(all, K), NEW theme, NEW put, IsOverride(put, K),
           NEW new, new = Replaced(all, theme, put)
    PROVE  AreOverrides(new, K) /\ OverrideOf(new, theme) = put
<1>1. CASE put = <<>>
  <2>1. IsMap(new) /\ DOMAIN new = DOMAIN all \ {theme} /\ \A t \in DOMAIN new : new[t] = all[t]
    BY <1>1 DEF IsMap, Replaced
  <2> QED
    BY <1>1, <2>1 DEF AreOverrides, OverrideOf
<1>2. CASE put # <<>>
  <2>1. /\ IsMap(new) /\ DOMAIN new = DOMAIN all \cup {theme}
        /\ new[theme] = put /\ \A t \in DOMAIN all \ {theme} : new[t] = all[t]
    BY <1>2 DEF Replaced, Put, ++, IsMap
  <2> QED
    BY <2>1 DEF AreOverrides, OverrideOf
<1> QED
  BY <1>1, <1>2

\* The settings with the overrides of a kind replaced.
WithOverrides(d, kind, new) ==
    IF kind = "syntax" THEN [d EXCEPT !.syntax_overrides = new] ELSE [d EXCEPT !.theme_overrides = new]

LEMMA OverridesReplaced ==
    ASSUME NEW d, WellTyped(d), NEW kind \in Kinds, NEW new, AreOverrides(new, ColorKeys(kind)),
           NEW p, p = WithOverrides(d, kind, new)
    PROVE  /\ WellTyped(p) /\ p.theme = d.theme /\ p.custom_themes = d.custom_themes
           /\ Overrides(p, kind) = new
           /\ \A other \in Kinds \ {kind} : Overrides(p, other) = Overrides(d, other)
<1>1. /\ {"syntax_overrides", "theme_overrides", "custom_themes", "theme"} \subseteq SettingsKeys
      /\ {"syntax_overrides", "theme_overrides"} \cap (Switches \cup Numbers \cup Texts) = {}
  BY KindsOfKeys, SomeKeys
<1>2. CASE kind = "syntax"
  <2>0. "syntax_overrides" \in SettingsKeys /\ "syntax_overrides" \notin Switches \cup Numbers \cup Texts
    BY <1>1
  <2>1. p = [d EXCEPT !.syntax_overrides = new]
    BY <1>2 DEF WithOverrides
  <2>3. AreOverrides(new, SyntaxColorKeys)
    BY <1>2 DEF ColorKeys
  <2>2. /\ WellTyped(p) /\ p["syntax_overrides"] = new
        /\ \A j \in SettingsKeys \ {"syntax_overrides"} : p[j] = d[j]
    BY <2>0, <2>1, <2>3, TypedWith
  <2> QED
    BY <1>1, <1>2, <2>2 DEF Overrides, Kinds
<1>3. CASE kind = "theme"
  <2>0. "theme_overrides" \in SettingsKeys /\ "theme_overrides" \notin Switches \cup Numbers \cup Texts
    BY <1>1
  <2>1. p = [d EXCEPT !.theme_overrides = new]
    BY <1>3 DEF WithOverrides
  <2>3. AreOverrides(new, ThemeColorKeys)
    BY <1>3 DEF ColorKeys
  <2>2. /\ WellTyped(p) /\ p["theme_overrides"] = new
        /\ \A j \in SettingsKeys \ {"theme_overrides"} : p[j] = d[j]
    BY <2>0, <2>1, <2>3, TypedWith
  <2> QED
    BY <1>1, <1>3, <2>2 DEF Overrides, Kinds
<1> QED
  BY <1>2, <1>3 DEF Kinds

\* What is put into the draft is what is put into the row.
LEMMA ColorPut ==
    ASSUME NEW d, WellTyped(d), NEW kind \in Kinds, NEW i \in ColorKeys(kind), NEW text, text # Null,
           NEW p, p = PutOverride(d, kind, i, text)
    PROVE  /\ WellTyped(p) /\ p.theme = d.theme /\ p.custom_themes = d.custom_themes
           /\ OverrideOf(Overrides(p, kind), d.theme) =
                  PutRow(OverrideOf(Overrides(d, kind), d.theme), i, text)
           /\ \A other \in Kinds \ {kind} : Overrides(p, other) = Overrides(d, other)
<1>1. PICK all : all = Overrides(d, kind)
  OBVIOUS
<1>2. PICK old : old = OverrideOf(all, d.theme)
  OBVIOUS
<1>3. PICK put : put = PutRow(old, i, text)
  OBVIOUS
<1>4. PICK new : new = Replaced(all, d.theme, put)
  OBVIOUS
<1>5. p = WithOverrides(d, kind, new)
  BY <1>1, <1>2, <1>3, <1>4 DEF PutOverride, PutRow, WithOverrides, Replaced
<1>6. AreOverrides(all, ColorKeys(kind))
  BY <1>1, OverridesTyped
<1>7. IsOverride(old, ColorKeys(kind))
  BY <1>2, <1>6, NoOverride DEF OverrideOf, AreOverrides
<1>8. IsOverride(put, ColorKeys(kind))
  <2>1. CASE text = ""
    <3>1. IsMap(put) /\ DOMAIN put = DOMAIN old \ {i} /\ \A k \in DOMAIN put : put[k] = old[k]
      BY <1>3, <2>1 DEF PutRow, IsMap
    <3> QED
      BY <1>7, <3>1 DEF IsOverride
  <2>2. CASE text # ""
    <3>1. put = Put(old, i, text)
      BY <1>3, <2>2 DEF PutRow
    <3>2. /\ IsMap(put) /\ DOMAIN put = DOMAIN old \cup {i}
          /\ put[i] = text /\ \A k \in DOMAIN old \ {i} : put[k] = old[k]
      BY <3>1 DEF Put, ++, IsMap
    <3> QED
      BY <1>7, <2>2, <3>2 DEF IsOverride
  <2> QED
    BY <2>1, <2>2
<1>9. AreOverrides(new, ColorKeys(kind)) /\ OverrideOf(new, d.theme) = put
  BY <1>4, <1>6, <1>8, OverridesPut
<1>10. /\ WellTyped(p) /\ p.theme = d.theme /\ p.custom_themes = d.custom_themes
       /\ Overrides(p, kind) = new
       /\ \A other \in Kinds \ {kind} : Overrides(p, other) = Overrides(d, other)
  BY <1>5, <1>9, OverridesReplaced
<1> QED
  BY <1>1, <1>2, <1>3, <1>9, <1>10

\* An editor with another draft and other rows of one kind.
LEMMA Recolored ==
    ASSUME NEW e, Workable(e), \A kind \in Kinds : e.of[kind] = e.draft.theme,
           NEW kind \in Kinds, NEW p, WellTyped(p), p.theme = e.draft.theme,
           p.custom_themes = e.draft.custom_themes,
           \A other \in Kinds \ {kind} : Overrides(p, other) = Overrides(e.draft, other),
           NEW row, row = OverrideOf(Overrides(p, kind), p.theme),
           NEW f, DOMAIN f = EditorFields, IsMap(f), f["draft"] = p,
           f["rows"] = [e.rows EXCEPT ![kind] = row],
           PickerFits(f["picker"]),
           \A x \in EditorFields \ {"draft", "rows", "picker"} : f[x] = e[x]
    PROVE  Workable(f)
<1>1. /\ f.draft = p /\ f.switch = e.switch /\ f.agent = e.agent /\ f.proxy = e.proxy
      /\ f.headers = e.headers /\ f.of = e.of /\ f.base = e.base /\ PickerFits(f.picker)
  BY DEF EditorFields
<1>2. DOMAIN f.rows = Kinds /\ f.rows[kind] = row /\ \A other \in Kinds \ {kind} : f.rows[other] = e.rows[other]
  BY DEF Workable
<1>3. \A other \in Kinds : e.rows[other] = OverrideOf(Overrides(e.draft, other), e.draft.theme)
  BY DEF Workable, RowsFit
<1>4. RowsFit(f)
  BY <1>1, <1>2, <1>3 DEF RowsFit
<1>5. IsValidID(p.theme, p.custom_themes)
  BY DEF Workable
<1> QED
  BY <1>1, <1>2, <1>4, <1>5 DEF Workable

\* The rows and the draft after a color was typed, reset or dragged.
LEMMA ColorWorkable ==
    ASSUME NEW e, Workable(e), \A k \in Kinds : e.of[k] = e.draft.theme,
           NEW kind \in Kinds, NEW i \in ColorKeys(kind), NEW text, text # Null,
           NEW f, f = WithColor(e, kind, i, text)
    PROVE  /\ Workable(f)
           /\ DOMAIN f = EditorFields /\ f["draft"].theme = e.draft.theme
           /\ \A x \in EditorFields \ {"draft", "rows"} : f[x] = e[x]
<1>1. PICK p : p = PutOverride(e.draft, kind, i, text)
  OBVIOUS
<1>2. PICK row : row = PutRow(e.rows[kind], i, text)
  OBVIOUS
<1>3. DOMAIN e = EditorFields /\ DOMAIN e.rows = Kinds /\ WellTyped(e.draft) /\ PickerFits(e["picker"])
  BY DEF Workable
<1>4. /\ DOMAIN f = EditorFields /\ IsMap(f) /\ f["draft"] = p
      /\ f["rows"] = [e.rows EXCEPT ![kind] = row]
      /\ \A x \in EditorFields \ {"draft", "rows"} : f[x] = e[x]
  BY <1>1, <1>2, <1>3 DEF WithColor, IsMap, EditorFields
<1>5. e.rows[kind] = OverrideOf(Overrides(e.draft, kind), e.draft.theme)
  BY DEF Workable, RowsFit
<1>6. /\ WellTyped(p) /\ p.theme = e.draft.theme /\ p.custom_themes = e.draft.custom_themes
      /\ OverrideOf(Overrides(p, kind), e.draft.theme) =
             PutRow(OverrideOf(Overrides(e.draft, kind), e.draft.theme), i, text)
      /\ \A other \in Kinds \ {kind} : Overrides(p, other) = Overrides(e.draft, other)
  BY <1>1, <1>3, ColorPut
<1>7. row = OverrideOf(Overrides(p, kind), p.theme)
  BY <1>2, <1>5, <1>6
<1>8. f["picker"] = e["picker"]
  BY <1>4 DEF EditorFields
<1>9. Workable(f)
  BY <1>3, <1>4, <1>6, <1>7, <1>8, Recolored
<1> QED
  BY <1>4, <1>6, <1>9

\* The rows of the page belong to the colors that can be touched.
LEMMA TouchedColors ==
    /\ Tokens \subseteq ColorKeys("syntax") /\ Colors \subseteq ColorKeys("theme")
    /\ \A c \in Hexes \cup {Garbled, ""} : c # Null
BY SettingsAssumption, NullAssumption DEF ColorKeys

LEMMA ColorKeeps ==
    ASSUME NullsApart, IInv, NEW kind \in Kinds, NEW I, I \subseteq ColorKeys(kind),
           I = IF kind = "syntax" THEN Tokens ELSE Colors, EditColor(kind, I)
    PROVE  IInv'
<1>1. /\ MayEdit /\ ed # Null
  BY DEF EditColor, ResetColor, Swatch, TypeColor, ResetAllColors, MayEdit, Page
<1>2. Workable(ed) /\ WellTyped(ed.draft) /\ \A k \in Kinds : ed.of[k] = ed.draft.theme
  BY <1>1, EditorThere
<1>3. DOMAIN ed = EditorFields /\ DOMAIN ed.rows = Kinds /\ PickerFits(ed["picker"]) /\ ed["base"] # Null
  BY <1>2 DEF Workable
<1>4. PickerFits(NoPicker)
  BY DEF PickerFits, NoPicker
<1>5. ASSUME NEW i \in I, NEW c \in Hexes \cup {Garbled, ""}, TypeColor(kind, i, c) PROVE IInv'
  <2>1. PICK f : f = WithColor(ed, kind, i, c)
    OBVIOUS
  <2>2. Changed(f)
    BY <1>5, <2>1 DEF TypeColor
  <2>3. c # Null
    BY TouchedColors
  <2>4. Workable(f)
    BY <1>2, <2>1, <2>3, ColorWorkable
  <2> QED
    BY <1>1, <2>2, <2>4, ChangedStep
<1>6. ASSUME NEW i \in I, ResetColor(kind, i) PROVE IInv'
  <2>1. PICK g : g = WithColor(ed, kind, i, "")
    OBVIOUS
  <2>2. PICK f : f = [g EXCEPT !.picker = IF IsOn(@, kind, i) THEN NoPicker ELSE @]
    OBVIOUS
  <2>3. Changed(f)
    BY <1>6, <2>1, <2>2 DEF ResetColor
  <2>4. "" # Null
    BY TouchedColors
  <2>5. Workable(g)
    BY <1>2, <2>1, <2>4, ColorWorkable
  <2>6. DOMAIN g = EditorFields /\ PickerFits(g["picker"])
    BY <2>5 DEF Workable
  <2>7. /\ DOMAIN f = EditorFields /\ IsMap(f) /\ PickerFits(f["picker"])
        /\ \A x \in EditorFields \ {"picker"} : f[x] = g[x]
    BY <1>4, <2>2, <2>6 DEF IsMap, EditorFields
  <2>8. /\ f.draft = g.draft /\ f.switch = g.switch /\ f.agent = g.agent /\ f.proxy = g.proxy
        /\ f.headers = g.headers /\ f.rows = g.rows /\ f.of = g.of /\ f.base = g.base
    BY <2>7 DEF EditorFields
  <2>9. RowsFit(f)
    BY <2>5, <2>8 DEF Workable, RowsFit
  <2>10. Workable(f)
    BY <2>5, <2>7, <2>8, <2>9 DEF Workable
  <2> QED
    BY <1>1, <2>3, <2>10, ChangedStep
<1>7. ASSUME NEW i \in I, Swatch(kind, i) PROVE IInv'
  <2>1. PICK color : color = IF kind = "syntax" THEN SyntaxRowColor(ed.draft, i) ELSE ThemeRowColor(ed.draft, i)
    OBVIOUS
  <2>2. PICK picker : picker = IF IsOn(ed.picker, kind, i) THEN NoPicker
                               ELSE [kind |-> kind, idx |-> i, color |-> color]
    OBVIOUS
  <2>3. PICK f : f = [ed EXCEPT !.picker = picker]
    OBVIOUS
  <2>4. Changed(f)
    <3>1. f = [ed EXCEPT !.picker = IF IsOn(@, kind, i) THEN NoPicker
                                    ELSE [kind |-> kind, idx |-> i, color |-> color]]
      BY <1>3, <2>2, <2>3 DEF EditorFields
    <3> QED
      BY <1>7, <2>1, <3>1 DEF Swatch
  <2>5. PickerFits(picker)
    BY <1>4, <2>2 DEF PickerFits, Kinds
  <2>6. Beside(f)
    BY <1>3, <2>3, <2>5 DEF Beside, EditorFields, IsMap
  <2> QED
    BY <1>1, <2>4, <2>6, BesideStep
<1>8. ASSUME ResetAllColors(kind) PROVE IInv'
  <2>1. PICK all : all = Overrides(ed.draft, kind)
    OBVIOUS
  <2>2. PICK new : new = Replaced(all, ed.draft.theme, <<>>)
    OBVIOUS
  <2>3. new = [t \in DOMAIN all \ {ed.draft.theme} |-> all[t]]
    BY <2>2 DEF Replaced
  <2>4. AreOverrides(new, ColorKeys(kind)) /\ OverrideOf(new, ed.draft.theme) = <<>>
    BY <1>2, <2>1, <2>2, OverridesTyped, NoOverride, OverridesPut
  <2>5. PICK p : p = WithOverrides(ed.draft, kind, new)
    OBVIOUS
  <2>6. /\ WellTyped(p) /\ p.theme = ed.draft.theme /\ p.custom_themes = ed.draft.custom_themes
        /\ Overrides(p, kind) = new
        /\ \A other \in Kinds \ {kind} : Overrides(p, other) = Overrides(ed.draft, other)
    BY <1>2, <2>4, <2>5, OverridesReplaced
  <2>7. PICK g : g = [ed EXCEPT !.rows[kind] = <<>>]
    OBVIOUS
  <2>8. /\ DOMAIN g = EditorFields /\ g["rows"] = [ed.rows EXCEPT ![kind] = <<>>]
        /\ \A x \in EditorFields \ {"rows"} : g[x] = ed[x]
    BY <1>3, <2>7 DEF EditorFields
  <2>9. PICK f : f = IF kind = "syntax" THEN [g EXCEPT !.draft.syntax_overrides = new]
                     ELSE [g EXCEPT !.draft.theme_overrides = new]
    OBVIOUS
  <2>10. Changed(f)
    BY <1>8, <2>1, <2>3, <2>7, <2>9 DEF ResetAllColors
  <2>11. f = [g EXCEPT !.draft = p]
    <3>1. g.draft = ed.draft
      BY <2>8 DEF EditorFields
    <3> QED
      BY <2>5, <2>8, <2>9, <3>1 DEF WithOverrides, EditorFields
  <2>12. /\ DOMAIN f = EditorFields /\ IsMap(f) /\ f["draft"] = p
         /\ f["rows"] = [ed.rows EXCEPT ![kind] = <<>>]
         /\ \A x \in EditorFields \ {"draft", "rows"} : f[x] = ed[x]
    BY <2>8, <2>11 DEF IsMap, EditorFields
  <2>13. <<>> = OverrideOf(Overrides(p, kind), p.theme)
    BY <2>4, <2>6
  <2>14. f["picker"] = ed["picker"]
    BY <2>12 DEF EditorFields
  <2>15. Workable(f)
    BY <1>2, <1>3, <2>6, <2>12, <2>13, <2>14, Recolored
  <2> QED
    BY <1>1, <2>10, <2>15, ChangedStep
<1> QED
  BY <1>5, <1>6, <1>7, <1>8 DEF EditColor

LEMMA DragKeeps ==
    ASSUME NullsApart, IInv, NEW c \in Hexes, DragPicker(c)
    PROVE  IInv'
<1>1. /\ MayEdit /\ ed # Null
  BY DEF DragPicker, MayEdit, Page
<1>2. Workable(ed) /\ \A k \in Kinds : ed.of[k] = ed.draft.theme
  BY <1>1, EditorThere
<1>3. PICK kind, i : kind = ed.picker.kind /\ i = ed.picker.idx
  OBVIOUS
<1>4. PICK g : g = [ed EXCEPT !.picker = Dragged(@, c)]
  OBVIOUS
<1>5. \/ RowText(ed, kind, i) = c /\ Shown(g)
      \/ Changed(WithColor(g, kind, i, c))
  BY <1>3, <1>4 DEF DragPicker
<1>6. kind \in Kinds /\ i \in ColorKeys(kind)
  <2>1. ed.picker # NoPicker /\ PickerFits(ed.picker)
    BY <1>2 DEF DragPicker, Workable
  <2> QED
    BY <1>3, <2>1, TouchedColors DEF PickerFits, Kinds
<1>7. PickerFits(Dragged(ed.picker, c))
  <2>1. PICK q : q = Dragged(ed.picker, c)
    OBVIOUS
  <2>2. PickerFits(ed.picker) /\ ed.picker # NoPicker
    BY <1>2 DEF DragPicker, Workable
  <2>3. DOMAIN q = {"kind", "idx", "color"} /\ q["kind"] = ed.picker["kind"] /\ q["idx"] = ed.picker["idx"]
    BY <2>1, <2>2 DEF Dragged, PickerFits
  <2>4. PickerFits(q)
    BY <2>2, <2>3 DEF PickerFits
  <2> QED
    BY <2>1, <2>4
<1>8. Beside(g)
  <2>1. DOMAIN ed = EditorFields /\ ed["base"] # Null
    BY <1>2 DEF Workable
  <2> QED
    BY <1>4, <1>7, <2>1 DEF Beside, EditorFields, IsMap
<1>9. Workable(g) /\ g.draft = ed.draft /\ g.of = ed.of
  <2>1. g.of = ed.of
    BY <1>8 DEF Beside, EditorFields
  <2> QED
    BY <1>1, <1>8, <2>1, BesideWorkable
<1>10. ASSUME Changed(WithColor(g, kind, i, c)) PROVE IInv'
  <2>1. PICK f : f = WithColor(g, kind, i, c)
    OBVIOUS
  <2>2. c # Null
    BY TouchedColors
  <2>3. \A k \in Kinds : g.of[k] = g.draft.theme
    BY <1>2, <1>9
  <2>4. Workable(f)
    BY <1>6, <1>9, <2>1, <2>2, <2>3, ColorWorkable
  <2> QED
    BY <1>1, <1>10, <2>1, <2>4, ChangedStep
<1> QED
  BY <1>1, <1>5, <1>8, <1>10, BesideStep

LEMMA CloseKeeps ==
    ASSUME NullsApart, IInv, ClosePicker
    PROVE  IInv'
<1>1. PICK f : f = [ed EXCEPT !.picker = NoPicker]
  OBVIOUS
<1>2. ed # Null /\ (Shown(f) \/ (MayEdit /\ Changed(f)))
  BY <1>1 DEF ClosePicker
<1>3. Beside(f)
  <2>1. DOMAIN ed = EditorFields /\ ed["base"] # Null
    BY <1>2, EditorThere DEF Workable
  <2>2. PickerFits(NoPicker)
    BY DEF PickerFits, NoPicker
  <2> QED
    BY <1>1, <2>1, <2>2 DEF Beside, EditorFields, IsMap
<1> QED
  BY <1>2, <1>3, BesideStep

LEMMA ResetKeeps ==
    ASSUME NullsApart, IInv, Reset
    PROVE  IInv'
<1>1. MayEdit /\ ed # Null
  BY DEF Reset, MayEdit, Page
<1>2. PICK e : e = NewEditor(DefaultSettings)
  OBVIOUS
<1>3. PICK f : f = [e EXCEPT !.base = ed.base]
  OBVIOUS
<1>4. Changed(f)
  BY <1>2, <1>3 DEF Reset
<1>5. Workable(e)
  BY <1>2, DefaultsSound, NewEditorFields
<1>6. ed.base # Null
  BY <1>1, EditorThere DEF Workable
<1>7. /\ DOMAIN f = EditorFields /\ IsMap(f) /\ f["base"] = ed.base
      /\ \A x \in EditorFields \ {"base"} : f[x] = e[x]
  <2>1. DOMAIN e = EditorFields
    BY <1>5 DEF Workable
  <2> QED
    BY <1>3, <2>1 DEF IsMap, EditorFields
<1>8. /\ f.draft = e.draft /\ f.switch = e.switch /\ f.agent = e.agent /\ f.proxy = e.proxy
      /\ f.headers = e.headers /\ f.rows = e.rows /\ f.of = e.of /\ f.picker = e.picker
  BY <1>7 DEF EditorFields
<1>9. RowsFit(f)
  BY <1>5, <1>8 DEF Workable, RowsFit
<1>10. Workable(f)
  BY <1>5, <1>6, <1>7, <1>8, <1>9 DEF Workable
<1> QED
  BY <1>1, <1>4, <1>10, ChangedStep

-----------------------------------------------------------------------------
(* The window around the page.                                             *)

\* Opening the page, with a new editor or the one that was kept, and closing it.
LEMMA ToggleKeeps ==
    ASSUME NullsApart, IInv, ToggleSettings
    PROVE  IInv'
<1>1. /\ settings' = settings /\ runtime' = runtime /\ saveNeeded' = saveNeeded /\ edits' = edits
      /\ hideSaved' = hideSaved /\ section' = section /\ file' = file /\ open' = ~open
      /\ ed' = IF open THEN ed ELSE SyncEditors(IF ed = Null THEN NewEditor(settings) ELSE ed)
  BY DEF ToggleSettings
<1>2. SurvivesRestart'
  BY <1>1 DEF IInv, SurvivesRestart, Undone, Loaded, WidthOf
<1>3. RuntimeMatches'
  BY <1>1, MatchesBare DEF IInv
<1>4. /\ open' => ed' # Null
      /\ ed' # Null => Workable(ed') /\ Current(ed', settings')
  <2>1. CASE open
    BY <1>1, <2>1 DEF IInv
  <2>2. CASE ~open /\ ed # Null
    <3>1. ed' = SyncEditors(ed)
      BY <1>1, <2>2
    <3>2. Workable(ed) /\ Current(ed, settings)
      BY <2>2, EditorThere
    <3>3. Workable(ed') /\ Current(ed', settings')
      BY <1>1, <3>1, <3>2, ShownKeeps
    <3> QED
      BY <3>3, WorkableIsSomething
  <2>3. CASE ~open /\ ed = Null
    <3>1. PICK e : e = NewEditor(settings)
      OBVIOUS
    <3>2. PICK y : y = SyncEditors(e)
      OBVIOUS
    <3>3. ed' = y
      BY <1>1, <2>3, <3>1, <3>2
    <3>4. Sound(settings)
      BY DEF IInv
    <3>5. /\ Workable(e) /\ e.draft = settings /\ e.switch = [k \in Switches |-> settings[k]]
          /\ textToHeaders(e.headers) = Named(settings.default_headers)
      BY <3>1, <3>4, NewEditorFields
    <3>6. /\ DOMAIN y = EditorFields /\ IsMap(y)
          /\ \A k \in EditorFields \ {"rows", "of"} : y[k] = e[k]
          /\ DOMAIN y["rows"] = Kinds /\ DOMAIN y["of"] = Kinds
          /\ \A kind \in Kinds :
                /\ y["rows"][kind] = OverrideOf(Overrides(e.draft, kind), e.draft.theme)
                /\ y["of"][kind] = e.draft.theme
      BY <3>2, <3>5, Synced
    <3>7. /\ y.draft = e.draft /\ y.switch = e.switch /\ y.agent = e.agent /\ y.proxy = e.proxy
          /\ y.headers = e.headers /\ y.picker = e.picker /\ y.base = e.base
      BY <3>6 DEF EditorFields
    <3>8. RowsFit(y)
      BY <3>6, <3>7 DEF RowsFit
    <3>9. Workable(y)
      BY <3>5, <3>6, <3>7, <3>8 DEF Workable
    <3>10. Current(y, settings)
      BY <3>4, <3>5, <3>6, <3>7 DEF Current
    <3>11. y # Null
      BY <3>9, WorkableIsSomething
    <3> QED
      BY <1>1, <3>3, <3>9, <3>10, <3>11
  <2> QED
    BY <2>1, <2>2, <2>3
<1>5. open' \in BOOLEAN
  BY <1>1 DEF IInv
<1> QED
  BY <1>1, <1>2, <1>3, <1>4, <1>5 DEF IInv

LEMMA BackKeeps ==
    ASSUME IInv, Back
    PROVE  IInv'
<1>1. /\ settings' = settings /\ runtime' = runtime /\ saveNeeded' = saveNeeded /\ edits' = edits
      /\ hideSaved' = hideSaved /\ section' = section /\ file' = file /\ open' = FALSE /\ ed' = Null
  BY DEF Back
<1>2. SurvivesRestart'
  BY <1>1 DEF IInv, SurvivesRestart, Undone, Loaded, WidthOf
<1>3. RuntimeMatches'
  BY <1>1, MatchesBare DEF IInv
<1> QED
  BY <1>1, <1>2, <1>3 DEF IInv

\* An editor that was kept does not notice the sidebar.
LEMMA CurrentBeside ==
    ASSUME NEW e, NEW s, Current(e, s), NEW t, \A k \in SettingsKeys \ {"hide_sidebar"} : t[k] = s[k]
    PROVE  Current(e, t)
<1>1. {"theme", "default_headers"} \subseteq SettingsKeys \ {"hide_sidebar"}
      /\ Switches \subseteq SettingsKeys
  BY KindsOfKeys, SomeKeys
<1>2. t.theme = s.theme /\ t.default_headers = s.default_headers
  BY <1>1
<1>3. \A k \in Switches \ {"hide_sidebar"} : t[k] = s[k]
  BY <1>1
<1> QED
  BY <1>2, <1>3 DEF Current

\* The sidebar was hidden or shown.
LEMMA SidebarStep ==
    ASSUME IInv, NEW b \in BOOLEAN, settings' = [settings EXCEPT !.hide_sidebar = b] \/ settings' = settings,
           hideSaved' # Null => hideSaved' \in BOOLEAN, section' \in Sections, saveNeeded' = TRUE,
           edits < MaxEdits, edits' = edits + 1, UNCHANGED <<runtime, open, ed, file>>
    PROVE  IInv'
<1>1. Sound(settings') /\ \A k \in SettingsKeys \ {"hide_sidebar"} : settings'[k] = settings[k]
  <2>1. Sound(settings)
    BY DEF IInv
  <2> QED
    BY <2>1, SidebarSound
<1>2. runtime' = runtime /\ open' = open /\ ed' = ed /\ file' = file
  OBVIOUS
<1>3. RuntimeMatches'
  <2>1. Bare(settings') = Bare(settings)
    BY <1>1, SidebarApart
  <2>2. settings'.cookie_jar_enabled = settings.cookie_jar_enabled
    <3>1. "cookie_jar_enabled" \in SettingsKeys \ {"hide_sidebar"}
      BY KindsOfKeys, SomeKeys
    <3> QED
      BY <1>1, <3>1
  <2>3. RuntimeMatches
    BY DEF IInv
  <2> QED
    BY <1>2, <2>1, <2>2, <2>3, MatchesBare
<1>4. edits' \in 0..MaxEdits
  <2>1. edits \in 0..MaxEdits /\ MaxEdits \in Nat
    BY SettingsAssumption DEF IInv
  <2> QED
    BY <2>1
<1>5. ed' # Null => Workable(ed') /\ Current(ed', settings')
  <2>1. ed # Null => Workable(ed) /\ Current(ed, settings)
    BY DEF IInv
  <2> QED
    BY <1>1, <1>2, <2>1, CurrentBeside
<1>6. SurvivesRestart'
  BY DEF SurvivesRestart
<1> QED
  BY <1>1, <1>2, <1>3, <1>4, <1>5, <1>6 DEF IInv

LEMMA SidebarKeeps ==
    ASSUME IInv, ToggleSidebar \/ \E id \in Sections : SetSidebarSection(id)
    PROVE  IInv'
<1>1. settings.hide_sidebar \in BOOLEAN
  BY SomeKeys DEF IInv, Sound, WellTyped
<1>2. ASSUME ToggleSidebar PROVE IInv'
  <2>1. PICK b \in BOOLEAN : b = ~settings.hide_sidebar
    BY <1>1
  <2>2. settings' = [settings EXCEPT !.hide_sidebar = b]
    <3>1. DOMAIN settings = SettingsKeys /\ "hide_sidebar" \in SettingsKeys
      BY KindsOfKeys, SomeKeys DEF IInv, Sound, WellTyped
    <3> QED
      BY <1>2, <2>1, <3>1 DEF ToggleSidebar
  <2>3. /\ hideSaved' = hideSaved /\ section' = section /\ saveNeeded' = TRUE
        /\ edits < MaxEdits /\ edits' = edits + 1 /\ UNCHANGED <<runtime, open, ed, file>>
    BY <1>2 DEF ToggleSidebar
  <2>4. (hideSaved' # Null => hideSaved' \in BOOLEAN) /\ section' \in Sections
    BY <2>3 DEF IInv
  <2> QED
    BY <2>2, <2>3, <2>4, SidebarStep
<1>3. ASSUME NEW id \in Sections, SetSidebarSection(id) PROVE IInv'
  <2>1. /\ section' = id /\ saveNeeded' = TRUE
        /\ edits < MaxEdits /\ edits' = edits + 1 /\ UNCHANGED <<runtime, open, ed, file>>
    BY <1>3 DEF SetSidebarSection
  <2>2. \/ hideSaved' = settings.hide_sidebar /\ settings' = [settings EXCEPT !.hide_sidebar = TRUE]
        \/ /\ hideSaved # Null /\ hideSaved' = Null
           /\ settings' = [settings EXCEPT !.hide_sidebar = hideSaved]
        \/ hideSaved' = hideSaved /\ settings' = settings
    BY <1>3 DEF SetSidebarSection
  <2>3. hideSaved # Null => hideSaved \in BOOLEAN
    BY DEF IInv
  <2>4. hideSaved' # Null => hideSaved' \in BOOLEAN
    BY <1>1, <2>2, <2>3
  <2>5. \E b \in BOOLEAN : settings' = [settings EXCEPT !.hide_sidebar = b] \/ settings' = settings
    BY <2>2, <2>3
  <2> QED
    BY <2>1, <2>4, <2>5, SidebarStep
<1> QED
  BY <1>2, <1>3

LEMMA UndoneSound ==
    ASSUME IInv
    PROVE  Sound(Undone)
<1>1. Sound(settings) /\ (hideSaved # Null => hideSaved \in BOOLEAN)
  BY DEF IInv
<1> QED
  BY <1>1, SidebarSound DEF Undone

LEMMA SaveKeeps ==
    ASSUME NullsApart, IInv, Save
    PROVE  IInv'
<1>1. /\ settings' = settings /\ runtime' = runtime /\ edits' = edits
      /\ hideSaved' = hideSaved /\ section' = section /\ open' = open /\ ed' = ed
      /\ saveNeeded' = FALSE /\ file' = Snapshot
  BY DEF Save
<1>2. PICK s, f : s = Undone /\ f = Snapshot
  OBVIOUS
<1>3. f = Saved(s, section)
  BY <1>2 DEF Snapshot, Saved
<1>4. Sound(s)
  BY <1>2, UndoneSound
<1>5. /\ WellTyped(LoadWithRaw(f, DefaultSettings).settings)
      /\ [Loaded(f) EXCEPT !.default_sidebar_width_px = 0] = [s EXCEPT !.default_sidebar_width_px = 0]
      /\ WidthOf(Loaded(f)) = WidthOf(s)
  BY <1>3, <1>4, LoadedBack
<1>6. Undone' = s /\ file' = f
  BY <1>1, <1>2 DEF Undone
<1>7. Loaded(file)' = Loaded(f)
  BY <1>6 DEF Loaded
<1>8. SurvivesRestart'
  BY <1>5, <1>6, <1>7 DEF SurvivesRestart, WidthOf
<1>9. RuntimeMatches'
  BY <1>1, MatchesBare DEF IInv
<1>10. WellTyped(LoadWithRaw(file, DefaultSettings).settings)'
  BY <1>5, <1>6
<1> QED
  BY <1>1, <1>8, <1>9, <1>10 DEF IInv

-----------------------------------------------------------------------------
(* The start of the program.                                               *)

\* A broken file gives the defaults, and so does none once it is set aside.
LEMMA AsideReads ==
    ASSUME NEW f
    PROVE  LoadWithRaw(SetAside(f), DefaultSettings) = LoadWithRaw(f, DefaultSettings)
BY DEF SetAside, LoadWithRaw

LEMMA StartedSound ==
    ASSUME edits \in Nat, NEW f, WellTyped(LoadWithRaw(f, DefaultSettings).settings),
           NEW s, s = Loaded(f), NEW start, start = Started(f)
    PROVE  /\ Sound(s) /\ Sound(start.settings)
           /\ start.hideSaved # Null => start.hideSaved \in BOOLEAN
           /\ start.section \in Sections
           /\ s = IF start.hideSaved = Null THEN start.settings
                  ELSE [start.settings EXCEPT !.hide_sidebar = start.hideSaved]
           /\ [start.runtime EXCEPT !.client.jar = 0] = Bare(start.settings)
           /\ start.runtime.client.jar # 0 <=> start.settings.cookie_jar_enabled
<1>1. Sound(s)
  BY SanitizeSound DEF Loaded
<1>2. PICK sec : sec = SectionOf(LoadWithRaw(f, DefaultSettings).sidebar_section)
  OBVIOUS
<1>3. sec \in Sections
  BY <1>2 DEF SectionOf, Sections
<1>4. start = StartedIn(s, sec)
  BY <1>2 DEF Started, StartedWith, Loaded
<1>5. PICK r : r = Apply(s, 0)
  OBVIOUS
<1>6. /\ start.settings = IF sec = "har" THEN [s EXCEPT !.hide_sidebar = TRUE] ELSE s
      /\ start.hideSaved = IF sec = "har" THEN s.hide_sidebar ELSE Null
      /\ start.runtime = r /\ start.section = sec
  BY <1>4, <1>5 DEF StartedIn
<1>7. /\ {"hide_sidebar", "cookie_jar_enabled"} \subseteq SettingsKeys
      /\ s.hide_sidebar \in BOOLEAN /\ s.cookie_jar_enabled \in BOOLEAN
      /\ DOMAIN s = SettingsKeys /\ IsMap(s)
  BY <1>1, KindsOfKeys, SomeKeys DEF Sound, WellTyped
<1>8. Null \notin BOOLEAN
  BY NullAssumption
<1>9. PICK t : t = start.settings
  OBVIOUS
<1>10. Sound(t) /\ \A k \in SettingsKeys \ {"hide_sidebar"} : t[k] = s[k]
  <2>1. CASE sec = "har"
    <3>1. PICK b \in BOOLEAN : t = [s EXCEPT !.hide_sidebar = b]
      BY <1>6, <1>9, <2>1
    <3> QED
      BY <1>1, <3>1, SidebarSound
  <2>2. CASE sec # "har"
    BY <1>1, <1>6, <1>9, <2>2
  <2> QED
    BY <2>1, <2>2
<1>11. s = IF start.hideSaved = Null THEN t ELSE [t EXCEPT !.hide_sidebar = start.hideSaved]
  <2>1. CASE sec = "har"
    <3>1. start.hideSaved = s.hide_sidebar /\ start.hideSaved # Null
      BY <1>6, <1>7, <1>8, <2>1
    <3>2. DOMAIN t = SettingsKeys
      BY <1>10 DEF Sound, WellTyped
    <3>3. [t EXCEPT !.hide_sidebar = s.hide_sidebar] = s
      BY <1>7, <1>10, <3>2 DEF IsMap
    <3> QED
      BY <3>1, <3>3
  <2>2. CASE sec # "har"
    BY <1>6, <1>9, <2>2
  <2> QED
    BY <2>1, <2>2
<1>12. [r EXCEPT !.client.jar = 0] = Bare(t)
  BY <1>5, <1>10, JarApart, SidebarApart
<1>13. r.client.jar # 0 <=> t.cookie_jar_enabled
  BY <1>5, <1>7, <1>10, JarIs
<1>14. start.hideSaved # Null => start.hideSaved \in BOOLEAN
  BY <1>6, <1>7
<1> QED
  BY <1>1, <1>3, <1>6, <1>9, <1>10, <1>11, <1>12, <1>13, <1>14

LEMMA Initially ==
    ASSUME Init
    PROVE  IInv
<1>1. edits = 0 /\ MaxEdits \in Nat
  BY SettingsAssumption DEF Init
<1>2. PICK f \in Files : \E start \in {Started(f)} :
        /\ settings = start.settings
        /\ runtime = start.runtime
        /\ hideSaved = start.hideSaved
        /\ section = start.section
        /\ saveNeeded = HasOldKey(f)
        /\ open = FALSE
        /\ ed = Null
        /\ file = SetAside(f)
  BY DEF Init
<1>3. PICK start : /\ start = Started(f)
                   /\ settings = start.settings /\ runtime = start.runtime
                   /\ hideSaved = start.hideSaved /\ section = start.section
                   /\ saveNeeded = HasOldKey(f) /\ open = FALSE /\ ed = Null
                   /\ file = SetAside(f)
  BY <1>2
<1>4. WellTyped(LoadWithRaw(f, DefaultSettings).settings)
  BY FilesAssumption
<1>5. PICK s : s = Loaded(f)
  OBVIOUS
<1>6. /\ Sound(s) /\ Sound(start.settings)
      /\ start.hideSaved # Null => start.hideSaved \in BOOLEAN
      /\ start.section \in Sections
      /\ s = IF start.hideSaved = Null THEN start.settings
             ELSE [start.settings EXCEPT !.hide_sidebar = start.hideSaved]
      /\ [start.runtime EXCEPT !.client.jar = 0] = Bare(start.settings)
      /\ start.runtime.client.jar # 0 <=> start.settings.cookie_jar_enabled
  BY <1>1, <1>3, <1>4, <1>5, StartedSound
<1>7. LoadWithRaw(file, DefaultSettings) = LoadWithRaw(f, DefaultSettings)
  BY <1>3, AsideReads
<1>8. Loaded(file) = s /\ Undone = s
  BY <1>3, <1>5, <1>6, <1>7 DEF Loaded, Undone
<1>9. SurvivesRestart
  BY <1>8 DEF SurvivesRestart
<1>10. RuntimeMatches
  BY <1>3, <1>6, MatchesBare
<1>11. saveNeeded \in BOOLEAN
  BY <1>3 DEF HasOldKey
<1>12. /\ Sound(settings) /\ (hideSaved # Null => hideSaved \in BOOLEAN)
       /\ section \in Sections /\ open \in BOOLEAN /\ (open => ed # Null)
       /\ ed # Null => Workable(ed) /\ Current(ed, settings)
  BY <1>3, <1>6
<1>13. edits \in 0..MaxEdits
  BY <1>1
<1>14. WellTyped(LoadWithRaw(file, DefaultSettings).settings)
  BY <1>4, <1>7
<1> QED
  BY <1>9, <1>10, <1>11, <1>12, <1>13, <1>14 DEF IInv

LEMMA RestartKeeps ==
    ASSUME IInv, Restart
    PROVE  IInv'
<1>1. edits \in 0..MaxEdits /\ MaxEdits \in Nat
  BY SettingsAssumption DEF IInv
<1>2. PICK f : f = file
  OBVIOUS
<1>3. PICK start : /\ start = Started(f)
                   /\ settings' = start.settings /\ runtime' = start.runtime
                   /\ hideSaved' = start.hideSaved /\ section' = start.section
                   /\ saveNeeded' = HasOldKey(f) /\ open' = FALSE /\ ed' = Null
                   /\ file' = SetAside(f) /\ edits' = edits
  BY <1>2 DEF Restart
<1>4. WellTyped(LoadWithRaw(f, DefaultSettings).settings)
  BY <1>2 DEF IInv
<1>5. PICK s : s = Loaded(f)
  OBVIOUS
<1>6. /\ Sound(s) /\ Sound(start.settings)
      /\ start.hideSaved # Null => start.hideSaved \in BOOLEAN
      /\ start.section \in Sections
      /\ s = IF start.hideSaved = Null THEN start.settings
             ELSE [start.settings EXCEPT !.hide_sidebar = start.hideSaved]
      /\ [start.runtime EXCEPT !.client.jar = 0] = Bare(start.settings)
      /\ start.runtime.client.jar # 0 <=> start.settings.cookie_jar_enabled
  <2>1. edits \in Nat
    BY <1>1
  <2> QED
    BY <1>3, <1>4, <1>5, <2>1, StartedSound
<1>7. LoadWithRaw(file', DefaultSettings) = LoadWithRaw(f, DefaultSettings)
  BY <1>3, AsideReads
<1>8. Loaded(file)' = s /\ Undone' = s
  <2>1. Loaded(file') = s
    BY <1>5, <1>7 DEF Loaded
  <2>2. Loaded(file)' = Loaded(file')
    BY DEF Loaded
  <2>3. Undone' = s
    BY <1>3, <1>6 DEF Undone
  <2> QED
    BY <2>1, <2>2, <2>3
<1>9. SurvivesRestart'
  BY <1>8 DEF SurvivesRestart, WidthOf
<1>10. RuntimeMatches'
  BY <1>3, <1>6, MatchesBare
<1>11. saveNeeded' \in BOOLEAN
  BY <1>3 DEF HasOldKey
<1>12. WellTyped(LoadWithRaw(file, DefaultSettings).settings)'
  BY <1>4, <1>7
<1> QED
  BY <1>1, <1>3, <1>6, <1>9, <1>10, <1>11, <1>12 DEF IInv

-----------------------------------------------------------------------------
(* Every step, and what follows.                                           *)

LEMMA EventKeeps ==
    ASSUME NullsApart, IInv, Next
    PROVE  IInv'
<1>1. CASE ToggleSettings \/ Back
  BY <1>1, ToggleKeeps, BackKeeps
<1>2. CASE \E k \in Switches \cap Controls \cap Touched : Switch(k)
  BY <1>2, SwitchKeeps
<1>3. CASE EditNumber
  <2>1. PICK k \in Numbers : \/ Step(k, Down(k, ed.draft[k]))
                             \/ Step(k, Up(k, ed.draft[k]))
                             \/ \E v \in Typed : Commit(k, v)
    BY <1>3 DEF EditNumber
  <2> QED
    BY <2>1, NumberKeeps
<1>4. CASE (\E m \in Methods \cap Picks : PickMethod(m)) \/ (\E c \in Encodings \cap Picks : PickEncoding(c))
  BY <1>4, PickKeeps
<1>5. CASE EditText
  BY <1>5, TextKeeps
<1>6. CASE EditTheme
  <2>1. CASE Page /\ \E t \in ThemeTiles : PickTheme(t)
    BY <2>1, PickThemeKeeps
  <2>2. CASE Page /\ \E i \in DOMAIN ed.draft.custom_themes : DeleteCustomTheme(i)
    BY <2>2, DeleteThemeKeeps
  <2>3. CASE NewThemeDialog \/ CancelTheme \/ \E t \in BaseTiles : PickBase(t)
    BY <2>3, DialogKeeps
  <2>4. CASE \E name \in Names : CreateTheme(name)
    BY <2>4, CreateKeeps
  <2> QED
    BY <1>6, <2>1, <2>2, <2>3, <2>4 DEF EditTheme
<1>7. CASE EditColor("syntax", Tokens)
  <2>1. "syntax" \in Kinds /\ Tokens \subseteq ColorKeys("syntax")
        /\ Tokens = IF "syntax" = "syntax" THEN Tokens ELSE Colors
    BY TouchedColors DEF Kinds
  <2> QED
    BY <1>7, <2>1, ColorKeeps
<1>8. CASE EditColor("theme", Colors)
  <2>1. "theme" \in Kinds /\ Colors \subseteq ColorKeys("theme")
        /\ Colors = IF "theme" = "syntax" THEN Tokens ELSE Colors
    BY TouchedColors DEF Kinds
  <2> QED
    BY <1>8, <2>1, ColorKeeps
<1>9. CASE \E c \in Hexes : DragPicker(c)
  BY <1>9, DragKeeps
<1>10. CASE ClosePicker \/ Reset
  BY <1>10, CloseKeeps, ResetKeeps
<1>11. CASE ToggleSidebar \/ \E id \in Sections : SetSidebarSection(id)
  BY <1>11, SidebarKeeps
<1>12. CASE Save
  BY <1>12, SaveKeeps
<1>13. CASE Restart
  BY <1>13, RestartKeeps
<1> QED
  BY <1>1, <1>2, <1>3, <1>4, <1>5, <1>6, <1>7, <1>8, <1>9, <1>10, <1>11, <1>12, <1>13 DEF Next

LEMMA StutterKeeps ==
    ASSUME IInv, UNCHANGED vars
    PROVE  IInv'
<1>1. /\ settings' = settings /\ runtime' = runtime /\ saveNeeded' = saveNeeded /\ edits' = edits
      /\ hideSaved' = hideSaved /\ section' = section /\ file' = file /\ open' = open /\ ed' = ed
  BY DEF vars
<1>2. SurvivesRestart'
  BY <1>1 DEF IInv, SurvivesRestart, Undone, Loaded, WidthOf
<1>3. RuntimeMatches'
  BY <1>1, MatchesBare DEF IInv
<1> QED
  BY <1>1, <1>2, <1>3 DEF IInv

\* The invariant of the settings: they, the draft of the page and what a restart would
\* read from the file are in order, whatever the user does, whenever the program saves
\* or crashes (settings.Sanitize, SettingsEditor.Update, loadState).
THEOREM Invariance ==
    ASSUME NullsApart
    PROVE  Spec => []IInv
<1>1. Init => IInv
  BY Initially
<1>2. IInv /\ [Next]_vars => IInv'
  BY EventKeeps, StutterKeeps
<1> QED
  BY <1>1, <1>2, PTL DEF Spec

\* Settings, draft and the window around them have their types, and the settings are
\* within their limits: nothing the page, a file or the sidebar does gets past Sanitize.
THEOREM TypeCorrect ==
    ASSUME NullsApart
    PROVE  Spec => []TypeOK
<1>1. IInv => TypeOK
  BY DEF IInv, TypeOK, Current, Sound
<1> QED
  BY <1>1, Invariance, PTL

\* What is saved is what a restart gives back, the draft of the open page is what is set,
\* its rows show the colors of the theme in use, and the variables, the colors and the
\* client of the program are those of the settings.
THEOREM AllInStep ==
    ASSUME NullsApart
    PROVE  Spec => []InStep
<1>1. IInv => DraftIsCurrent
  <2> SUFFICES ASSUME IInv, open
               PROVE  DraftIsCurrent
    BY DEF DraftIsCurrent
  <2>1. Workable(ed) /\ Current(ed, settings)
    BY DEF IInv
  <2>2. {"theme", "syntax_overrides", "theme_overrides"} \subseteq SettingsKeys \ {"hide_sidebar"}
    BY KindsOfKeys, SomeKeys
  <2>3. /\ ed.draft.theme = settings.theme
        /\ \A kind \in Kinds : Overrides(ed.draft, kind) = Overrides(settings, kind)
    BY <2>1, <2>2 DEF Current, Overrides
  <2>4. \A kind \in Kinds : ed.rows[kind] = OverrideOf(Overrides(settings, kind), settings.theme)
    BY <2>1, <2>3 DEF Workable, RowsFit, Current
  <2> QED
    BY <2>1, <2>4 DEF DraftIsCurrent, Current, Kinds
<1>2. IInv => InStep
  BY <1>1 DEF IInv, InStep
<1> QED
  BY <1>2, Invariance, PTL

-----------------------------------------------------------------------------
(* The cookies.                                                            *)

JarStays == runtime.client.jar # 0 /\ settings'.cookie_jar_enabled
                => runtime'.client.jar = runtime.client.jar

LEMMA ChangedKeepsJar ==
    ASSUME NEW e, Changed(e)
    PROVE  JarStays
<1>1. PICK d : settings' = d /\ runtime' = Apply(d, runtime.client.jar)
  BY DEF Changed
<1>2. Apply(d, runtime.client.jar).client.jar =
          IF ~d.cookie_jar_enabled THEN 0
          ELSE IF runtime.client.jar = 0 THEN edits + 1 ELSE runtime.client.jar
  BY DEF Apply, buildHTTPClient
<1> QED
  BY <1>1, <1>2 DEF JarStays

LEMMA ShownKeepsJar ==
    ASSUME runtime' = runtime
    PROVE  JarStays
BY DEF JarStays

\* The page changes settings only as a whole, and nothing else touches the client.
LEMMA EditKeepsJar ==
    ASSUME \/ EditNumber \/ EditText \/ EditTheme
           \/ \E kind, I : EditColor(kind, I)
    PROVE  JarStays
<1>1. CASE EditNumber
  BY <1>1, ChangedKeepsJar DEF EditNumber, Step, Commit
<1>2. CASE EditText
  BY <1>2, ChangedKeepsJar DEF EditText
<1>3. CASE EditTheme
  <2>1. ASSUME NEW t, PickTheme(t) PROVE JarStays
    BY <2>1, ChangedKeepsJar DEF PickTheme
  <2>2. ASSUME NEW i, DeleteCustomTheme(i) PROVE JarStays
    BY <2>2, ChangedKeepsJar DEF DeleteCustomTheme
  <2>3. ASSUME NewThemeDialog \/ CancelTheme \/ \E t \in BaseTiles : PickBase(t) PROVE JarStays
    BY <2>3, ShownKeepsJar DEF NewThemeDialog, CancelTheme, PickBase, Shown
  <2>4. ASSUME NEW name, CreateTheme(name) PROVE JarStays
    BY <2>4, ChangedKeepsJar DEF CreateTheme
  <2> QED
    BY <1>3, <2>1, <2>2, <2>3, <2>4 DEF EditTheme
<1>4. ASSUME NEW kind, NEW I, EditColor(kind, I) PROVE JarStays
  <2>1. ASSUME NEW i, ResetColor(kind, i) PROVE JarStays
    BY <2>1, ChangedKeepsJar DEF ResetColor
  <2>2. ASSUME NEW i, Swatch(kind, i) PROVE JarStays
    BY <2>2, ChangedKeepsJar DEF Swatch
  <2>3. ASSUME NEW i, NEW c, TypeColor(kind, i, c) PROVE JarStays
    BY <2>3, ChangedKeepsJar DEF TypeColor
  <2>4. ASSUME ResetAllColors(kind) PROVE JarStays
    BY <2>4, ChangedKeepsJar DEF ResetAllColors
  <2> QED
    BY <1>4, <2>1, <2>2, <2>3, <2>4 DEF EditColor
<1> QED
  BY <1>1, <1>2, <1>3, <1>4

\* The cookies of the HTTP client outlive every change of the settings that leaves the
\* jar switched on: settings.Apply builds a new client and gives it the old jar.
THEOREM CookiesKept == Spec => JarKept
<1>1. ASSUME Next, ~Restart PROVE JarStays
  <2>1. CASE ToggleSettings \/ Back \/ ToggleSidebar \/ Save \/ \E id \in Sections : SetSidebarSection(id)
    BY <2>1, ShownKeepsJar DEF ToggleSettings, Back, ToggleSidebar, Save, SetSidebarSection
  <2>2. CASE \E k \in Switches \cap Controls \cap Touched : Switch(k)
    BY <2>2, ChangedKeepsJar DEF Switch
  <2>3. CASE (\E m \in Methods \cap Picks : PickMethod(m)) \/ (\E c \in Encodings \cap Picks : PickEncoding(c))
    BY <2>3, ChangedKeepsJar DEF PickMethod, PickEncoding
  <2>4. CASE EditNumber \/ EditText \/ EditTheme \/ EditColor("syntax", Tokens) \/ EditColor("theme", Colors)
    BY <2>4, EditKeepsJar
  <2>5. CASE \E c \in Hexes : DragPicker(c)
    <3>1. (\E e : Changed(e)) \/ \E e : Shown(e)
      BY <2>5 DEF DragPicker
    <3> QED
      BY <3>1, ChangedKeepsJar, ShownKeepsJar DEF Shown
  <2>6. CASE ClosePicker
    <3>1. (\E e : Changed(e)) \/ \E e : Shown(e)
      BY <2>6 DEF ClosePicker
    <3> QED
      BY <3>1, ChangedKeepsJar, ShownKeepsJar DEF Shown
  <2>7. CASE Reset
    BY <2>7, ChangedKeepsJar DEF Reset
  <2> QED
    BY <1>1, <2>1, <2>2, <2>3, <2>4, <2>5, <2>6, <2>7 DEF Next
<1>2. [Next]_vars => [~Restart => JarStays]_vars
  BY <1>1
<1>3. Spec => [][~Restart => JarStays]_vars
  BY <1>2, PTL DEF Spec
<1>4. [~Restart => JarStays]_vars =>
          [runtime.client.jar # 0 /\ settings'.cookie_jar_enabled /\ ~Restart
              => runtime'.client.jar = runtime.client.jar]_vars
  BY DEF JarStays
<1> QED
  BY <1>3, <1>4, PTL DEF JarKept
=============================================================================
