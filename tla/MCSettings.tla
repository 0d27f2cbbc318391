------------------------------ MODULE MCSettings -------------------------------
(* Model-checking instance of Settings.  The files the program may find: one in    *)
(* the wrong form (none at all and a blank one are read alike), one it wrote       *)
(* itself, and one edited by hand, with names in capitals, nulls, numbers out of   *)
(* range and an old setting.                                                       *)
EXTENDS Settings, TLC

MCHeaderTexts == {<<>>, << <<"X-A", "1">>, <<"", "# none">> >>}

Edited ==
    [exact |-> [theme |-> "light", ui_scale |-> 50, max_tab_rows |-> 0, sticky_max_lines |-> Null,
                default_sidebar_width_px |-> 0, default_method |-> "FETCH", keep_alive |-> Null,
                default_headers |-> <<Obj([key |-> "X-B", value |-> "2"]), Null>>,
                custom_themes |-> <<Obj([id |-> "custom-mine", name |-> "mine",
                                         palette |-> Obj([bg |-> "c1"])])>>,
                theme_overrides |-> [light |-> Obj([fg |-> "c1"])],
                mono_font |-> "Mono"],
     other |-> [hide_sidebar |-> TRUE, cookie_jar_enabled |-> TRUE]]

MCNewIDs == [n \in 0..MaxEdits |-> "custom-" \o ToString(n)]

MCFiles ==
    {Broken,
     Obj([settings |-> Edited, sidebar_section |-> "har"]),
     EncodeState([NoState EXCEPT
         !.settings = [DefaultSettings EXCEPT
             !.theme = "custom-mine",
             !.custom_themes = <<[id |-> "custom-mine", name |-> "mine", based_on |-> "",
                                  palette |-> [bg |-> "c1"], syntax |-> <<>>]>>,
             !.syntax_overrides = ("custom-mine" :> [key |-> "c1"])]])}
=============================================================================
