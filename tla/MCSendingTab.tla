---------------------------- MODULE MCSendingTab ----------------------------
(* Model-checking instance of SendingTab: what four kinds of users do. *)
EXTENDS SendingTab

CONSTANTS l1, l2

MCLoaders == {l1, l2}

S(ms, n, ls, examples, many) ==
    [modes |-> ms, batches |-> n, loaders |-> ls, shown |-> examples, multiple |-> many]

MCSessions == {
    S({"view", "file"}, 2, {l1}, 0, FALSE),
    S({"view"}, 2, {l1, l2}, 0, FALSE),
    S({"view"}, 1, {l1, l2}, 1, FALSE),
    S({}, 1, {}, 0, TRUE)}

MCAnswers == {[code |-> 200, lat |-> 2, ok |-> TRUE]}
=============================================================================
