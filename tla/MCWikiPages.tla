----------------------------- MODULE MCWikiPages -----------------------------
(* Three requests, each a view, an edit or a save of an empty, a short or  *)
(* a long body; the long body and the short one differ in every block.     *)
EXTENDS WikiPages
CONSTANTS page1, bad, a1, a2, b1, r1, r2, r3

MCRequests == {r1, r2, r3}
MCTitles == {page1, bad}
MCValidTitles == {page1}
MCBlocks == {a1, a2, b1}
Ask(handler, title, body) == [handler |-> handler, title |-> title, body |-> body]
MCInputs == {Ask("view", page1, << >>), Ask("edit", page1, << >>), Ask("save", bad, <<a1>>),
             Ask("save", page1, << >>), Ask("save", page1, <<b1>>), Ask("save", page1, <<a1, a2>>)}
=============================================================================
