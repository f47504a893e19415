------------------------------ MODULE MCArticles ------------------------------
(* Two feeds and four articles: the summaries of 1 and 4 cannot be told    *)
(* apart, the pages of 2 and 3 hold nothing, and 1 may be carried by both. *)
EXTENDS Articles

MCFeeds    == {"vendor", "agency"}
MCUrls     == 1..4
MCCarries  == [f \in MCFeeds |-> IF f = "vendor" THEN {1, 2, 3} ELSE {1, 4}]
MCNear     == {{1, 4}}
MCRefused  == {2, 3}
MCSimilar  == {{1, 2}, {2, 4}}
MCTitle    == [u \in MCUrls |-> IF u = 3 THEN "flash" ELSE "weekly"]
=============================================================================
