---------------------------- MODULE MCEnrichment ----------------------------
(* Two groups, Akira and Akiro, so close that a misspelling matches both;  *)
(* two articles, which both call Akira the Punk Spider.  The second knows  *)
(* a wallet that Ransomwhere knows as Akiro's.                             *)
EXTENDS Enrichment

MCGroups     == {"g1", "g2"}
MCArticles   == {"a1", "a2"}
MCNames      == {"akira", "akiro", "akirr", "punk spider", "raas"}
MCGroupName  == [g \in MCGroups |-> IF g = "g1" THEN "akira" ELSE "akiro"]
MCRatio      == [n \in MCNames |-> [g \in MCGroups |->
                   CASE n = MCGroupName[g] -> 100
                     [] n = "akirr" -> 80
                     [] n \in {"akira", "akiro"} -> 80
                     [] OTHER -> 10]]
MCAliases    == [g \in MCGroups |-> {}]
MCSketch     == [a1 |-> {[name |-> "akira", related_to |-> "nobody"],
                         [name |-> "punk spider", related_to |-> "akira"]},
                 a2 |-> {[name |-> "punk spider", related_to |-> "akira"],
                         [name |-> "raas", related_to |-> "akira"],
                         [name |-> "akirr", related_to |-> "akiro"]}]
MCFields     == {"profile_urls", "btc_addresses"}
MCIndicators == [a1 |-> [profile_urls |-> <<"10.0.0.7", "blog", "10.0.0.4">>, btc_addresses |-> <<>>],
                 a2 |-> [profile_urls |-> <<"leak", "github">>, btc_addresses |-> <<"w1">>]]
MCAddress    == [v \in {"10.0.0.4", "10.0.0.7"} |-> IF v = "10.0.0.4" THEN 4 ELSE 7]
MCSpans      == {<<1, 2>>, <<4, 6>>}
MCNetworks   == {<<8, 9>>}
MCFeedValues == [profile_urls |-> {"blog"}, btc_addresses |-> {"w1"}]
MCFamilies   == [akira |-> <<"w2">>, akiro |-> <<"w1", "w3">>]
=============================================================================
