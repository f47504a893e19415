------------------------- MODULE MCExtractionMachine -------------------------
(* The deployed arrangement (ai/router/providers.py, driver.py:189-216), its *)
(* cloud provider priced so that the ceilings are reached, and one article   *)
(* of each kind the router tells apart.                                      *)
EXTENDS ExtractionMachine

MCRegistry == << [local |-> FALSE, tiers |-> {"triage", "analysis", "judge"}, price |-> 4],
                 [local |-> TRUE,  tiers |-> {"triage"}, price |-> 0] >>

MCRevised == {ExtractIoc}

Open == [tlp |-> "clear", share |-> TRUE, consent |-> "none", ceiling |-> "green",
         oversized |-> {}, wired |-> {1}]

MCJobs == { Open,
            [Open EXCEPT !.tlp = "amber", !.consent = "override"],
            [Open EXCEPT !.share = FALSE, !.consent = "override", !.oversized = {Narrative}],
            [Open EXCEPT !.tlp = "unmarked"],
            [Open EXCEPT !.tlp = "red", !.wired = {1, 2}] }
=============================================================================
