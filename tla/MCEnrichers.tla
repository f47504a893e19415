------------------------------ MODULE MCEnrichers -----------------------------
(* Two groups, one of which deepdarkCTI knows by an alias; the second bundle *)
(* revokes a relationship, describes the second group, which MITRE calls by  *)
(* another name first, and has a software named after it.                    *)
EXTENDS Enrichers

MCNames == {"clop", "Cl-op", "alphv", "BlackCat", "hive"}
MCKey == [n \in MCNames |-> IF n = "Cl-op" THEN "clop" ELSE n]
MCKnown == <<"clop">>
MCGroups == {"clop", "alphv"}
MCAltnames == {<<"alphv", "BlackCat">>}
MCSoftware == [s \in {"S-blackcat"} |-> "alphv"]

Object(id, live) == [id |-> id, live |-> live]
Use(source, target, live) == [source |-> source, target |-> target, live |-> live]
First == [groups |-> <<[id |-> "G1", names |-> <<"Cl-op", "hive">>, country |-> "RU", edited |-> 1, live |-> TRUE]>>,
          techniques |-> {Object("T1", TRUE), Object("T2", FALSE)},
          software |-> {Object("S-blackcat", TRUE)},
          uses |-> {Use("G1", "T1", TRUE), Use("G1", "T2", TRUE), Use("G1", "S-blackcat", TRUE)}]
Second == [groups |-> <<[id |-> "G1", names |-> <<"Cl-op", "hive">>, country |-> "RU", edited |-> 1, live |-> TRUE],
                        [id |-> "G2", names |-> <<"hive", "alphv">>, country |-> None, edited |-> 2, live |-> TRUE]>>,
           techniques |-> {Object("T1", TRUE), Object("T3", TRUE)},
           software |-> {Object("S-blackcat", TRUE)},
           uses |-> {Use("G2", "T1", FALSE), Use("G2", "T3", TRUE), Use("S-blackcat", "T3", TRUE)}]
MCBundles == <<First, Second>>

MCItems == {"page", "channel"}
MCFileOf == [page |-> "ransomware_gang", channel |-> "telegram_threat_actors"]
MCNamedBy == [page |-> "clop", channel |-> "BlackCat"]
=============================================================================
