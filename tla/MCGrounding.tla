----------------------------- MODULE MCGrounding ------------------------------
(* Three bodies: the first holds "a b" in the middle of a word and then again *)
(* as words, across a list marker, and a defanged indicator; the second has   *)
(* its words in another order, an invisible character and the indicator       *)
(* inside a longer one; the third says little.                                *)
EXTENDS Grounding

MCBodies == {<<"c", "a", " ", "b", " ", "a", " ", "-", " ", "b", " ", "a", "[.]", "b", ".">>,
             <<"a", ".", "b", ".", "c", " ", "a", "~", " ", " ", "b", " ", "c">>,
             <<"b", " ", "a", ".", "b">>}
MCWellFormed == {<<"a", ".", "b">>, <<"a", ".", "b", ".", "c">>}
MCTechniques == {"T1", "T2", "T3"}
MCBundles == {[live |-> {"T1", "T2"}, by |-> [t \in {"T3"} |-> "T2"]],
              [live |-> {"T1"}, by |-> [t \in {"T2", "T3"} |-> IF t = "T3" THEN "T2" ELSE "T1"]]}

Adjacent  == <<"a", " ", "b">>
Elided    == <<"b", "...", "a", " ", "b">>
Backwards == <<"a", ".", "b", "...", "b", " ", "a">>
Listed    == <<"-", " ", "b", " ", "...", " ", "c">>
MCQuotes  == {Adjacent, Elided, Backwards, Listed}

Proposals == {[written |-> <<"a", "[.]", "b">>, value |-> <<"a", ".", "b">>],
              [written |-> <<"a", "~", ".", "b", ".", "c">>, value |-> <<"a", ".", "b">>],
              [written |-> <<"c">>, value |-> <<"c">>]}
MCIocAnswers == {<<p, q>> : p \in Proposals, q \in {r \in Proposals : r.value = <<"a", ".", "b">>}}
Mappings(T) == [technique : T, quote : MCQuotes]
MCTtpAnswers == {<<p, q>> : p \in Mappings({"T3"}), q \in Mappings({"T1", "T2"})}
MCSketches == {{[name |-> <<"c">>, related |-> Adjacent], [name |-> <<"c", "a">>, related |-> <<>>]}}
MCDiamonds == {{Adjacent, Elided}, {Backwards, Listed}}
=============================================================================
