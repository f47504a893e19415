----------------------------- MODULE MCTlpRouter -----------------------------
(* The deployed registry (ai/router/providers.py): nvidia, anthropic, ollama. *)
EXTENDS TlpRouterTask

MCRegistry == << [local |-> FALSE, tiers |-> {"triage", "analysis", "judge"}, price |-> 0],
                 [local |-> FALSE, tiers |-> {"triage", "analysis"}, price |-> 1],
                 [local |-> TRUE,  tiers |-> {"triage"}, price |-> 0] >>
=============================================================================
