--------------------------- MODULE MCCompletions ---------------------------
(***************************************************************************)
(* Instance of Completions for TLC: two variations that are both asked of  *)
(* OpenAI (every second one is), with the default models.  Under these a   *)
(* variation never changes its provider, so that one provider shows all.   *)
(***************************************************************************)
EXTENDS Completions

CONSTANTS openai, gpt4, gpt35, v0, v2

MCProviderOf    == [m \in {gpt4, gpt35} |-> openai]
MCFirstModel    == [v \in Variations |-> gpt4]
MCFallbackModel == [v \in Variations |-> gpt35]
MCApproach      == [v \in Variations |-> v]
=============================================================================
