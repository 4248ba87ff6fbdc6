------------------------ MODULE MCInlineCompletion ------------------------
(* TLC instance of InlineCompletion: two kinds of provider, two keys.       *)
EXTENDS InlineCompletion

S(type, key, model, base) ==
    [apiType |-> type, apiKey |-> key, modelId |-> model, apiBase |-> base]

\* Nothing configured; a model and a key in the settings; one with an endpoint.
MCDefaults == {S("openai", None, None, None), S("openai", "k1", "m1", None),
               S("anthropic", None, "m2", "e1")}

\* Models of the picker: with a key and an endpoint, and with neither.
MCPresets == {S("anthropic", "k2", "m2", "e1"), S("openai", None, "m1", None)}

===========================================================================
