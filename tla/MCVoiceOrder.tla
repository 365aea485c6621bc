----------------------------- MODULE MCVoiceOrder -----------------------------
EXTENDS VoiceOrder

Words(w) == [words |-> w, recipe |-> NoRecipe]
Named(w, r) == [words |-> w \cup {"recipe"}, recipe |-> r]

MCCatalog == {"sunrise"}
MCPresses == [r \in {"sunrise", Colors, Mix} |-> 2]

\* An order that says "yes" as well (where the LLM listens, it may make anything of it); a yes;
\* a cancellation that says "yes", too.
MCUtterances == {Named({"confirm"}, "sunrise"), Words({"confirm"}), Words({"cancel", "confirm"})}
=============================================================================
