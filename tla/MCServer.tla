------------------------------ MODULE MCServer ------------------------------
(* The server on small instances: h1 streams two choices, which a stop string *)
(* may end, h2 sends an answer of one choice whole; or three requests for the *)
(* embeddings of inputs of two padded lengths, two inputs a pass.             *)
EXTENDS Server

CONSTANTS h1, h2, r1, r2, r3, plain, eos, x, y, z, a, b, d

MCChoices == (h1 :> <<r1, r2>>) @@ (h2 :> <<r3>>)
\* Stop strings inside a token, and across two of them.
MCTextOf == (plain :> <<y, x>>) @@ (eos :> <<>>)
MCStop == (h1 :> {<<x, y>>, <<z>>}) @@ (h2 :> {})
MCPrompt == [r \in {r1, r2, r3} |-> <<plain>>]
MCMaxNew == (r1 :> 3) @@ (r2 :> 1) @@ (r3 :> 1)

MCInputs == (a :> <<1, 2, 1>>) @@ (b :> <<2>>) @@ (d :> <<1, 1>>)
=============================================================================
