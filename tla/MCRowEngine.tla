----------------------------- MODULE MCRowEngine -----------------------------
(* Three requests over three rows; two of them have one prompt.               *)
EXTENDS RowEngine, TLC

CONSTANTS a, b, c, x, y

MCPrompt == (a :> <<x, x>> @@ b :> <<x, x>> @@ c :> <<y, x, x>>)
MCMaxNew == (a :> 2 @@ b :> 3 @@ c :> 3)
=============================================================================
