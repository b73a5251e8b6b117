---------------------------- MODULE MCPagedEngine ----------------------------
(* Small instances of PagedEngine for TLC. *)
EXTENDS PagedEngine

CONSTANTS a, b, e, x, y

\* Two tokens, one of which ends a request.
MCPrompt == (a :> <<x, x>> @@ b :> <<x, x, x, x>> @@ e :> <<y, x, y>>)
MCMaxNew == (a :> 4 @@ b :> 3 @@ e :> 6)
TightMaxNew == (a :> 5 @@ b :> 3 @@ e :> 4)
=============================================================================
