--------------------------- MODULE MCPackageFetch ---------------------------
(* A project of two packages of two repositories that depend on each other,    *)
(* until the first drops the other.                                            *)
EXTENDS PackageFetch, TLC

CONSTANTS p, q, a, b, r, t

MCRepo == (a :> r @@ b :> t)
MCRevision == (a :> 0 @@ b :> 2)
MCRoot == <<a>>
MCDeps == (a :> <<<<b>>, <<>>>> @@ b :> <<<<a>>, <<a>>>>)
MCLocks == {NoLock, a :> 1 @@ b :> 2}
=============================================================================
