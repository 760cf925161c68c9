--------------------------- MODULE MCCompileClaim ---------------------------
(* Three workers and four patterns: two share a claim slot and a memo      *)
(* slot, and one does not compile.                                         *)
EXTENDS CompileClaim, TLC
CONSTANTS w1, w2, w3, a, b, c, x
AllWorkers == {w1, w2, w3}
AllPatterns == {a, b, c, x}
HashFn == (a :> 1) @@ (b :> 3) @@ (c :> 5) @@ (x :> 7)
SlotFn == (a :> 1) @@ (b :> 1) @@ (c :> 2) @@ (x :> 2)
MemoFn == (a :> 1) @@ (b :> 1) @@ (c :> 2) @@ (x :> 2)
SizeFn == (a :> 2) @@ (b :> 2) @@ (c :> 3) @@ (x :> 1)
BadPatterns == {x}
=============================================================================
