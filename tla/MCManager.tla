------------------------------ MODULE MCManager ------------------------------
(* Model values and bounds for checking Manager with TLC. *)
EXTENDS Manager, TLC
CONSTANTS n1, n2, c1, c2

TwoNames == (n1 :> 1) @@ (n2 :> 2)
OneName  == (n1 :> 1)
Pair == (n1 :> 1) @@ (n2 :> 0)
NoNames  == [n \in Names |-> 0]

NoEvents == [e \in Events |-> 0]
With(f)  == f @@ NoEvents

LimitSafety  == With(("fault" :> 1) @@ ("cancel" :> 1) @@ ("shutdown" :> 1) @@ ("sweep" :> 1) @@
                     ("crash" :> 1))
LimitLive    == With(("crash" :> 1) @@ ("enqueue" :> 2) @@ ("sweep" :> 1) @@ ("cancel" :> 1))
LimitEnqueue == With("enqueue" :> 1)

Clientele == Permutations({c1, c2})
==============================================================================
