----------------------------- MODULE MCService ------------------------------
(* Small instances of Service for TLC. *)
EXTENDS Service, TLC
CONSTANTS p1, p2, r1, r2

NoEvents == [e \in Events |-> 0]
MCLimit == [NoEvents EXCEPT !["launch"] = 2, !["kill"] = 1, !["term"] = 1, !["request"] = 2,
                            !["fault"] = 1, !["evict"] = 1, !["cancel"] = 1]
=============================================================================
