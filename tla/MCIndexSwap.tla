---------------------------- MODULE MCIndexSwap ----------------------------
(* Small instances of IndexSwap for TLC. *)
EXTENDS IndexSwap, TLC

NoEvents == [e \in Events |-> 0]
MCLimit == [NoEvents EXCEPT !["down"] = 1, !["put"] = 1, !["delete"] = 1,
                            !["ask"] = 1, !["probe"] = 1, !["fault"] = 1]
=============================================================================
