-------------------------- MODULE MCTxnCoordinator --------------------------
(* TxnCoordinator on a small host: every group writes to every namespace.  Groups *)
(* and namespaces are interchangeable.                                            *)
EXTENDS TxnCoordinator, TLC

MCParts == [g \in Groups |-> Namespaces]
MCSymmetry == Permutations(Groups) \cup Permutations(Namespaces)
=============================================================================
