------------------------ MODULE MCCrossNamespaceTxn ------------------------
(* CrossNamespaceTxn on a small host: every group writes to every namespace, every *)
(* ordinary commit to the first one.  Groups are interchangeable.                  *)
EXTENDS CrossNamespaceTxn

MCParts == [g \in Groups |-> Namespaces]
MCWriteNs == [w \in Writes |-> Min(Namespaces)]
MCSymmetry == Permutations(Groups)
=============================================================================
