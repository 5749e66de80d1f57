----------------------------- MODULE MCListMtf ------------------------------
(* Instances of ListMtf for TLC.                                             *)
EXTENDS ListMtf

CONSTANTS a, b, c

\* Tables that insertions one after the other have left.
MCPreloaded == {<<>>, <<a, b>>, <<a, b, c>>}

MCOps == [t \in Thread |-> {"lookup", "get", "remove"}]
=============================================================================
