--------------------------- MODULE MCStreamRelay ---------------------------
(* A small instance of StreamRelay: two counts, to tell an earlier report from the last one. *)
EXTENDS StreamRelay

MCUsages == {[prompt |-> 3, completion |-> k, cached |-> 1, reasoning |-> 0] : k \in {1, 2}}
=============================================================================
