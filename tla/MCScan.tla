------------------------------- MODULE MCScan -------------------------------
(* Scan with items that match more or less after each change of the view.  *)
EXTENDS Scan
CONSTANTS w1, w2
MCWorker == {w1, w2}
MCDepth == [v \in 0 .. MaxOps |-> [c \in 1 .. NumChunks |-> (2 * v + c) % (MaxKey + 1)]]
=============================================================================
