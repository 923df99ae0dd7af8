--------------------------- MODULE MCPaneArithmetic ---------------------------
(* Integers of four bits, and a stream start near the smallest.            *)
EXTENDS PaneArithmetic

MCStreamStarts == {-6, None}
=============================================================================
