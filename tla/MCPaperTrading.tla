---------------------------- MODULE MCPaperTrading ----------------------------
(* PaperTrading with barriers at 1.5 and 2 times an ATR of 2, and of 10.     *)
EXTENDS PaperTrading

MCBarriers == {<<3, 4>>, <<15, 20>>}
=============================================================================
