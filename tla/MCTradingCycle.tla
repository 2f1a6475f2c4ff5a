----------------------------- MODULE MCTradingCycle -----------------------------
(* TradingCycle for TLC.  Symbols are interchangeable: no definition names one. *)
EXTENDS TradingCycle, TLC
SymbolSymmetry == Permutations(Symbols)
=============================================================================
