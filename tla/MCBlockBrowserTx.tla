------------------------- MODULE MCBlockBrowserTx --------------------------
(* Two scripts, two amounts, and transactions of one or two inputs and    *)
(* outputs: enough for an input spending the second output of a          *)
(* transaction with one input, and for two outputs paying one script.     *)
EXTENDS BlockBrowserTx, TLC

CONSTANTS s1, s2, notFoundFee, notFoundValue

MCScripts == {s1, s2}

ScriptSymmetry == Permutations(MCScripts)

=============================================================================
