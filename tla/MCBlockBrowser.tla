--------------------------- MODULE MCBlockBrowser --------------------------
(* A genesis block and three others, chains up to height 2, so that a     *)
(* reorganisation can replace the block the view looks at; block times    *)
(* on both sides of every target.                                         *)
EXTENDS BlockBrowser, TLC

CONSTANTS g, b1, b2, c1, fallback

MCBlocks == {g, b1, b2, c1}
MCBTime == (g :> 1) @@ (b1 :> 2) @@ (b2 :> 3) @@ (c1 :> 3)

=============================================================================
