------------------------- MODULE MCAddressDirectory -------------------------
(* AddressDirectory with two RPC threads, two wallet addresses (one with   *)
(* a compressed key), one remote address found in the chain and one       *)
(* malformed address.                                                      *)
EXTENDS AddressDirectory, TLC

CONSTANTS d1, d2, w1, w2, r1, bad

MCDirThreads == {d1, d2}
MCWallet == {w1, w2}
MCCompressed == {w1}
MCRemote == {r1}
MCBad == {bad}
MCChain == {r1}

DirThreadSymmetry == Permutations(MCDirThreads)

=============================================================================
