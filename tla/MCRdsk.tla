-------------------------------- MODULE MCRdsk --------------------------------
(* An instance of Rdsk for TLC.                                            *)
EXTENDS Rdsk, TLC

CONSTANTS a, b, x, y

Contents3 == {<<>>, <<x>>, <<x, y>>}
SymmetricNames == Permutations({a, b})

================================================================================
