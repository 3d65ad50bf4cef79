---------------------------- MODULE MCSQLiteStore ----------------------------
(* Bounds for checking SQLiteStore.                                          *)
EXTENDS SQLiteStore, TLC

MCDeltas == {<<"user">>, <<"user", "turn">>}

Symmetry ==
    Permutations(Sessions) \cup Permutations(Runs) \cup Permutations(Conns)
=============================================================================
