------------------------- MODULE MCEngineInterleaving -------------------------
(***************************************************************************)
(* Small instances of EngineInterleaving.                                  *)
(***************************************************************************)
EXTENDS EngineInterleaving, TLC

\* Devices are interchangeable, and so are the tables and the values.
Symmetric ==
  {d @@ i @@ v : d \in Permutations(Device), i \in Permutations(Id),
                 v \in Permutations(Value)}

NoContents == {}
NoIds      == {}
=============================================================================
