----------------------------- MODULE MCFlatCache -----------------------------
(***************************************************************************)
(* A table of four slots: two pretokens of one hash, whose probes wrap     *)
(* around the table, one whose raw hash is the mark of an empty slot, and  *)
(* one that is too long to be stored, as one of the ids is.                *)
(***************************************************************************)
EXTENDS FlatCache

MCKeys == {<<1>>, <<1, 2>>, <<2>>, <<1, 1, 1>>}

MCRawHash == [k \in Keys |-> IF k \in {<<1>>, <<1, 2>>} THEN 3 ELSE 0]

MCEntries ==
  ({<<1>>, <<1, 2>>} \X {<<8>>, <<9, 9>>})
    \cup {<<<<2>>, <<9>>>>, <<<<1>>, <<8, 8, 8>>>>, <<<<1, 1, 1>>, <<8>>>>}
=============================================================================
