------------------------------ MODULE MCAssets ------------------------------
(* Two entries, one of them under two spellings, and a built-in.           *)
EXTENDS AssetsMgmtGroup

MCNames    == {"a", "A", "b", "f"}
MCEntryOf  == [n \in MCNames |-> IF n = "A" THEN "a" ELSE n]
MCContents == {<<1, 2>>, <<2, 2>>}
=============================================================================
