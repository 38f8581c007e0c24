--------------------------- MODULE MCDatapackStore ---------------------------
(* Small instances of DatapackStore: two signed packs, one unsigned, and a signed *)
(* text that is no pack.                                                          *)
EXTENDS DatapackStore

CONSTANTS i1, i2, s1, old, new, unsigned, mal, raw, none, builtin

MCGood == {old, new, unsigned}
MCSigned == {old, new, mal}
=============================================================================
