----------------------------- MODULE MCKVStore -----------------------------
(***************************************************************************)
(* Small instances of KVStore.  MaxWorks = 0 makes a batch of one entry,   *)
(* LargeSize = 1 makes a set of two members large.                         *)
(***************************************************************************)
EXTENDS KVStore, TLC

CONSTANT txt

MCText     == {txt}
MCMinInt   == -1
MCStoreSym == Permutations(Addr) \cup Permutations(Worker)

NoArg     == {}
OneArg    == {1}
FewTtlArg == {0, 1}
TxtArg    == {txt}
TxtOrOne  == {txt, 1}
Queries   == {<<1, 0, 0, 3>>, <<1, 2, -1, 4>>}
=============================================================================
