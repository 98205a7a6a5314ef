------------------------------ MODULE MCBackup ------------------------------
\* Two products that may share a name, two pages of sister shops, one address.
EXTENDS Backup, TLC

Sisters == [u \in Url |-> Url \ {u}]
Symmetric == Permutations(Product) \cup Permutations(Url)
=============================================================================
