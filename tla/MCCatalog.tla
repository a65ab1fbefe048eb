------------------------------ MODULE MCCatalog ------------------------------
EXTENDS Catalog, TLC

\* Rows of a kind and requests are interchangeable.
Symmetric ==
    Permutations(Folders) \union Permutations(Files) \union Permutations(Sessions)
        \union Permutations(Requests)
=============================================================================
