--------------------------- MODULE MCBackendServer ---------------------------
\* Observers are interchangeable: which one a registration gets does not matter.
EXTENDS BackendServer, TLC

Interchangeable == Permutations(Observer) \cup Permutations(Url)

=============================================================================
