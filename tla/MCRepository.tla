---------------------------- MODULE MCRepository ----------------------------
(* RepositoryClient on a small store, for TLC. *)
EXTENDS RepositoryClient

MCSuppliedIDs == {-2}

=============================================================================
