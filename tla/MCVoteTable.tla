---------------------------- MODULE MCVoteTable ----------------------------
(* TLC instance of VoteTable: digests are interchangeable. *)
EXTENDS VoteTable, TLC

DigestSymmetry == Permutations(Digest)
=============================================================================
