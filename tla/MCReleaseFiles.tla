---------------------------- MODULE MCReleaseFiles ----------------------------
EXTENDS ReleaseFiles, TLC

Symmetric == Permutations(Users) \cup Permutations(Contents) \cup Permutations(Extensions)
===============================================================================
