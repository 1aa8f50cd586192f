-------------------------------- MODULE MCS3 --------------------------------
(* Values of the constants of S3Objects for TLC.                             *)
EXTENDS S3Objects, TLC

CONSTANTS b1, b2, k1, k2

MCOneKey == {{k1}}
Symmetric == Permutations(File) \cup Permutations(Client) \cup Permutations(Content)
=============================================================================
