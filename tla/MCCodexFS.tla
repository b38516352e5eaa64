------------------------------ MODULE MCCodexFS ------------------------------
(***************************************************************************)
(* The records that WriteClient writes, as the one-bits of "G", "M", "F".  *)
(***************************************************************************)
EXTENDS CodexFS

WriteClientDocuments == << {0, 1, 2, 6}, {0, 2, 3, 6}, {1, 2, 6} >>

==============================================================================
