----------------------------- MODULE MCCodeLab -----------------------------
(* An instance of CodeLab for TLC.                                            *)
EXTENDS CodeLab
=============================================================================
