------------------------ MODULE MCFinancialAccounting -----------------------
(***************************************************************************)
(* FinancialAccounting for TLC.                                            *)
(***************************************************************************)
EXTENDS FinancialAccounting

\* A minute of export or of import, more and less than the cap and the allowance leave.
ExportAndImport == {-2, 1}
Imports == {1}
=============================================================================
