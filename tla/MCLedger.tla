------------------------------- MODULE MCLedger -------------------------------
EXTENDS Ledger
=============================================================================
