------------------------------- MODULE MCNfc -------------------------------
EXTENDS NfcService
=============================================================================
