-------------------------- MODULE MCThreadTransfer --------------------------
EXTENDS ThreadTransfer
=============================================================================
