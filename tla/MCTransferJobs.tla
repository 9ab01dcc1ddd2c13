--------------------------- MODULE MCTransferJobs ---------------------------
EXTENDS TransferJobs
=============================================================================
