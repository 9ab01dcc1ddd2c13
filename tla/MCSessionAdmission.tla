------------------------ MODULE MCSessionAdmission ------------------------
EXTENDS SessionAdmission
=============================================================================
