--------------------------- MODULE MCBlockRequest ---------------------------
EXTENDS BlockRequest
=============================================================================
