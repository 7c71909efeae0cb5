--------------------------- MODULE MCResponseStream ---------------------------
EXTENDS ResponseStream
=============================================================================
