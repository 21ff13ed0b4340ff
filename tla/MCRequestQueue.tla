--------------------------- MODULE MCRequestQueue ---------------------------
EXTENDS RequestQueue
=============================================================================
