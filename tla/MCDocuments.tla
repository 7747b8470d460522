---------------------------- MODULE MCDocuments ----------------------------
EXTENDS Documents
=============================================================================
