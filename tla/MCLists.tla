------------------------------- MODULE MCLists -------------------------------
EXTENDS Lists
=============================================================================
