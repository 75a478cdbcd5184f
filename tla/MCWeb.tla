------------------------------- MODULE MCWeb -------------------------------
EXTENDS Web
=============================================================================
