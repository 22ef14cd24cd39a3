----------------------------- MODULE MCComThread -----------------------------
EXTENDS ComThreadProps
=============================================================================
