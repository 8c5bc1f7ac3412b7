--------------------------- MODULE MCRegistration ---------------------------
\* Registration for TLC; the configurations give the bound.
EXTENDS Registration
=============================================================================
