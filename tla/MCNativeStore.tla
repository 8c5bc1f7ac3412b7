--------------------------- MODULE MCNativeStore ---------------------------
\* NativeStore for TLC; the configurations give the constants.
EXTENDS NativeStore
=============================================================================
