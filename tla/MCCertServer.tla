---------------------------- MODULE MCCertServer ----------------------------
\* CertServer for TLC; the configurations give the constants.
EXTENDS CertServer
=============================================================================
