---------------------------- MODULE MCNameServer ----------------------------
EXTENDS NameServer
=============================================================================
