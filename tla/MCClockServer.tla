---------------------------- MODULE MCClockServer ----------------------------
EXTENDS ClockServer
=============================================================================
