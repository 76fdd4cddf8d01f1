---------------------------- MODULE MCMemoryCopy ----------------------------
EXTENDS MemoryCopy
=============================================================================
