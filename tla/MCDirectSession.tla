-------------------------- MODULE MCDirectSession --------------------------
EXTENDS DirectSession

CONSTANTS a, b
=============================================================================
