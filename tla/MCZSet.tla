------------------------------- MODULE MCZSet -------------------------------
EXTENDS ZSet

MCMember == 1 .. 7
=============================================================================
