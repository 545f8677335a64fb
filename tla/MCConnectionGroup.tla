-------------------------- MODULE MCConnectionGroup ------------------------
EXTENDS ConnectionGroup

CONSTANTS d1
=============================================================================
