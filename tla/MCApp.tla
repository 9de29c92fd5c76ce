-------------------------------- MODULE MCApp --------------------------------
EXTENDS App
==============================================================================
