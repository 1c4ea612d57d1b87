------------------------------ MODULE MCLogger ------------------------------
EXTENDS Logger, TLC
=============================================================================
