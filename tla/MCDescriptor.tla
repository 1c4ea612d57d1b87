---------------------------- MODULE MCDescriptor ----------------------------
EXTENDS Descriptor

CONSTANTS s1, s2
=============================================================================
