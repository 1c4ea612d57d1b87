---------------------------- MODULE MCTftpServer ----------------------------
EXTENDS TftpServer

CONSTANTS r, w
=============================================================================
