---------------------------- MODULE MCRemoteLog ----------------------------
EXTENDS RemoteLog
=============================================================================
