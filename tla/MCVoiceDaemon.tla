---------------------------- MODULE MCVoiceDaemon ----------------------------
EXTENDS VoiceDaemon
=============================================================================
