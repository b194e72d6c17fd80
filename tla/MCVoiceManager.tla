----------------------------- MODULE MCVoiceManager -----------------------------
EXTENDS VoiceManager
=============================================================================
