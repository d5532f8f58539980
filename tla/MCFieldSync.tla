---------------------------- MODULE MCFieldSync ----------------------------
EXTENDS FieldSync
=============================================================================
