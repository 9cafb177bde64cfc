------------------------------ MODULE MCPubSub ------------------------------
EXTENDS PubSub
=============================================================================
