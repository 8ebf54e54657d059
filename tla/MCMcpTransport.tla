--------------------------- MODULE MCMcpTransport ---------------------------
EXTENDS McpTransport
=============================================================================
