--------------------------- MODULE MCServerTesting ---------------------------
EXTENDS ServerTesting
CONSTANTS a, b, c
MCInitial == <<a, b>>
=============================================================================
