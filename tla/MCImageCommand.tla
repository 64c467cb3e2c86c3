--------------------------- MODULE MCImageCommand ---------------------------
EXTENDS ImageCommand
=============================================================================
