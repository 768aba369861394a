--------------------------- MODULE MCCanvasWrites ---------------------------
EXTENDS CanvasWrites
=============================================================================
