----------------------------- MODULE MCCanvasSync -----------------------------
EXTENDS CanvasSync
=============================================================================
