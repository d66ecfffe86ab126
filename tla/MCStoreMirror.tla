--------------------------- MODULE MCStoreMirror ---------------------------
(* Model checking of StoreMirror.                                          *)
EXTENDS StoreMirror
=============================================================================
