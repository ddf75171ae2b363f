---------------------------- MODULE MCLineEditor ----------------------------
(* LineEditor with a buffer of five bytes, on a screen of four cells: the  *)
(* text fills the buffer, spans two rows and reaches the last cell.        *)
EXTENDS LineEditor
=============================================================================
