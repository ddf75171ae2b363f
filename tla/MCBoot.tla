------------------------------- MODULE MCBoot -------------------------------
(* Boot with the numbers of the source.                                    *)
EXTENDS Boot
=============================================================================
