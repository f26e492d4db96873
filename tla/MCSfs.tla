------------------------------- MODULE MCSfs --------------------------------
(* Two files on seven data blocks of two words, one direct and two indirect  *)
(* addresses: one file at its largest size takes all of the blocks.          *)
EXTENDS Sfs
=============================================================================
