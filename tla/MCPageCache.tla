----------------------------- MODULE MCPageCache -----------------------------
(* Nodes of two slots and indexes of up to three digits; memory for five of  *)
(* the seven nodes of a full tree, and for three pages.                      *)
EXTENDS PageCache
=============================================================================
