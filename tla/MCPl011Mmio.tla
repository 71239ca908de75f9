---------------------------- MODULE MCPl011Mmio -----------------------------
(* Two bytes, a buffer of four as in the code, up to six bytes of input.    *)
EXTENDS Pl011Mmio
=============================================================================
