--------------------------- MODULE MCRateLimiter ---------------------------
(***************************************************************************)
(* Two clients and three handlers, as model values in the cfg files; two   *)
(* requests per window.                                                    *)
(***************************************************************************)
EXTENDS RateLimiter
=============================================================================
