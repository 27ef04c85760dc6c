----------------------------- MODULE MCTransport -----------------------------
(***************************************************************************)
(* An instance of Transport for TLC: a vault whose secrets come on three   *)
(* pages of which the second is empty, one with a single page, and a graph *)
(* query that gets a token with every page.                                *)
(***************************************************************************)
EXTENDS Transport, TLC

CONSTANTS vault, small, query

MCPages == (vault :> 3) @@ (small :> 1) @@ (query :> 2)
MCEmpty == (vault :> {2}) @@ (small :> {}) @@ (query :> {})
=============================================================================
