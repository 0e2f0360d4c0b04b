----------------------------- MODULE MCRawStore -----------------------------
(* RawStore for TLC: payloads of one and two cells.                        *)
EXTENDS RawStore

CONSTANTS a, b

MCData == {a, b}

\* The two-cell payload can be torn between its cells.
MCPayloads == {<<a>>, <<b, a>>}
=============================================================================
