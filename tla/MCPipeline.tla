----------------------------- MODULE MCPipeline -----------------------------
(***************************************************************************)
(* Pipeline for TLC: p1 proposes and times out, p2 votes for it, and p3    *)
(* does not read the stream p1 sends on.  The streams of p1 may break.     *)
(***************************************************************************)
EXTENDS Pipeline

CONSTANTS p1, p2, p3

MCProcess == {p1, p2, p3}
MCUnread == {<<p1, p3>>}
MCFragile == {<<p1, p2>>, <<p1, p3>>}
MCMessage == {<<p1, 1, All>>, <<p1, 2, {p3}>>, <<p1, 3, {p3}>>, <<p2, 1, {p1}>>}
=============================================================================
