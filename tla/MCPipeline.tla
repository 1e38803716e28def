----------------------------- MODULE MCPipeline -----------------------------
(* Small instances of Pipeline for TLC. *)
EXTENDS Pipeline

CONSTANTS eth,      \* a chain
          p1, p2    \* pools

\* Two exchanges, one pool each.
MCListing == [c \in Chains |-> <<{p1}, {p2}>>]

MCSupported == [c \in Chains |-> {1, 2}]

\* One path, across both exchanges.
MCOnePath == {{p1, p2}}
=============================================================================
