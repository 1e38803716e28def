--------------------------- MODULE SnapshotRegister ---------------------------
(***************************************************************************)
(* What the pool store promises its readers, with no worker, no chain and   *)
(* no clock in it: one register per chain. What a reader loads from it was  *)
(* written in one step, shows every pool as of one block, and the next      *)
(* value is neither taken earlier nor, beyond the lag of the RPC node, of   *)
(* an older block. Writing to one chain's register leaves the others alone. *)
(***************************************************************************)
EXTENDS Integers

CONSTANTS Chains, MaxLag

VARIABLE view   \* view[c]: [block, taken_at, pools], each pool with its block

Empty == [block |-> 0, taken_at |-> 0, pools |-> {}]

RegisterInit == view = [c \in Chains |-> Empty]

\* Every pool of v is in the state it had at v's block.
OfOneBlock(v) == \A q \in v.pools : q.block = v.block

\* w may follow v.
Succeeds(v, w) ==
    /\ w.taken_at >= v.taken_at
    /\ w.block + MaxLag >= v.block

Write(c) ==
    /\ OfOneBlock(view'[c])
    /\ Succeeds(view[c], view'[c])
    /\ view' = [view EXCEPT ![c] = view'[c]]

RegisterSpec == RegisterInit /\ [][\E c \in Chains : Write(c)]_view
=============================================================================
