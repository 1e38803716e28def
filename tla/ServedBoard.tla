----------------------------- MODULE ServedBoard -----------------------------
(***************************************************************************)
(* What the router promises the clients of its API, with no task, no path    *)
(* and no clock in it: per chain a board, written as a whole. A scan takes   *)
(* one copy of the chain's snapshot; what it puts on the board, if anything, *)
(* was all quoted on the block of that copy and detected at one moment,      *)
(* while the copy was fresh. Whatever is published in the meantime, nothing  *)
(* else gets on the board, and nothing of the last scan stays on it.         *)
(***************************************************************************)
EXTENDS Integers

CONSTANTS Chains, MaxStaleness

VARIABLES
    latest, \* latest[c]: block and time of the snapshot published for chain c
    copy,   \* copy[c]: those of the snapshot the scan works on
    board   \* board[c]: {}, or block, time and detection of what is served

Stamps == [block : Nat, taken_at : Nat]
Blank == [block |-> 0, taken_at |-> 0]

\* What a scan that detects something on snapshot s may put on the board.
Notices(s) ==
    {[block |-> s.block, taken_at |-> s.taken_at, detected_at |-> t] :
        t \in s.taken_at .. s.taken_at + MaxStaleness}

BoardInit ==
    /\ latest = [c \in Chains |-> Blank]
    /\ copy = [c \in Chains |-> Blank]
    /\ board = [c \in Chains |-> {}]

Publish(c) ==
    /\ latest'[c] \in Stamps
    /\ latest' = [latest EXCEPT ![c] = latest'[c]]
    /\ UNCHANGED <<copy, board>>

Take(c) ==
    /\ copy' = [copy EXCEPT ![c] = latest[c]]
    /\ UNCHANGED <<latest, board>>

Replace(c) ==
    /\ \E notices \in {{}} \cup {{notice} : notice \in Notices(copy[c])} :
        board' = [board EXCEPT ![c] = notices]
    /\ copy' = [copy EXCEPT ![c] = Blank]
    /\ UNCHANGED latest

\* A scan ends without putting anything up, and what is up stays.
Abandon(c) ==
    /\ copy' = [copy EXCEPT ![c] = Blank]
    /\ UNCHANGED <<latest, board>>

BoardNext == \E c \in Chains : Publish(c) \/ Take(c) \/ Replace(c) \/ Abandon(c)

BoardSpec == BoardInit /\ [][BoardNext]_<<latest, copy, board>>
=============================================================================
