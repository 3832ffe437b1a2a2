--------------------------- MODULE ScatterGather ---------------------------
(***************************************************************************)
(* What the mid-tier promises its clients, without threads, addresses,     *)
(* maps or locks: a request it accepts is answered once; a kill is         *)
(* acknowledged; any other reply is sent after one answer of every bucket  *)
(* to that request has been heard.  The server may go down at any time.    *)
(***************************************************************************)
EXTENDS Naturals, Sequences

CONSTANTS Requests, Kills, Buckets

VARIABLES
    accepted,  \* the requests accepted so far
    heard,     \* the buckets whose answer to a request has been stored
    replies,   \* the replies to a request: the buckets each one merges
    up

vars == <<accepted, heard, replies, up>>

Init ==
    /\ accepted = {}
    /\ heard = [r \in Requests |-> {}]
    /\ replies = [r \in Requests |-> <<>>]
    /\ up = TRUE

Accept(r) ==
    /\ up
    /\ r \notin accepted
    /\ accepted' = accepted \cup {r}
    /\ UNCHANGED <<heard, replies, up>>

Hear(r, b) ==
    /\ up
    /\ r \in accepted \ Kills
    /\ b \notin heard[r]
    /\ heard' = [heard EXCEPT ![r] = @ \cup {b}]
    /\ UNCHANGED <<accepted, replies, up>>

Reply(r) ==
    /\ up
    /\ r \in accepted
    /\ replies[r] = <<>>
    /\ heard[r] = IF r \in Kills THEN {} ELSE Buckets
    /\ replies' = [replies EXCEPT ![r] = <<heard[r]>>]
    /\ UNCHANGED <<accepted, heard, up>>

GoDown ==
    /\ up
    /\ up' = FALSE
    /\ UNCHANGED <<accepted, heard, replies>>

Next ==
    \/ \E r \in Requests : Accept(r) \/ Reply(r)
    \/ \E r \in Requests, b \in Buckets : Hear(r, b)
    \/ GoDown

Spec == Init /\ [][Next]_vars
=============================================================================
