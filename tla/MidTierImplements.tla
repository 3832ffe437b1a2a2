------------------------- MODULE MidTierImplements -------------------------
(* The mid-tier server implements ScatterGather.                           *)
EXTENDS MidTierInv

\* A bucket has been heard for r once its answer sits in a slot, and remains
\* heard when the entry of the answered request is replaced.
HeardOf(r) ==
    {c.bucket : c \in {d \in UNION {Stored(a) : a \in Addr} : d.req = r}}
      \cup UNION {{c.bucket : c \in replies[r][i].answers} : i \in DOMAIN replies[r]}

MergedOf(r) ==
    [i \in DOMAIN replies[r] |->
        {c.bucket : c \in {d \in replies[r][i].answers : d.req = r}}]

SG == INSTANCE ScatterGather WITH
          accepted <- Accepted,
          heard <- [r \in Requests |-> HeardOf(r)],
          replies <- [r \in Requests |-> MergedOf(r)],
          up <- (process = "up")

\* Every step of the threads is a step of the promise or changes nothing a
\* client could tell: no request is answered twice, early, or with the answer
\* of a bucket to another request.
Implements == SG!Spec
=============================================================================
