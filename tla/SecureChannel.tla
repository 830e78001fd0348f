--------------------------- MODULE SecureChannel ---------------------------
(***************************************************************************)
(* What lightning/bolt08.Transport promises to the code above it, without  *)
(* keys, nonces, frames or a byte stream: each peer owns one direction,    *)
(* the messages it sends come out at the other side unaltered, complete    *)
(* and in order, until the receiving side gives the connection up.         *)
(***************************************************************************)
EXTENDS Naturals, Sequences

CONSTANTS
    Peers,      \* the two ends of a connection
    Other(_),   \* the end at the far side of a peer
    Sendable,   \* the messages a peer can send
    MaxSent     \* bound on the messages each peer sends

VARIABLES
    sent,       \* sent[p]: the messages p has sent, in order
    delivered,  \* delivered[p]: the messages p has received, in order
    up          \* up[p]: p still receives

vars == <<sent, delivered, up>>

Init ==
    /\ sent = [p \in Peers |-> <<>>]
    /\ delivered = [p \in Peers |-> <<>>]
    /\ up = [p \in Peers |-> TRUE]

Send(p, m) ==
    /\ up[p]
    /\ Len(sent[p]) < MaxSent[p]
    /\ sent' = [sent EXCEPT ![p] = Append(@, m)]
    /\ UNCHANGED <<delivered, up>>

\* The next message, never another one: the position to deliver is the
\* number of messages delivered so far.
Deliver(p) ==
    LET next == Len(delivered[p]) + 1 IN
    /\ up[p]
    /\ next <= Len(sent[Other(p)])
    /\ delivered' = [delivered EXCEPT ![p] = Append(@, sent[Other(p)][next])]
    /\ UNCHANGED <<sent, up>>

\* A failed read or a MAC failure is final.
Break(p) ==
    /\ up[p]
    /\ up' = [up EXCEPT ![p] = FALSE]
    /\ UNCHANGED <<sent, delivered>>

Next ==
    \E p \in Peers :
        \/ \E m \in Sendable : Send(p, m)
        \/ Deliver(p)
        \/ Break(p)

Safety == Init /\ [][Next]_vars

Spec == Safety /\ \A p \in Peers : WF_vars(Deliver(p))
=============================================================================
