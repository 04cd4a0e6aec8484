------------------------------- MODULE MCBroker -------------------------------
(* An instance of Broker for TLC. *)
EXTENDS Broker

At(last, bid, volume, up, down) ==
    [last |-> last, bid |-> bid, asks |-> volume, bids |-> volume,
     up |-> up, down |-> down]

\* quotes of every volume, one with a lower bid, and one at each limit
Quotes ==
    {At(p, p, n, 0, 0) : p \in {60, 120}, n \in {0, 1, 2}}
    \union {At(120, 60, 2, 0, 0), At(120, 60, 2, 120, 60), At(60, 60, 2, 120, 60)}
=============================================================================
