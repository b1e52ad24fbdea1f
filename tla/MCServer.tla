------------------------------- MODULE MCServer -------------------------------
(* Small instances of the components of the server.                        *)
EXTENDS Server, TLC

CONSTANTS n1, n2, n3, k1, k2, k3, u1, u2, r1, r2, t1, t2, p1, p2

MCNetwork == {n1, n2, n3}
MCUpstream == {u1, u2}
MCRequest == {r1, r2}
MCTask == {t1, t2}
MCServers == {p1, p2}
MCKey == {k1, k2, k3}
MCKept == {NoBans} \cup {[NoBans EXCEPT ![n] = [source |-> "auto", until |-> 3]] : n \in MCNetwork}
MCBanTimes == <<1, 2>>
MCLimit == u1 :> 1 @@ u2 :> 1
MCFirstSlot == k1 :> 0 @@ k2 :> 0 @@ k3 :> 1

\* Two networks are interchangeable, and so are the two upstreams, requests, tasks and server processes:
\* all are exchanged together, which makes a group of two permutations.  The six permutations of the three
\* networks would leave fewer states, but each of them costs more than it saves.
Swap(x, y) == x :> y @@ y :> x
Pairs == Swap(u1, u2) @@ Swap(r1, r2) @@ Swap(t1, t2) @@ Swap(p1, p2)
Symmetry ==
    {p @@ (IF p[n1] = n2 THEN Pairs ELSE [x \in DOMAIN Pairs |-> x]) :
        p \in {q \in Permutations(MCNetwork) : q[n3] = n3}}
===============================================================================
