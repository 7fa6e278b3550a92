--------------------------- MODULE MCPlanetLinks ---------------------------
EXTENDS PlanetLinks, TLC

CONSTANTS a, b

url(n) == [node |-> n, kind |-> "node", rank |-> 0]
out(n) == [node |-> n, kind |-> "out", rank |-> 0]
in(n, k) == [node |-> n, kind |-> "in", rank |-> k]

MCInletCount == [n \in Node |-> 2]
MCOutletCount == [n \in Node |-> 1]

\* Everything fits.
MCCompatible == Outlet \X Inlet

nowhere(n) == [node |-> n, kind |-> "none", rank |-> 0]

\* b is a Lua node, whose second inlet comes with a later script.
MCLate == {in(b, 1)}

\* One way to name each link: by nodes, by slots, from the inlet; the last
\* two are never made, one for its direction, one for its url.
MCRequest == {<<url(a), url(b)>>, <<out(a), in(b, 1)>>, <<in(a, 0), out(b)>>,
              <<out(a), out(b)>>, <<out(a), nowhere(b)>>}
=============================================================================
