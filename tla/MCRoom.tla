------------------------------- MODULE MCRoom -------------------------------
(***************************************************************************)
(* A small instance of Room for TLC: an arena a few steps wide, a tick of  *)
(* at most two steps, a dash that ends inside a tick, roles that change    *)
(* inside a tick, and few enough player ids to run out of them.            *)
(***************************************************************************)
EXTENDS Room, TLC

Axes(x, y) == [x |-> x, y |-> y]

\* Standing still, along the arena both ways, and a diagonal outside the unit
\* disc, which is scaled down.
MCInputAxes == {Zero, Axes(2, 0), Axes(-2, 0), Axes(2, 2)}

\* Along the arena only: for the checks that follow every behaviour.
MCLineAxes == {Zero, Axes(2, 0), Axes(-2, 0)}

\* One way to move, for the checks of who enters, leaves and plays again.
MCOneAxis == {Axes(2, 0)}

\* Sessions are only compared for equality.
SessionSymmetry == Permutations(Sessions)

=============================================================================
