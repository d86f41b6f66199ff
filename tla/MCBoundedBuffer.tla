-------------------------- MODULE MCBoundedBuffer --------------------------
(* Instances of BoundedBuffer for TLC. *)
EXTENDS BoundedBuffer

CONSTANTS p1, p2, p3, c1, c2

MCProducers == {p1, p2, p3}
MCConsumers == {c1, c2}

\* The first three programs with the bounds of the source, the others with
\* queues and loops that still fill, drain and refill several times.
MCPrograms ==
    {PdrCum(p1, c1), PdrCumFinal(p1, c1, 5, 10, 10), Pdr2ConMode(p1, p2, c1, 5, 10, 20),
     TwoProTwoCon(p1, p2, c1, c2, 1, 2), TwoProTwoCon(p1, p2, c1, c2, 2, 4),
     ThreeProTwoCon(p1, p2, p3, c1, c2, 2, 2)}

\* 3p2c_mode.cpp alone.
MCThreeProTwoCon == {ThreeProTwoCon(p1, p2, p3, c1, c2, 2, 2)}
=============================================================================
