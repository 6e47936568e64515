-------------------------- MODULE MCForeignMasters --------------------------
(* Instances of ForeignMasters for TLC. *)
EXTENDS ForeignMasters

DataSet(src, gm, rank, steps) ==
    [src |-> src, gm |-> gm, rank |-> rank, steps |-> steps]

\* The port's own identity lies between those of its neighbours.
MCOwn == DataSet(3, 3, 5, 0)

\* A grandmaster that gets worse than the port, a boundary clock at two
\* distances behind it, a second grandmaster and a clock worse than the port.
MCAnnounces ==
    {DataSet(1, 1, 4, 0), DataSet(1, 1, 6, 0),
     DataSet(2, 1, 4, 1), DataSet(2, 1, 4, 2),
     DataSet(4, 4, 4, 0), DataSet(5, 5, 6, 0)}
=============================================================================
