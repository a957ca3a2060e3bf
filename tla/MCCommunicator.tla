--------------------------- MODULE MCCommunicator ---------------------------
EXTENDS Communicator, TLC

CONSTANTS c1, c2, c3, t1

\* Events that were asked for, and errors; and, for the runs with several
\* descriptors, data with the hang up that comes with it.
MCReports == {{}, {"in"}, {"in", "out"}, {"err", "hup"}, {"nval"}}
MCFewReports == {{}, {"in", "hup"}}

MCSymmetry == Permutations(Conn)
=============================================================================
