----------------------------- MODULE MCJobQueue -----------------------------
EXTENDS JobQueue, TLC
CONSTANTS w1, w2
MCWorkers == {w1, w2}
OneWorker == {w1}
EitherWorker == Permutations(MCWorkers)
=============================================================================
