---------------------------- MODULE MCThreadPool ----------------------------
EXTENDS ThreadPool

CONSTANTS w1, w2, w3, t1, t2

MCWorkers3 == {w1, w2, w3}
MCTasks2 == {t1, t2}
=============================================================================
