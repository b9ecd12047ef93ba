------------------------------ MODULE MCThreads ------------------------------
EXTENDS Threads

\* Real-time threads, some of which cannot meet their deadline.
MCRealTime ==
    [Thread -> [is_real_time : {TRUE}, processing_time : {1, 3}, deadline : {2, 4},
                n : 1..2, weight : {1}, arrival : 0..1]]
MCPlain ==
    [Thread -> [is_real_time : {FALSE}, processing_time : 1..3, deadline : {-1},
                n : {1}, weight : 1..2, arrival : {0, 2}]]
=============================================================================
