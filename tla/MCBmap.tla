------------------------------- MODULE MCBmap -------------------------------
EXTENDS Bmap, TLC

CONSTANTS f1, f2
MCLimit == f1 :> MAXFILE * BSIZE @@ f2 :> 2
=============================================================================
