------------------------------ MODULE MCJobQueue ------------------------------
(* Instances of JobQueue for TLC. *)
EXTENDS JobQueue, TLC

CONSTANTS client, path, fetch, none, w1, w2, a1, a2

\* jtLEDGER_DATA and its like have a limit of one or two; the others have none
\* that a small instance could reach.
MCLimit == (client :> 9) @@ (path :> 9) @@ (fetch :> 1)
MCPriority == (fetch :> 1) @@ (client :> 2) @@ (path :> 3)

=============================================================================
