------------------------- MODULE MCWorkspaceMemory -------------------------
EXTENDS WorkspaceMemory, TLC

CONSTANTS p1, p2

\* Two agents of one user and of two under a template that names the actor as
\* the code does, under one that does not, and without a template.
MCDeployments ==
    {[template |-> "{actorId}", actor |-> (p1 :> "ann" @@ p2 :> "ann")],
     [template |-> "{actorId}", actor |-> (p1 :> "ann" @@ p2 :> "bob")],
     [template |-> "{actor_id}", actor |-> (p1 :> "ann" @@ p2 :> "none")],
     [template |-> "", actor |-> (p1 :> "ann" @@ p2 :> "bob")]}
=============================================================================
