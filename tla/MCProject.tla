----------------------------- MODULE MCProject -----------------------------
(* StartPorts for TLC: two namings of the directories, without and with a   *)
(* clash of names, and the projects a user begins with: none, one file that *)
(* shows what a directory is, and four with several services.               *)
EXTENDS StartPorts, TLC

Names == { (0 :> 1) @@ (1 :> 2) @@ (2 :> 3), (0 :> 4) @@ (1 :> 2) @@ (2 :> 2) }

At(d, kind, port) == [dir |-> d, kind |-> kind, port |-> port, service |-> 0]

Singles ==
  { {At(1, kind, 0)} : kind \in (Silent \cup Optional) \ {Compose} }

Projects == Singles \cup
  { {},
    {At(1, "package.json", 0), At(2, "package.json", 0)},
    {[At(1, Compose, 3000) EXCEPT !.service = 3], [At(1, Compose, 0) EXCEPT !.service = 2]},
    {At(0, "Dockerfile", 3000), At(1, "Dockerfile", 3001), At(2, "Dockerfile", 3000)},
    {At(0, "redis.conf", 3000), At(1, "package.json", 0), At(2, "go.mod", 0)} }
=============================================================================
