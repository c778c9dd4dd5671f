------------------------------ MODULE MCStage ------------------------------
(* A file in the directory the program is started in and one in a          *)
(* subdirectory; an absolute path, a relative one, the file's name, and a  *)
(* path that leads up.                                                     *)
EXTENDS Stage, TLC

MCLocate ==
    "absolute" :> ("home" :> "sub" @@ "sub" :> "sub") @@
    "relative" :> ("home" :> "sub" @@ "sub" :> "nowhere") @@
    "local" :> ("home" :> "home" @@ "sub" :> "sub") @@
    "up" :> ("home" :> "nowhere" @@ "sub" :> "home")

\* A path that leads up, from a directory with two above it.
UpLocate ==
    "up" :> ("home" :> "above" @@ "above" :> "top" @@ "top" :> "nowhere") @@
    "local" :> ("home" :> "home" @@ "above" :> "above" @@ "top" :> "top")

Symmetric == Permutations(Uuids) \cup Permutations(Names)

=============================================================================
