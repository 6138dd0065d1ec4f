------------------------------ MODULE MCInstaller ------------------------------
(* Instances of Installer for TLC. *)
EXTENDS Installer, TLC

CONSTANTS g1, g2, b1, b2

\* Each of the two games is fresh, or has a foreign version.dll and an app id, or
\* has a Lovely injector.
MCInitFiles ==
    LET kinds == {<<NoFile, NoFile>>, <<UserDll, UserAppId>>, <<UserLovely, NoFile>>}
    IN {[p \in GamePlace |-> kind[p[2]][IF p[1] = "lovely" THEN 1 ELSE 2]] :
            kind \in [Game -> kinds]}

\* Games are alike, and so are builds.
MCSymmetry == Permutations(Game) \cup Permutations(Build)
================================================================================
