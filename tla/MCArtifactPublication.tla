----------------------- MODULE MCArtifactPublication -----------------------
(* Two runs that share an object; the second reproduces the first.          *)
EXTENDS ArtifactPublication, TLC

CONSTANTS r1, r2, a, b

MCContent == (r1 :> {a}) @@ (r2 :> {a, b})
MCShared == (r1 :> {a}) @@ (r2 :> {a})
MCReproduces == (r1 :> NoRun) @@ (r2 :> r1)
MCFresh == (r1 :> NoRun) @@ (r2 :> NoRun)
============================================================================
