--------------------------- MODULE SaveInstallMC ---------------------------
(* Instances of SaveInstall for TLC: one or two processes around one path.  *)
EXTENDS SaveInstall, TLC

CONSTANTS save1, save2, load1, load2, p1, p2, i1, i2, i3, i4, i5, old, new,
          nofile, nodata

\* Process p1 saves and loads, process p2 saves.
MCPidOf == (save1 :> p1) @@ (load1 :> p1) @@ (save2 :> p2)

\* Process p1 saves and loads, process p2 only loads.
MCPidOfLoaders == (save1 :> p1) @@ (load1 :> p1) @@ (load2 :> p2)

\* Process p1 saves, process p2 loads.
MCPidOfOther == (save1 :> p1) @@ (load2 :> p2)

MCPidOfSavers == (save1 :> p1) @@ (save2 :> p2)

MCGuards == {"force", "free", old}

InoSymmetry == Permutations(Inos)
=============================================================================
