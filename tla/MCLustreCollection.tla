-------------------------- MODULE MCLustreCollection --------------------------
(* Instances of LustreCollection for TLC.                                  *)
EXTENDS LustreCollection

CONSTANTS fs1, fs2, fs3, bytesAvailable, bytesUsed, ost0, nobody

OneFilesystem == {fs1}
ThreeFilesystems == {fs1, fs2, fs3}

TwoMetrics == {bytesAvailable, bytesUsed}
OneTarget == {ost0}
=============================================================================
