----------------------------- MODULE MCExporter -----------------------------
(* Instances of Exporter for TLC.                                          *)
EXTENDS ExporterProperties, TLC

CONSTANTS v1, s1, s2, f1, f2, t1, ost0, available, used, c1

\* Two values of the labels a scale set can change; two filesystems, so that one
\* fails or vanishes while the other stays.
TwoSkus == {s1, s2}
TwoFilesystems == {f1, f2}
OneTier == {t1}
OneTarget == {ost0}
OneOst == {ost0}
TwoGauges == {available, used}
None == {}
OneVmss == {v1}
OneSku == {s1}
OneCaller == {c1}

\* Filesystems are interchangeable, and so are the gauges of a sample.
LustreSymmetry == Permutations(Filesystem) \cup Permutations(ValueGauge)
=============================================================================
