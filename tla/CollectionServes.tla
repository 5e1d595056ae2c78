--------------------------- MODULE CollectionServes ---------------------------
(***************************************************************************)
(* What Collection promises is what Exporter expects: the result of a      *)
(* Managed Lustre collection, in the terms of the exporter, is one of      *)
(* LustreResult, and error_count == 0, by which collect_lustre_once and    *)
(* _update_lustre_metrics decide, means that no filesystem failed.         *)
(***************************************************************************)
EXTENDS Exporter, FiniteSetTheorems, TLAPS

VARIABLES status, result   \* of the collection

\* A sample as the collector returns it: a value for some of its gauges.
Measured == [filesystem : Filesystem, target : Target,
             value : Partial(ValueGauge, Nat), stamp : Nat]

Promise == INSTANCE Collection WITH Sample <- Measured

SampleOf(r, x) ==
  CHOOSE s \in r.metrics : s.filesystem = x[1] /\ s.target = x[2]

\* The exporter's view of a result: label sets, and which gauges have a value.
AsLustreResult(r, failed, tier) ==
  [filesystems |-> [f \in r.filesystems |-> tier[f]],
   failed |-> failed,
   samples |-> [x \in {<<s.filesystem, s.target>> : s \in r.metrics} |->
                  DOMAIN SampleOf(r, x).value]]

\* A sample is found by its labels, as there is one for them at most.
LEMMA SampleFound ==
  ASSUME NEW r, Promise!Admissible(r), NEW s \in r.metrics
  PROVE  SampleOf(r, <<s.filesystem, s.target>>) = s
BY DEF SampleOf, Promise!Admissible

\* Every result that Collection admits is a result that Exporter's QueryLustre
\* considers: failed filesystems have no samples, each label set has one sample
\* with the gauges that have a value, and error_count is zero just when nothing
\* failed.
THEOREM CollectionServesExporter ==
  ASSUME NEW r, Promise!Admissible(r), NEW tier \in [Filesystem -> Tier]
  PROVE  \E failed \in SUBSET r.filesystems :
           /\ r.errorCount = Cardinality(failed)
           /\ r.errorCount = 0 <=> failed = {}
           /\ AsLustreResult(r, failed, tier) \in LustreResult
           /\ \A s \in r.metrics :
                AsLustreResult(r, failed, tier).samples[
                  <<s.filesystem, s.target>>] = DOMAIN s.value
<1>1. PICK failed \in SUBSET r.filesystems :
        /\ Cardinality(failed) = r.errorCount
        /\ \A s \in r.metrics : s.filesystem \in r.filesystems \ failed
  BY DEF Promise!Admissible, Promise!Cardinality, Cardinality
<1>2. r.filesystems \subseteq Filesystem /\ r.metrics \subseteq Measured
  BY DEF Promise!Admissible
<1> DEFINE Q == AsLustreResult(r, failed, tier)
<1> DEFINE Labels == {<<s.filesystem, s.target>> : s \in r.metrics}
<1>3. r.errorCount = 0 <=> failed = {}
  <2>1. IsFiniteSet(failed)
    BY <1>2, ExporterConstants, FS_Subset
  <2> QED
    BY <1>1, <2>1, FS_EmptySet
<1>4. Q.filesystems \in Partial(Filesystem, Tier)
  <2>1. Q.filesystems \in [r.filesystems -> Tier]
    BY <1>2 DEF AsLustreResult
  <2> QED
    BY <1>2, <2>1 DEF Partial
<1>5. Q.samples \in Partial(Sample, (SUBSET ValueGauge) \ {{}})
  <2>1. Labels \subseteq Sample
    BY <1>2 DEF Sample, Measured
  <2>2. ASSUME NEW x \in Labels
        PROVE  DOMAIN SampleOf(r, x).value \in (SUBSET ValueGauge) \ {{}}
    <3>1. PICK s \in r.metrics : x = <<s.filesystem, s.target>>
      OBVIOUS
    <3>2. SampleOf(r, x) = s
      BY <3>1, SampleFound
    <3>3. DOMAIN s.value # {}
      BY DEF Promise!Admissible
    <3>4. s.value \in Partial(ValueGauge, Nat)
      BY <1>2 DEF Measured
    <3>5. PICK D \in SUBSET ValueGauge : s.value \in [D -> Nat]
      BY <3>4 DEF Partial
    <3> QED
      BY <3>2, <3>3, <3>5
  <2>3. Q.samples = [x \in Labels |-> DOMAIN SampleOf(r, x).value]
    BY DEF AsLustreResult
  <2>4. Q.samples \in [Labels -> (SUBSET ValueGauge) \ {{}}]
    BY <2>2, <2>3
  <2> QED
    BY <2>1, <2>4 DEF Partial
<1>6. \A x \in DOMAIN Q.samples : x[1] \in DOMAIN Q.filesystems \ Q.failed
  BY <1>1 DEF AsLustreResult
<1>7. Q \in LustreResult
  <2>1. Q = [filesystems |-> Q.filesystems, failed |-> Q.failed,
             samples |-> Q.samples]
    BY DEF AsLustreResult
  <2>2. Q.failed = failed /\ DOMAIN Q.filesystems = r.filesystems
    BY DEF AsLustreResult
  <2>3. Q.failed \in SUBSET Filesystem
    BY <1>2, <2>2
  <2> HIDE DEF Q
  <2> QED
    BY <1>4, <1>5, <1>6, <2>1, <2>2, <2>3 DEF LustreResult
<1>8. \A s \in r.metrics :
        Q.samples[<<s.filesystem, s.target>>] = DOMAIN s.value
  <2> TAKE s \in r.metrics
  <2>1. SampleOf(r, <<s.filesystem, s.target>>) = s
    BY SampleFound
  <2>2. <<s.filesystem, s.target>> \in Labels
    OBVIOUS
  <2>3. Q.samples = [x \in Labels |-> DOMAIN SampleOf(r, x).value]
    BY DEF AsLustreResult
  <2> HIDE DEF Labels, Q
  <2> QED
    BY <2>1, <2>2, <2>3
<1> QED
  BY <1>1, <1>3, <1>7, <1>8
=============================================================================
