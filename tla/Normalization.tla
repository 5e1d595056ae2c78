---------------------------- MODULE Normalization ----------------------------
(***************************************************************************)
(* normalize_lustre_metrics_response (azure_managed_lustre.py): an answer  *)
(* of Azure Monitor becomes one sample for each target with a value.       *)
(*                                                                         *)
(* The four kinds of samples (OST, OST operation, MDT, MDT operation) are  *)
(* made by the same lines four times over; here they are one kind.  A      *)
(* value is identified by the moment it was measured at.  Azure Monitor    *)
(* gives every point a timestamp, and the points of a series in order.     *)
(***************************************************************************)
EXTENDS Integers

CONSTANTS Metric,        \* the metrics that make up one kind of sample
          Available,     \* the one of them the capacity alerts are about
          Target,        \* values of the dimension, or "all" without one
          Unnamed,       \* a series whose dimension has no value
          Lookback       \* bound: the points of the lookback window

ASSUME NormalizationConstants ==
  /\ Available \in Metric
  /\ Unnamed \notin Target
  /\ Lookback \in Nat \ {0}

Time == 1..Lookback

\* For each metric and target the moments with an average that is not null.
Response == [Metric \X (Target \cup {Unnamed}) -> SUBSET Time]

\* _latest_average: the last point that is not null.
Latest(moments) ==
  CHOOSE t \in moments : \A u \in moments : u <= t

Reported(r, target) == {metric \in Metric : r[<<metric, target>>] # {}}

\* values[metric_name] of one target.
Values(r, target) ==
  [metric \in Reported(r, target) |-> Latest(r[<<metric, target>>])]

Stamps(r, target) ==
  {Values(r, target)[metric] : metric \in Reported(r, target)}

\* The maximum of the timestamps of a target's metrics.
Stamp(r, target) ==
  CHOOSE t \in Stamps(r, target) : \A u \in Stamps(r, target) : u <= t

\* The series of other dimensions than the target's are skipped.
Named(r) == {target \in Target : Reported(r, target) # {}}

Normalized(f, r) ==
  {[filesystem |-> f,
    target |-> target,
    value |-> Values(r, target),
    stamp |-> Stamp(r, target)] : target \in Named(r)}

Value == UNION {[M -> Time] : M \in SUBSET Metric}
=============================================================================
