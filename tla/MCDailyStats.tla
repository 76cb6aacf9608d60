---------------------------- MODULE MCDailyStats ----------------------------
(***************************************************************************)
(* Small instances of DailyStats, and what comments of the analytics code  *)
(* say of the rebuild and it does not do.                                  *)
(***************************************************************************)
EXTENDS DailyStats, TLC

MCSymmetry == Permutations(Orders) \cup Permutations(Rebuilds)

\* ordersLifecycle.ts: "If the increment is lost, a rebuild recovers it from
\* those columns": an undisturbed rebuild counts every cancellation of its days.
RebuildRecovers ==
  \A r \in Rebuilds : step[r] = "done" /\ quiet[r] =>
    \A d \in from[r]..to[r] :
      RowOf(d).cancelledOrders = Cardinality({o \in Orders : cancelled[o] = d})
=============================================================================
