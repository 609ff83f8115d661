------------------------- MODULE HookPipelineCounts -------------------------
(***************************************************************************)
(* The instruments of HookPipeline count the hook runs there were.         *)
(***************************************************************************)
EXTENDS HookPipelineProofs, FiniteSetTheorems

(* The hook runs the timeouts counter and the histogram look at.           *)
TimedOut == {r \in Runs : st[r[1]][r[2]] = "timeout"}
Settled  == {r \in Runs : st[r[1]][r[2]] \in Statuses}
Twice    == {r \in Runs : r[1] \in CountedTwice(r[2])}
Back     == {r \in Runs : r[1] \in WasRecovered(r[2])}

One(b) == IF b THEN 1 ELSE 0

(* Only a hook run that ended can have been recovered.                     *)
RecoveredInv == \A q \in Requests : \A i \in recovered[q] : st[q][i] \in Statuses

CountsInv == MetricsCountRuns /\ RecoveredInv

(* A step that ends no hook run: none becomes or ceases to be settled.     *)
Uncounted ==
    /\ metric' = metric /\ recovered' = recovered
    /\ \A q \in Requests, i \in Impls :
          /\ st'[q][i] \in Statuses \/ st[q][i] \in Statuses => st'[q][i] = st[q][i]
          /\ st[q][i] \in Statuses => (i \in unaudited'[q] <=> i \in unaudited[q])

(* A step that ends the run of i for q with status s.  A good one counts   *)
(* as "ok" and "error" when its audit entry cannot be opened: again, when  *)
(* it leaves the status, back, when the second attempt makes it an error.  *)
Counted(q, i, s, again, back) ==
    /\ st[q][i] \notin Statuses /\ st'[q][i] = s /\ s \in Statuses
    /\ \A p \in Requests, j \in Impls : p # q \/ j # i =>
          /\ st'[p][j] = st[p][j]
          /\ j \in unaudited'[p] <=> j \in unaudited[p]
          /\ j \in recovered'[p] <=> j \in recovered[p]
    /\ again <=> s = "ok" /\ i \in unaudited'[q]
    /\ back <=> i \in recovered'[q]
    /\ back => s = "error"
    /\ metric' = IF again \/ back THEN Recorded(Recorded(metric, i, "ok"), i, "error")
                 ELSE Recorded(metric, i, s)

(* What a counted step does to the instruments and to the sets of hook runs. *)
MetricGrew(i, s, again, back) ==
    /\ \A j \in Impls, t \in Statuses :
          metric'.executions[j][t] = metric.executions[j][t] + One(j = i /\ t = s)
                 + One(again /\ j = i /\ t = "error") + One(back /\ j = i /\ t = "ok")
    /\ metric'.observations = metric.observations + 1 + One(again) + One(back)
    /\ metric'.timeouts = metric.timeouts + One(s = "timeout")
    /\ \A j \in Impls :
          /\ metric'.errors[j] = metric.errors[j] + One(j = i /\ s = "error")
                                 + One(again /\ j = i)
          /\ metric'.blocked[j] = metric.blocked[j] + One(j = i /\ s = "blocked")

SetsGrew(i, s, again, back) ==
    /\ \A j \in Impls, t \in Statuses :
          /\ Cardinality(EndedWith(j, t))' = Cardinality(EndedWith(j, t)) + One(j = i /\ t = s)
          /\ Cardinality(EndedWith(j, t)) \in Nat
    /\ \A j \in Impls :
          /\ Cardinality(CountedTwice(j))' = Cardinality(CountedTwice(j)) + One(again /\ j = i)
          /\ Cardinality(CountedTwice(j)) \in Nat
    /\ \A j \in Impls :
          /\ Cardinality(WasRecovered(j))' = Cardinality(WasRecovered(j)) + One(back /\ j = i)
          /\ Cardinality(WasRecovered(j)) \in Nat
    /\ Cardinality(TimedOut)' = Cardinality(TimedOut) + One(s = "timeout")
    /\ Cardinality(Settled)' = Cardinality(Settled) + 1
    /\ Cardinality(Twice)' = Cardinality(Twice) + One(again)
    /\ Cardinality(Back)' = Cardinality(Back) + One(back)
    /\ Cardinality(TimedOut) \in Nat /\ Cardinality(Settled) \in Nat
    /\ Cardinality(Twice) \in Nat /\ Cardinality(Back) \in Nat

-----------------------------------------------------------------------------
(* The sets of hook runs are finite, and grow by one run at a time.        *)
LEMMA RunsFinite ==
    /\ \A i \in Impls, s \in Statuses : IsFiniteSet(EndedWith(i, s))
    /\ \A i \in Impls : IsFiniteSet(CountedTwice(i)) /\ IsFiniteSet(WasRecovered(i))
    /\ IsFiniteSet(TimedOut) /\ IsFiniteSet(Settled) /\ IsFiniteSet(Twice) /\ IsFiniteSet(Back)
<1>1. IsFiniteSet(Requests) /\ IsFiniteSet(Runs)
  BY FiniteAssumption, FS_Product DEF Runs
<1>2. /\ \A i \in Impls, s \in Statuses : EndedWith(i, s) \subseteq Requests
      /\ \A i \in Impls : CountedTwice(i) \subseteq Requests /\ WasRecovered(i) \subseteq Requests
      /\ TimedOut \subseteq Runs /\ Settled \subseteq Runs /\ Twice \subseteq Runs
      /\ Back \subseteq Runs
  BY DEF EndedWith, CountedTwice, WasRecovered, TimedOut, Settled, Twice, Back
<1> QED
  BY <1>1, <1>2, FS_Subset

LEMMA GrowsByOne ==
    ASSUME NEW S, NEW T, NEW x, NEW b \in BOOLEAN, IsFiniteSet(S), b => x \notin S,
           T = IF b THEN S \cup {x} ELSE S
    PROVE  Cardinality(T) = Cardinality(S) + One(b) /\ Cardinality(S) \in Nat
<1>1. Cardinality(S) \in Nat
  BY FS_CardinalityType
<1>2. CASE b
  BY <1>1, <1>2, FS_AddElement DEF One
<1>3. CASE ~b
  BY <1>1, <1>3 DEF One
<1> QED
  BY <1>2, <1>3

(* What one record() adds to each instrument.                              *)
LEMMA RecordedCounts ==
    ASSUME NEW m \in Meter, NEW i \in Impls, NEW s \in Statuses
    PROVE  /\ \A j \in Impls, t \in Statuses :
                 Recorded(m, i, s).executions[j][t] = m.executions[j][t] + One(j = i /\ t = s)
           /\ Recorded(m, i, s).observations = m.observations + 1
           /\ Recorded(m, i, s).timeouts = m.timeouts + One(s = "timeout")
           /\ \A j \in Impls :
                 /\ Recorded(m, i, s).errors[j] = m.errors[j] + One(j = i /\ s = "error")
                 /\ Recorded(m, i, s).blocked[j] = m.blocked[j] + One(j = i /\ s = "blocked")
<1>1. /\ m.executions \in [Impls -> [Statuses -> Nat]] /\ m.observations \in Nat
      /\ m.timeouts \in Nat /\ m.errors \in [Impls -> Nat] /\ m.blocked \in [Impls -> Nat]
  BY DEF Meter
<1> QED
  BY <1>1 DEF Recorded, Added, One

(* ... and what a counted step does.                                       *)
LEMMA CountedMetric ==
    ASSUME TypeOK, NEW q \in Requests, NEW i \in Impls, NEW s,
           NEW again \in BOOLEAN, NEW back \in BOOLEAN, Counted(q, i, s, again, back)
    PROVE  MetricGrew(i, s, again, back)
<1>1. /\ s \in Statuses /\ metric \in Meter /\ "error" \in Statuses /\ "ok" \in Statuses
      /\ Recorded(metric, i, "ok") \in Meter
  BY RecordedType DEF Counted, TypeOK, Statuses
<1>2. /\ again => s = "ok"
      /\ back => s = "error"
      /\ metric' = IF again \/ back THEN Recorded(Recorded(metric, i, "ok"), i, "error")
                   ELSE Recorded(metric, i, s)
  BY DEF Counted
<1>3. /\ \A j \in Impls, t \in Statuses : metric.executions[j][t] \in Nat
      /\ metric.observations \in Nat /\ metric.timeouts \in Nat
      /\ \A j \in Impls : metric.errors[j] \in Nat /\ metric.blocked[j] \in Nat
  BY <1>1 DEF Meter
<1>4. CASE ~(again \/ back)
  <2>1. metric' = Recorded(metric, i, s)
    BY <1>2, <1>4
  <2>2. One(FALSE) = 0
    BY DEF One
  <2> QED
    BY <1>1, <1>3, <1>4, <2>1, <2>2, RecordedCounts DEF One, MetricGrew
<1>5. CASE again \/ back
  <2> DEFINE m == Recorded(metric, i, "ok")
  <2>1. /\ \A j \in Impls, t \in Statuses :
              m.executions[j][t] = metric.executions[j][t] + One(j = i /\ t = "ok")
        /\ m.observations = metric.observations + 1
        /\ m.timeouts = metric.timeouts + One("ok" = "timeout")
        /\ \A j \in Impls :
              /\ m.errors[j] = metric.errors[j] + One(j = i /\ "ok" = "error")
              /\ m.blocked[j] = metric.blocked[j] + One(j = i /\ "ok" = "blocked")
    BY <1>1, RecordedCounts
  <2>2. /\ \A j \in Impls, t \in Statuses :
              Recorded(m, i, "error").executions[j][t] = m.executions[j][t] + One(j = i /\ t = "error")
        /\ Recorded(m, i, "error").observations = m.observations + 1
        /\ Recorded(m, i, "error").timeouts = m.timeouts + One("error" = "timeout")
        /\ \A j \in Impls :
              /\ Recorded(m, i, "error").errors[j] = m.errors[j] + One(j = i /\ "error" = "error")
              /\ Recorded(m, i, "error").blocked[j] = m.blocked[j] + One(j = i /\ "error" = "blocked")
    BY <1>1, RecordedCounts
  <2>3. metric' = Recorded(m, i, "error")
    BY <1>2, <1>5
  <2> HIDE DEF m
  <2>4. CASE again
    <3>1. s = "ok" /\ ~back
      BY <1>2, <2>4
    <3> QED
      BY <1>3, <2>1, <2>2, <2>3, <2>4, <3>1 DEF One, MetricGrew
  <2>5. CASE back
    <3>1. s = "error" /\ ~again
      BY <1>2, <2>5
    <3> QED
      BY <1>3, <2>1, <2>2, <2>3, <2>5, <3>1 DEF One, MetricGrew
  <2> QED
    BY <1>5, <2>4, <2>5
<1> QED
  BY <1>4, <1>5

(* ... and what it does to the sets of hook runs.                          *)
LEMMA CountedSets ==
    ASSUME TypeOK, SnapshotInv, RecoveredInv, NEW q \in Requests, NEW i \in Impls, NEW s,
           NEW again \in BOOLEAN, NEW back \in BOOLEAN, Counted(q, i, s, again, back)
    PROVE  SetsGrew(i, s, again, back)
<1>1. /\ st[q][i] \notin Statuses /\ st'[q][i] = s /\ s \in Statuses
      /\ \A p \in Requests, j \in Impls : p # q \/ j # i =>
            /\ st'[p][j] = st[p][j]
            /\ j \in unaudited'[p] <=> j \in unaudited[p]
            /\ j \in recovered'[p] <=> j \in recovered[p]
      /\ again <=> s = "ok" /\ i \in unaudited'[q]
      /\ back <=> i \in recovered'[q]
      /\ i \notin unaudited[q] /\ i \notin recovered[q]
  BY DEF Counted, SnapshotInv, RecoveredInv
<1>2. ASSUME NEW j \in Impls, NEW t \in Statuses
      PROVE  /\ Cardinality(EndedWith(j, t))' = Cardinality(EndedWith(j, t)) + One(j = i /\ t = s)
             /\ Cardinality(EndedWith(j, t)) \in Nat
  <2> DEFINE b == j = i /\ t = s
  <2>1. /\ EndedWith(j, t)' = IF b THEN EndedWith(j, t) \cup {q} ELSE EndedWith(j, t)
        /\ b => q \notin EndedWith(j, t)
    BY <1>1 DEF EndedWith
  <2> HIDE DEF b
  <2>2. b \in BOOLEAN
    BY DEF b
  <2>3. /\ Cardinality(EndedWith(j, t)') = Cardinality(EndedWith(j, t)) + One(b)
        /\ Cardinality(EndedWith(j, t)) \in Nat
    BY <2>1, <2>2, RunsFinite, GrowsByOne
  <2> QED
    BY <2>3 DEF b
<1>3. ASSUME NEW j \in Impls
      PROVE  /\ Cardinality(CountedTwice(j))' = Cardinality(CountedTwice(j)) + One(again /\ j = i)
             /\ Cardinality(CountedTwice(j)) \in Nat
  <2> DEFINE b == again /\ j = i
  <2>1. /\ CountedTwice(j)' = IF b THEN CountedTwice(j) \cup {q} ELSE CountedTwice(j)
        /\ b => q \notin CountedTwice(j)
    BY <1>1 DEF CountedTwice, Statuses
  <2> HIDE DEF b
  <2>2. b \in BOOLEAN
    BY DEF b
  <2>3. /\ Cardinality(CountedTwice(j)') = Cardinality(CountedTwice(j)) + One(b)
        /\ Cardinality(CountedTwice(j)) \in Nat
    BY <2>1, <2>2, RunsFinite, GrowsByOne
  <2> QED
    BY <2>3 DEF b
<1>8. ASSUME NEW j \in Impls
      PROVE  /\ Cardinality(WasRecovered(j))' = Cardinality(WasRecovered(j)) + One(back /\ j = i)
             /\ Cardinality(WasRecovered(j)) \in Nat
  <2> DEFINE b == back /\ j = i
  <2>1. /\ WasRecovered(j)' = IF b THEN WasRecovered(j) \cup {q} ELSE WasRecovered(j)
        /\ b => q \notin WasRecovered(j)
    BY <1>1 DEF WasRecovered
  <2> HIDE DEF b
  <2>2. b \in BOOLEAN
    BY DEF b
  <2>3. /\ Cardinality(WasRecovered(j)') = Cardinality(WasRecovered(j)) + One(b)
        /\ Cardinality(WasRecovered(j)) \in Nat
    BY <2>1, <2>2, RunsFinite, GrowsByOne
  <2> QED
    BY <2>3 DEF b
<1> DEFINE r == <<q, i>>
<1>4. r \in Runs /\ \A p \in Runs : p # r => p[1] \in Requests /\ p[2] \in Impls /\ (p[1] # q \/ p[2] # i)
  BY DEF Runs
<1>5. /\ Cardinality(TimedOut)' = Cardinality(TimedOut) + One(s = "timeout")
      /\ Cardinality(TimedOut) \in Nat
  <2> DEFINE b == s = "timeout"
  <2>1. /\ TimedOut' = IF b THEN TimedOut \cup {r} ELSE TimedOut
        /\ b => r \notin TimedOut
    BY <1>1, <1>4 DEF TimedOut, Statuses
  <2> HIDE DEF b
  <2>2. b \in BOOLEAN
    BY DEF b
  <2>3. Cardinality(TimedOut') = Cardinality(TimedOut) + One(b) /\ Cardinality(TimedOut) \in Nat
    BY <2>1, <2>2, RunsFinite, GrowsByOne
  <2> QED
    BY <2>3 DEF b
<1>6. Cardinality(Settled)' = Cardinality(Settled) + 1 /\ Cardinality(Settled) \in Nat
  <2>1. Settled' = Settled \cup {r} /\ r \notin Settled
    BY <1>1, <1>4 DEF Settled
  <2> QED
    BY <2>1, RunsFinite, FS_AddElement, FS_CardinalityType
<1>7. Cardinality(Twice)' = Cardinality(Twice) + One(again) /\ Cardinality(Twice) \in Nat
  <2>1. /\ Twice' = IF again THEN Twice \cup {r} ELSE Twice
        /\ again => r \notin Twice
    BY <1>1, <1>4 DEF Twice, CountedTwice, Statuses
  <2> QED
    BY <2>1, RunsFinite, GrowsByOne
<1>9. Cardinality(Back)' = Cardinality(Back) + One(back) /\ Cardinality(Back) \in Nat
  <2>1. /\ Back' = IF back THEN Back \cup {r} ELSE Back
        /\ back => r \notin Back
    BY <1>1, <1>4 DEF Back, WasRecovered
  <2> QED
    BY <2>1, RunsFinite, GrowsByOne
<1> QED
  BY <1>2, <1>3, <1>5, <1>6, <1>7, <1>8, <1>9 DEF SetsGrew

-----------------------------------------------------------------------------
(* A step that ends no run leaves every count as it was.                   *)
LEMMA UncountedKeeps ==
    ASSUME TypeOK, MetricsCountRuns, Uncounted
    PROVE  MetricsCountRuns'
<1>1. /\ \A j \in Impls, t \in Statuses : EndedWith(j, t)' = EndedWith(j, t)
      /\ \A j \in Impls : CountedTwice(j)' = CountedTwice(j) /\ WasRecovered(j)' = WasRecovered(j)
  BY DEF Uncounted, EndedWith, CountedTwice, WasRecovered, Statuses
<1>2. TimedOut' = TimedOut /\ Settled' = Settled /\ Twice' = Twice /\ Back' = Back
  BY <1>1 DEF Uncounted, TimedOut, Settled, Twice, Back, Runs, Statuses
<1>3. /\ metric' = metric /\ metric.timeouts = Cardinality(TimedOut)
      /\ metric.observations = Cardinality(Settled) + Cardinality(Twice) + Cardinality(Back)
  BY DEF MetricsCountRuns, Uncounted, TimedOut, Settled, Twice, Back
<1>4. /\ metric'.timeouts = Cardinality(TimedOut')
      /\ metric'.observations = Cardinality(Settled') + Cardinality(Twice') + Cardinality(Back')
  BY <1>2, <1>3
<1>5. \A i \in Impls, s \in Statuses :
         metric'.executions[i][s] = Cardinality(EndedWith(i, s))'
                       + (IF s = "error" THEN Cardinality(CountedTwice(i))' ELSE 0)
                       + (IF s = "ok" THEN Cardinality(WasRecovered(i))' ELSE 0)
  BY <1>1, <1>3 DEF MetricsCountRuns
<1>6. \A i \in Impls : /\ metric'.errors[i] = metric'.executions[i]["error"]
                       /\ metric'.blocked[i] = metric'.executions[i]["blocked"]
  BY <1>3 DEF MetricsCountRuns
<1> QED
  BY <1>4, <1>5, <1>6 DEF MetricsCountRuns, TimedOut, Settled, Twice, Back

LEMMA CountedKeeps ==
    ASSUME TypeOK, SnapshotInv, MetricsCountRuns, RecoveredInv,
           NEW q \in Requests, NEW i \in Impls, NEW s,
           NEW again \in BOOLEAN, NEW back \in BOOLEAN, Counted(q, i, s, again, back)
    PROVE  MetricsCountRuns'
<1>4. MetricGrew(i, s, again, back)
  BY CountedMetric
<1>5. SetsGrew(i, s, again, back)
  BY CountedSets
<1>0. /\ metric.timeouts = Cardinality(TimedOut)
      /\ metric.observations = Cardinality(Settled) + Cardinality(Twice) + Cardinality(Back)
  BY DEF MetricsCountRuns, TimedOut, Settled, Twice, Back
<1>1. /\ metric'.timeouts = Cardinality(TimedOut)'
      /\ metric'.observations = Cardinality(Settled)' + Cardinality(Twice)' + Cardinality(Back)'
  BY <1>0, <1>4, <1>5 DEF One, MetricGrew, SetsGrew
<1>2. ASSUME NEW j \in Impls, NEW t \in Statuses
      PROVE  metric'.executions[j][t] = Cardinality(EndedWith(j, t))'
                       + (IF t = "error" THEN Cardinality(CountedTwice(j))' ELSE 0)
                       + (IF t = "ok" THEN Cardinality(WasRecovered(j))' ELSE 0)
  <2>1. metric.executions[j][t] = Cardinality(EndedWith(j, t))
                       + (IF t = "error" THEN Cardinality(CountedTwice(j)) ELSE 0)
                       + (IF t = "ok" THEN Cardinality(WasRecovered(j)) ELSE 0)
    BY DEF MetricsCountRuns
  <2>2. metric'.executions[j][t] = metric.executions[j][t] + One(j = i /\ t = s)
                        + One(again /\ j = i /\ t = "error") + One(back /\ j = i /\ t = "ok")
    BY <1>4 DEF MetricGrew
  <2>3. /\ Cardinality(EndedWith(j, t))' = Cardinality(EndedWith(j, t)) + One(j = i /\ t = s)
        /\ Cardinality(CountedTwice(j))' = Cardinality(CountedTwice(j)) + One(again /\ j = i)
        /\ Cardinality(WasRecovered(j))' = Cardinality(WasRecovered(j)) + One(back /\ j = i)
        /\ Cardinality(EndedWith(j, t)) \in Nat /\ Cardinality(CountedTwice(j)) \in Nat
        /\ Cardinality(WasRecovered(j)) \in Nat
    BY <1>5 DEF SetsGrew
  <2> QED
    BY <2>1, <2>2, <2>3 DEF One
<1>3. ASSUME NEW j \in Impls
      PROVE  /\ metric'.errors[j] = metric'.executions[j]["error"]
             /\ metric'.blocked[j] = metric'.executions[j]["blocked"]
  <2>1. "error" \in Statuses /\ "blocked" \in Statuses
    BY DEF Statuses
  <2>2. /\ metric.errors[j] = metric.executions[j]["error"]
        /\ metric.blocked[j] = metric.executions[j]["blocked"]
        /\ metric.executions[j]["error"] \in Nat /\ metric.executions[j]["blocked"] \in Nat
    BY <2>1 DEF MetricsCountRuns, TypeOK, Meter
  <2>3. /\ metric'.executions[j]["error"] = metric.executions[j]["error"] + One(j = i /\ "error" = s)
                + One(again /\ j = i /\ "error" = "error") + One(back /\ j = i /\ "error" = "ok")
        /\ metric'.executions[j]["blocked"] = metric.executions[j]["blocked"]
                + One(j = i /\ "blocked" = s) + One(again /\ j = i /\ "blocked" = "error")
                + One(back /\ j = i /\ "blocked" = "ok")
        /\ metric'.errors[j] = metric.errors[j] + One(j = i /\ s = "error") + One(again /\ j = i)
        /\ metric'.blocked[j] = metric.blocked[j] + One(j = i /\ s = "blocked")
    BY <1>4, <2>1 DEF MetricGrew
  <2> QED
    BY <2>2, <2>3 DEF One
<1> QED
  BY <1>1, <1>2, <1>3 DEF MetricsCountRuns, TimedOut, Settled, Twice, Back

-----------------------------------------------------------------------------
(* Every step of a _run_one ends no run, or counts the one it ends.        *)
LEMMA StepCounts ==
    ASSUME PipelineInv, RecoveredInv, NEW q \in Requests, NEW i \in Impls, Step(q, i)
    PROVE  \/ Uncounted
           \/ \E s \in Statuses, again \in BOOLEAN, back \in BOOLEAN : Counted(q, i, s, again, back)
<1> USE DEF PipelineInv, TypeInv, TypeOK
<1> DEFINE Quiet == \/ Enter(q, i) \/ Expire(q, i) \/ Abandon(q, i)
                    \/ OwnCancel(q, i) \/ OrphanEnds(q, i)
<1>0. /\ st[q][i] \in Active \cup {"queued", "orphaned"} => st[q][i] \notin Statuses
      /\ st[q][i] \in Active => i \notin recovered[q]
  BY DEF Active, Statuses, RecoveredInv
<1>1. CASE Quiet
  <2>1. PICK s \in {"running", "expired", "cancelled"} : st' = [st EXCEPT ![q][i] = s]
    BY <1>1 DEF Enter, Expire, Abandon, OwnCancel, OrphanEnds, Settle
  <2>2. UNCHANGED <<metric, unaudited, recovered>> /\ st[q][i] \notin Statuses /\ s \notin Statuses
    BY <1>0, <1>1 DEF Enter, Expire, Abandon, OwnCancel, OrphanEnds, Active, Statuses
  <2>3. \A p \in Requests, j \in Impls :
           st'[p][j] = IF p = q /\ j = i THEN s ELSE st[p][j]
    BY <2>1
  <2> QED
    BY <2>2, <2>3 DEF Uncounted
<1>2. ASSUME NEW s \in Statuses, st[q][i] \in Active, Settle(q, i, s), Count(i, s),
             UNCHANGED <<unaudited, recovered>>
      PROVE  Counted(q, i, s, FALSE, FALSE)
  BY <1>0, <1>2 DEF Settle, Count, Counted, SnapshotInv
<1>3. CASE Return(q, i)
  BY <1>2, <1>3 DEF Return, Heard, Audit, Statuses
<1>4. CASE Fail(q, i) \/ OwnTimeout(q, i) \/ Unwind(q, i)
  BY <1>2, <1>4 DEF Fail, OwnTimeout, Unwind, Heard, Degrade, Audit, Active, Statuses
<1>5. CASE Block(q, i) \/ Skip(q, i)
  BY <1>2, <1>5 DEF Block, Skip, Heard, Audit, Statuses
<1>6. ASSUME NEW s \in Statuses \ {"skip"}, AuditFails(q, i, s)
      PROVE  Counted(q, i, s, s = "ok", FALSE)
  BY <1>0, <1>6 DEF AuditFails, Heard, Settle, Counted
<1>7. CASE AuditRecovers(q, i)
  <2>1. /\ st[q][i] \notin Statuses /\ "error" \in Statuses
        /\ st' = [st EXCEPT ![q][i] = "error"] /\ unaudited' = unaudited
        /\ recovered' = [recovered EXCEPT ![q] = @ \cup {i}]
        /\ metric' = Recorded(Recorded(metric, i, "ok"), i, "error")
    BY <1>0, <1>7 DEF AuditRecovers, Heard, Settle, Audit, Statuses
  <2>2. Counted(q, i, "error", FALSE, TRUE)
    BY <2>1 DEF Counted
  <2> QED
    BY <2>1, <2>2
<1> QED
  BY <1>1, <1>3, <1>2, <1>4, <1>5, <1>6, <1>7 DEF Step

(* The other steps end no run.                                             *)
LEMMA OthersCountNothing ==
    ASSUME PipelineInv, [Next]_vars,
           ~\E q \in Requests, i \in Impls : Step(q, i)
    PROVE  Uncounted
<1> USE DEF PipelineInv, TypeInv, TypeOK, Uncounted
<1>1. ASSUME NEW q \in Requests, NEW c \in Contexts, Run(q, c) PROVE Uncounted
  <2>1. \A i \in Impls : st[q][i] = "none" /\ st'[q][i] \in {"queued", "none"}
    BY <1>1 DEF Run, SnapshotInv
  <2>2. \A p \in Requests \ {q} : st'[p] = st[p]
    BY <1>1 DEF Run
  <2> QED
    BY <1>1, <2>1, <2>2 DEF Run, Statuses
<1>2. ASSUME NEW q \in Requests, Cancel(q) PROVE Uncounted
  <2>1. \A i \in Impls : \/ st'[q][i] = st[q][i]
                         \/ /\ st[q][i] \in Active \cup {"queued"}
                            /\ st'[q][i] \in {"cancelling", "orphaned", "cancelled"}
    BY <1>2 DEF Cancel, Thrown
  <2>2. \A p \in Requests \ {q} : st'[p] = st[p]
    BY <1>2 DEF Cancel
  <2> QED
    BY <1>2, <2>1, <2>2 DEF Cancel, Statuses, Active
<1>3. ASSUME NEW i \in Impls, Implement(i) PROVE Uncounted
  BY <1>3 DEF Implement
<1>4. ASSUME NEW q \in Requests, Merge(q) \/ GatherCancelled(q) PROVE Uncounted
  BY <1>4 DEF Merge, GatherCancelled
<1>5. CASE UNCHANGED vars
  BY <1>5 DEF vars
<1> QED
  BY <1>1, <1>2, <1>3, <1>4, <1>5 DEF Next

(* What a step does to the recovered runs: only ended ones join them.      *)
LEMMA RecoveredKeeps ==
    ASSUME RecoveredInv,
           \/ Uncounted
           \/ \E q \in Requests, i \in Impls, s \in Statuses, again \in BOOLEAN, back \in BOOLEAN :
                 Counted(q, i, s, again, back)
    PROVE  TypeOK /\ TypeOK' => RecoveredInv'
<1> SUFFICES ASSUME TypeOK, TypeOK', NEW p \in Requests, NEW j \in recovered'[p]
             PROVE  st'[p][j] \in Statuses
  BY DEF RecoveredInv
<1>1. j \in Impls
  BY DEF TypeOK
<1>2. CASE Uncounted
  BY <1>1, <1>2 DEF Uncounted, RecoveredInv
<1>3. ASSUME NEW q \in Requests, NEW i \in Impls, NEW s \in Statuses, NEW again \in BOOLEAN,
             NEW back \in BOOLEAN, Counted(q, i, s, again, back)
      PROVE  st'[p][j] \in Statuses
  BY <1>1, <1>3 DEF Counted, RecoveredInv
<1> QED
  BY <1>2, <1>3

(* The instruments count the hook runs that ended, by status, whatever the *)
(* interleaving of requests, with the one exception the property names.    *)
THEOREM MetricsTheorem == Spec => []MetricsCountRuns
<1>1. Init => CountsInv
  <2> SUFFICES ASSUME Init PROVE CountsInv
    OBVIOUS
  <2>1. /\ \A q \in Requests, i \in Impls : st[q][i] = "none"
        /\ "none" \notin Statuses
    BY DEF Init, Statuses
  <2>2. /\ \A j \in Impls, t \in Statuses : EndedWith(j, t) = {}
        /\ \A j \in Impls : CountedTwice(j) = {} /\ WasRecovered(j) = {}
        /\ {r \in Runs : st[r[1]][r[2]] = "timeout"} = {}
        /\ {r \in Runs : st[r[1]][r[2]] \in Statuses} = {}
    BY <2>1 DEF Init, EndedWith, CountedTwice, WasRecovered, Runs, Statuses
  <2>3. /\ {r \in Runs : r[1] \in CountedTwice(r[2])} = {}
        /\ {r \in Runs : r[1] \in WasRecovered(r[2])} = {}
    BY <2>2 DEF Runs
  <2>4. Cardinality({}) = 0
    BY FS_EmptySet
  <2>5. /\ \A j \in Impls, t \in Statuses : metric.executions[j][t] = 0
        /\ \A j \in Impls : metric.errors[j] = 0 /\ metric.blocked[j] = 0
        /\ metric.timeouts = 0 /\ metric.observations = 0
    BY DEF Init, Fresh
  <2>6. "error" \in Statuses /\ "blocked" \in Statuses
    BY DEF Statuses
  <2>7. /\ \A j \in Impls, t \in Statuses : Cardinality(EndedWith(j, t)) = 0
        /\ \A j \in Impls : Cardinality(CountedTwice(j)) = 0 /\ Cardinality(WasRecovered(j)) = 0
        /\ Cardinality({r \in Runs : st[r[1]][r[2]] = "timeout"}) = 0
        /\ Cardinality({r \in Runs : st[r[1]][r[2]] \in Statuses}) = 0
        /\ Cardinality({r \in Runs : r[1] \in CountedTwice(r[2])}) = 0
        /\ Cardinality({r \in Runs : r[1] \in WasRecovered(r[2])}) = 0
    BY <2>2, <2>3, <2>4, Zenon
  <2>8. \A i \in Impls, s \in Statuses :
           metric.executions[i][s] = Cardinality(EndedWith(i, s))
                       + (IF s = "error" THEN Cardinality(CountedTwice(i)) ELSE 0)
                       + (IF s = "ok" THEN Cardinality(WasRecovered(i)) ELSE 0)
    BY <2>7, <2>5
  <2>9. \A i \in Impls : /\ metric.errors[i] = metric.executions[i]["error"]
                         /\ metric.blocked[i] = metric.executions[i]["blocked"]
    BY <2>5, <2>6
  <2>10. /\ metric.timeouts = Cardinality({r \in Runs : st[r[1]][r[2]] = "timeout"})
        /\ metric.observations = Cardinality({r \in Runs : st[r[1]][r[2]] \in Statuses})
                             + Cardinality({r \in Runs : r[1] \in CountedTwice(r[2])})
                             + Cardinality({r \in Runs : r[1] \in WasRecovered(r[2])})
    BY <2>7, <2>5
  <2>11. RecoveredInv
    BY DEF Init, RecoveredInv
  <2> QED
    BY <2>8, <2>9, <2>10, <2>11 DEF MetricsCountRuns, CountsInv
<1>2. PipelineInv /\ CountsInv /\ [Next]_vars => CountsInv'
  <2> SUFFICES ASSUME PipelineInv, CountsInv, [Next]_vars PROVE CountsInv'
    OBVIOUS
  <2>0. TypeOK /\ TypeOK' /\ SnapshotInv /\ MetricsCountRuns /\ RecoveredInv
    BY TypeStep DEF PipelineInv, TypeInv, CountsInv
  <2>1. CASE Uncounted
    <3>1. MetricsCountRuns'
      BY <2>0, <2>1, UncountedKeeps
    <3> QED
      BY <2>0, <2>1, <3>1, RecoveredKeeps DEF CountsInv
  <2>2. ASSUME NEW q \in Requests, NEW i \in Impls, NEW s \in Statuses,
               NEW again \in BOOLEAN, NEW back \in BOOLEAN, Counted(q, i, s, again, back)
        PROVE  CountsInv'
    <3>1. MetricsCountRuns'
      BY <2>0, <2>2, CountedKeeps
    <3> QED
      BY <2>0, <2>2, <3>1, RecoveredKeeps DEF CountsInv
  <2>3. CASE \E q \in Requests, i \in Impls : Step(q, i)
    BY <2>0, <2>1, <2>2, <2>3, StepCounts
  <2>4. CASE ~\E q \in Requests, i \in Impls : Step(q, i)
    BY <2>0, <2>1, <2>4, OthersCountNothing
  <2> QED
    BY <2>3, <2>4
<1>3. CountsInv => MetricsCountRuns
  BY DEF CountsInv
<1> QED
  BY <1>1, <1>2, <1>3, Invariance, PTL DEF Spec
=============================================================================
