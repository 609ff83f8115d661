-------------------------- MODULE HookPipelineAnswers --------------------------
(***************************************************************************)
(* More theorems about HookPipeline: what the agent gets as its answer,    *)
(* and what the audit tells about it.  They rest on PipelineInv, the       *)
(* inductive invariant of HookPipelineProofs.                              *)
(***************************************************************************)
EXTENDS HookPipelineProofs

(* While a parallel request runs it carries the agent's context; a body    *)
(* that runs was given what its executor carries; a cancelled gather       *)
(* starts nothing any more.                                                *)
CarriedInv(q) ==
    /\ phase[q] = "parallel" => value[q] = asked[q]
    /\ phase[q] \in Live =>
          \A i \in Impls : st[q][i] \in Active => in[q][i] = value[q]
    /\ phase[q] = "gathering" => \A i \in Impls : st[q][i] # "queued"

AnswerInv(q) ==
    /\ CarriedInv(q)
    /\ phase[q] = "delivered" => Complete(q)
    /\ phase[q] = "raised" => Earned(q)
    /\ Sequential(q) => LastGoodIsCarried(q)
    /\ phase[q] = "delivered" /\ RunsParallel(plan[q]) /\ plan[q] # {} => RankedMerge(q)
    /\ EntriesTell(q)

-----------------------------------------------------------------------------
(* Nothing of a request moves.                                             *)
Same(q) ==
    /\ phase'[q] = phase[q] /\ cause'[q] = cause[q] /\ plan'[q] = plan[q]
    /\ st'[q] = st[q] /\ in'[q] = in[q] /\ out'[q] = out[q]
    /\ unaudited'[q] = unaudited[q] /\ value'[q] = value[q] /\ asked'[q] = asked[q]
    /\ log'[q] = log[q]
    /\ \A i, j \in plan[q] : Before(i, j)' <=> Before(i, j)

(* The implementations that count are in the snapshot.                     *)
LEMMA InPlan ==
    ASSUME PipelineInv, NEW q \in Requests
    PROVE  /\ plan[q] \subseteq Impls /\ Good(q) \subseteq plan[q] /\ Begun(q) \subseteq plan[q]
           /\ \A i \in Impls : st[q][i] # "none" => i \in plan[q]
           /\ log[q] \in Seq(Entry)
           /\ \A n \in DOMAIN log[q] : log[q][n].impl \in Impls
                                       /\ log[q][n].status \in Statuses \ {"skip"}
<1>1. log[q] \in Seq(Entry)
  BY DEF PipelineInv, TypeInv, TypeOK
<1>2. \A n \in DOMAIN log[q] : log[q][n] \in Entry
  BY <1>1
<1> QED
  BY <1>1, <1>2 DEF PipelineInv, TypeInv, TypeOK, SnapshotInv, Good, Begun, Entry

(* Whatever is in the audit has ended.                                     *)
LEMMA Logged ==
    ASSUME PipelineInv, NEW q \in Requests, EntriesTell(q), NEW n \in DOMAIN log[q]
    PROVE  log[q][n].impl \in Impls /\ st[q][log[q][n].impl] \in Statuses \ {"skip"}
BY InPlan DEF EntriesTell

LEMMA SameKeeps ==
    ASSUME PipelineInv, NEW q \in Requests, Same(q), AnswerInv(q)
    PROVE  AnswerInv(q)'
<1>1. Good(q)' = Good(q) /\ Begun(q)' = Begun(q)
  BY DEF Same, Good, Begun
<1>2. Sequential(q)' <=> Sequential(q)
  BY DEF Same, Sequential, RunsParallel
<1>3. \A i \in Impls : Proceeded(q, i)' <=> Proceeded(q, i)
  BY DEF Same, Proceeded
<1>4. CarriedInv(q)'
  BY DEF Same, AnswerInv, CarriedInv
<1>5. phase'[q] = "delivered" => Complete(q)'
  BY <1>1, <1>2, <1>3, InPlan DEF Same, AnswerInv, Complete
<1>6. phase'[q] = "raised" => Earned(q)'
  BY DEF Same, AnswerInv, Earned
<1>7. Sequential(q)' => LastGoodIsCarried(q)'
  BY <1>1, <1>2, InPlan DEF Same, AnswerInv, LastGoodIsCarried, IsLast
<1>8. phase'[q] = "delivered" /\ RunsParallel(plan[q])' /\ plan'[q] # {} => RankedMerge(q)'
  BY <1>1, InPlan DEF Same, AnswerInv, RankedMerge, RunsParallel
<1>9. EntriesTell(q)'
  <2>1. \A n \in DOMAIN log[q] : log[q][n].impl \in plan[q]
    BY InPlan DEF AnswerInv, EntriesTell, Statuses
  <2> QED
    BY <1>2, <2>1 DEF Same, AnswerInv, EntriesTell
<1> QED
  BY <1>4, <1>5, <1>6, <1>7, <1>8, <1>9 DEF AnswerInv

-----------------------------------------------------------------------------
(* Steps of one _run_one *)

(* They leave the other requests, the snapshot and the rest of st alone.   *)
Aside(q, i) ==
    /\ position' = position /\ plan' = plan /\ asked' = asked
    /\ \A j \in Impls \ {i} : /\ st'[q][j] = st[q][j] /\ in'[q][j] = in[q][j]
                              /\ out'[q][j] = out[q][j]
                              /\ j \in unaudited'[q] <=> j \in unaudited[q]
    /\ unaudited'[q] \subseteq Impls

LEMMA StepAside ==
    ASSUME PipelineInv, NEW q \in Requests, NEW i \in Impls, Step(q, i)
    PROVE  Aside(q, i) /\ \A p \in Requests \ {q} : Same(p)
<1> USE DEF PipelineInv, TypeInv, TypeOK, Aside, Same, Before
<1>1. CASE Enter(q, i)
  BY <1>1 DEF Enter
<1>2. CASE Return(q, i)
  <2>1. PICK v \in Results(i, in[q][i]) : out' = [out EXCEPT ![q][i] = v] /\ GoOn(q, v)
    BY <1>2 DEF Return
  <2> QED
    BY <1>2, <2>1 DEF Return, Settle, Count, Audit, GoOn, SpanOpens
<1>3. CASE Fail(q, i) \/ OwnTimeout(q, i) \/ Unwind(q, i)
  BY <1>3 DEF Fail, OwnTimeout, Unwind, Degrade, Settle, Count, Audit, GoOn, SpanOpens, Escape
<1>4. CASE Expire(q, i)
  BY <1>4 DEF Expire
<1>5. CASE Block(q, i)
  BY <1>5 DEF Block, Settle, Count, Audit, Escape
<1>6. CASE Skip(q, i)
  BY <1>6 DEF Skip, Settle, Count
<1>7. ASSUME NEW s \in Statuses \ {"skip"}, AuditFails(q, i, s)
      PROVE  Aside(q, i) /\ \A p \in Requests \ {q} : Same(p)
  BY <1>7 DEF AuditFails, Settle, Escape
<1>8. CASE Abandon(q, i) \/ OwnCancel(q, i) \/ OrphanEnds(q, i)
  BY <1>8 DEF Abandon, OwnCancel, OrphanEnds, Escape, Settle
<1>9. CASE AuditRecovers(q, i)
  BY <1>9 DEF AuditRecovers, Settle, Audit, GoOn, SpanOpens, Escape
<1> QED
  BY <1>1, <1>2, <1>3, <1>4, <1>5, <1>6, <1>7, <1>8, <1>9 DEF Step

(* Everything a sequential request has begun stands in front of the body   *)
(* that runs, and let the pipeline go on; outside the executors none runs. *)
LEMMA OthersBefore ==
    ASSUME PipelineInv, NEW q \in Requests, NEW i \in Impls, st[q][i] \in Active
    PROVE  /\ phase[q] \in Live /\ i \in plan[q] /\ i \in Begun(q)
           /\ i \notin Good(q) /\ i \notin unaudited[q]
           /\ phase[q] = "sequential" => Sequential(q)
           /\ phase[q] # "sequential" => ~Sequential(q)
           /\ phase[q] = "sequential" =>
                 \A j \in Begun(q) \ {i} : /\ st[q][j] \notin Active
                                           /\ Before(j, i) /\ ~Before(i, j) /\ Proceeded(q, j)
<1> USE DEF PipelineInv
<1>1. /\ phase[q] \in Live /\ i \in plan[q] /\ i \in Begun(q) /\ i \in Running(q)
      /\ i \notin Good(q) /\ i \notin unaudited[q] /\ ~Proceeded(q, i)
  BY DEF QuietInv, SnapshotInv, Running, Begun, Good, Active, Proceeded, Statuses
<1>2. (phase[q] = "sequential") <=> Sequential(q)
  BY <1>1 DEF ModeInv, Live
<1>3. ASSUME phase[q] = "sequential", NEW j \in Begun(q) \ {i}
      PROVE  /\ st[q][j] \notin Active
             /\ Before(j, i) /\ ~Before(i, j) /\ Proceeded(q, j)
  <2>1. j \in plan[q] /\ j \in Impls
    BY InPlan
  <2>2. st[q][j] \notin Active
    BY <1>1, <1>3, <2>1, OneAtATime DEF Running
  <2>3. Proceeded(q, j)
    BY <1>3, <2>2 DEF FlowInv
  <2>4. ~Before(i, j)
    BY <1>1, <1>2, <1>3 DEF InOrder
  <2> QED
    BY <1>1, <2>1, <2>2, <2>3, <2>4, BeforeTotal
<1> QED
  BY <1>1, <1>2, <1>3

(* A body begins, or its timer fires, or its orphan ends.                  *)
LEMMA QuietStep ==
    ASSUME PipelineInv, NEW q \in Requests, NEW i \in Impls, AnswerInv(q),
           Enter(q, i) \/ Expire(q, i) \/ OrphanEnds(q, i)
    PROVE  AnswerInv(q)'
<1> USE DEF PipelineInv, TypeInv, TypeOK
<1>1. /\ phase' = phase /\ cause' = cause /\ value' = value /\ out' = out /\ plan' = plan
      /\ unaudited' = unaudited /\ log' = log /\ asked' = asked /\ position' = position
      /\ st[q][i] \in {"queued", "running", "orphaned"}
      /\ st'[q][i] \in {"running", "expired", "cancelled"}
      /\ \A j \in Impls \ {i} : st'[q][j] = st[q][j] /\ in'[q][j] = in[q][j]
      /\ Enter(q, i) => in'[q][i] = value[q]
      /\ Expire(q, i) => in'[q][i] = in[q][i] /\ st[q][i] = "running"
      /\ OrphanEnds(q, i) => st'[q][i] = "cancelled"
  BY DEF Enter, Expire, OrphanEnds, Settle
<1>2. phase[q] \notin {"delivered", "raised"} /\ plan[q] \subseteq Impls
  <2>1. CASE Enter(q, i) \/ Expire(q, i)
    BY <2>1, OthersBefore DEF Enter, Expire, Live, Active
  <2>2. CASE OrphanEnds(q, i)
    BY <2>2 DEF OrphanEnds, OrphanInv
  <2> QED
    BY <2>1, <2>2
<1>3. \A j, k \in Impls : Before(j, k)' <=> Before(j, k)
  BY <1>1 DEF Before
<1>4. Good(q)' = Good(q) /\ (Sequential(q)' <=> Sequential(q)) /\ Good(q) \subseteq Impls
  BY <1>1 DEF Good, Sequential, RunsParallel
<1>5. CarriedInv(q)'
  BY <1>1 DEF AnswerInv, CarriedInv, Active
<1>6. Sequential(q)' => LastGoodIsCarried(q)'
  BY <1>1, <1>3, <1>4 DEF AnswerInv, LastGoodIsCarried, IsLast
<1>7. EntriesTell(q)'
  <2>1. \A n \in DOMAIN log[q] : log[q][n].impl \in Impls \ {i}
    <3> SUFFICES ASSUME NEW n \in DOMAIN log[q] PROVE log[q][n].impl \in Impls \ {i}
      OBVIOUS
    <3>1. log[q][n].impl \in Impls /\ st[q][log[q][n].impl] \in Statuses
      BY Logged DEF AnswerInv
    <3>2. st[q][i] \notin Statuses
      BY <1>1 DEF Statuses
    <3> QED
      BY <3>1, <3>2
  <2>2. st'[q][i] \notin Statuses
    BY <1>1 DEF Statuses
  <2>3. \A n \in DOMAIN log[q] : /\ st'[q][log[q][n].impl] = log[q][n].status
                                 /\ log[q][n].impl \notin unaudited[q]
    BY <1>1, <2>1 DEF AnswerInv, EntriesTell
  <2>4. \A j \in Impls : st'[q][j] \in Statuses \ {"skip"} /\ j \notin unaudited[q] =>
           \E n \in DOMAIN log[q] : log[q][n].impl = j
    BY <1>1, <2>2 DEF AnswerInv, EntriesTell
  <2>5. \A m, n \in DOMAIN log[q] : m < n =>
           IF Sequential(q)' THEN Before(log[q][m].impl, log[q][n].impl)'
           ELSE log[q][m].impl # log[q][n].impl
    <3> SUFFICES ASSUME NEW m \in DOMAIN log[q], NEW n \in DOMAIN log[q], m < n
                 PROVE  IF Sequential(q)' THEN Before(log[q][m].impl, log[q][n].impl)'
                        ELSE log[q][m].impl # log[q][n].impl
      OBVIOUS
    <3>1. IF Sequential(q) THEN Before(log[q][m].impl, log[q][n].impl)
          ELSE log[q][m].impl # log[q][n].impl
      BY DEF AnswerInv, EntriesTell
    <3>2. log[q][m].impl \in Impls /\ log[q][n].impl \in Impls
      BY <2>1
    <3>3. log[q]' = log[q]
      BY <1>1
    <3>4. Before(log[q][m].impl, log[q][n].impl)' <=> Before(log[q][m].impl, log[q][n].impl)
      BY <1>1, <3>3 DEF Before
    <3> QED
      BY <1>4, <3>1, <3>4
  <2> QED
    BY <1>1, <2>3, <2>4, <2>5 DEF EntriesTell
<1> QED
  BY <1>1, <1>2, <1>5, <1>6, <1>7 DEF AnswerInv

(* The end of a _run_one with status s: what the executor makes of it is   *)
(* left open, but for what it carries and answers.                         *)
Lands(q, i, s) ==
    /\ st[q][i] \in Active /\ st'[q][i] = s
    /\ s \in Statuses \cup {"cancelled"}
    /\ phase[q] # "sequential" => phase'[q] = phase[q] /\ value'[q] = value[q]
    /\ phase[q] = "sequential" =>
          /\ phase'[q] \in {"sequential", "delivered", "raised", "cancelled"}
          /\ phase'[q] = "delivered" =>
                s = "skip" \/ (Queued(q) = {} /\ Proceeded(q, i)')
          /\ phase'[q] = "raised" => Earned(q)'
          /\ value'[q] = IF i \in Good(q)' THEN out'[q][i] ELSE value[q]

(* It is logged, or it is one that is not.                                 *)
Logs(q, i, s) ==
    IF s \in {"skip", "cancelled"}
    THEN log'[q] = log[q] /\ unaudited'[q] = unaudited[q]
    ELSE \/ log'[q] = log[q] /\ i \in unaudited'[q]
         \/ /\ i \notin unaudited'[q]
            /\ log'[q] \in Seq(Entry)
            /\ Len(log'[q]) = Len(log[q]) + 1
            /\ log'[q][Len(log[q]) + 1].impl = i
            /\ log'[q][Len(log[q]) + 1].status = s
            /\ \A n \in 1..Len(log[q]) : log'[q][n] = log[q][n]

LEMMA LandingKeeps ==
    ASSUME PipelineInv, NEW q \in Requests, NEW i \in Impls, NEW s,
           Aside(q, i), AnswerInv(q), Lands(q, i, s), Logs(q, i, s)
    PROVE  AnswerInv(q)'
<1>1. /\ phase[q] \in Live /\ i \in plan[q] /\ i \in Begun(q) /\ i \notin Good(q)
      /\ i \notin unaudited[q]
      /\ phase[q] = "sequential" <=> Sequential(q)
  BY OthersBefore DEF Lands
<1>2. phase[q] = "sequential" =>
         \A j \in Begun(q) \ {i} : /\ st[q][j] \notin Active
                                   /\ Before(j, i) /\ ~Before(i, j) /\ Proceeded(q, j)
  BY OthersBefore DEF Lands
<1>3. plan[q] \subseteq Impls /\ Begun(q) \subseteq plan[q] /\ Good(q) \subseteq Begun(q)
  BY InPlan DEF Good, Begun
<1>4. /\ \A j, k \in Impls : Before(j, k)' <=> Before(j, k)
      /\ Sequential(q)' <=> Sequential(q)
      /\ \A j \in Impls \ {i} : Proceeded(q, j)' <=> Proceeded(q, j)
      /\ Begun(q)' = Begun(q)
      /\ \A j \in Impls \ {i} : j \in Good(q)' <=> j \in Good(q)
      /\ Good(q)' \subseteq Impls
  <2>1. i \in Begun(q)'
    BY <1>1 DEF Aside, Lands, Begun, Statuses
  <2> QED
    BY <1>1, <1>3, <2>1 DEF Aside, Before, Sequential, RunsParallel, Proceeded, Begun, Good
<1>5. CarriedInv(q)'
  <2>1. phase'[q] = "parallel" => value'[q] = asked'[q]
    BY DEF Lands, AnswerInv, CarriedInv, Aside
  <2>2. ASSUME phase'[q] \in Live, NEW j \in Impls, st'[q][j] \in Active
        PROVE  in'[q][j] = value'[q]
    <3>1. j # i
      BY <2>2 DEF Lands, Active, Statuses
    <3>2. st'[q][j] = st[q][j] /\ in'[q][j] = in[q][j]
      BY <3>1 DEF Aside
    <3>3. j \in Begun(q)
      BY <2>2, <3>2, InPlan DEF Begun, Active
    <3>4. phase[q] # "sequential"
      BY <1>2, <2>2, <3>1, <3>2, <3>3
    <3>5. value'[q] = value[q]
      BY <3>4 DEF Lands
    <3> QED
      BY <1>1, <2>2, <3>2, <3>5 DEF AnswerInv, CarriedInv
  <2>3. ASSUME phase'[q] = "gathering", NEW j \in Impls
        PROVE  st'[q][j] # "queued"
    <3>1. phase[q] = "gathering"
      BY <2>3 DEF Lands
    <3>2. st'[q][i] # "queued"
      BY DEF Lands, Statuses
    <3> QED
      BY <3>1, <3>2 DEF AnswerInv, CarriedInv, Aside
  <2> QED
    BY <2>1, <2>2, <2>3 DEF CarriedInv
<1>6. phase'[q] = "delivered" => Complete(q)'
  <2> SUFFICES ASSUME phase'[q] = "delivered" PROVE Complete(q)'
    OBVIOUS
  <2>1. phase[q] = "sequential"
    BY <1>1 DEF Lands, Live
  <2>2. CASE s = "skip"
    <3>1. \A j \in Begun(q)' \ {i} : Before(j, i)' /\ Proceeded(q, j)'
      BY <1>2, <1>3, <1>4, <2>1
    <3> QED
      BY <1>1, <1>4, <2>1, <2>2, <3>1 DEF Complete, Lands, Aside
  <2>3. CASE Queued(q) = {} /\ Proceeded(q, i)'
    <3>1. \A j \in plan'[q] : Proceeded(q, j)'
      BY <1>2, <1>3, <1>4, <2>1, <2>3 DEF Queued, Begun, Aside
    <3> QED
      BY <1>1, <1>4, <2>1, <3>1 DEF Complete
  <2> QED
    BY <2>1, <2>2, <2>3 DEF Lands
<1>7. phase'[q] = "raised" => Earned(q)'
  BY <1>1 DEF Lands, Live
<1>8. Sequential(q)' => LastGoodIsCarried(q)'
  <2> SUFFICES ASSUME Sequential(q)' PROVE LastGoodIsCarried(q)'
    OBVIOUS
  <2>1. phase[q] = "sequential" /\ LastGoodIsCarried(q)
    BY <1>1, <1>4 DEF AnswerInv
  <2>2. CASE i \in Good(q)'
    <3>1. IsLast(i, Good(q))'
      BY <1>2, <1>3, <1>4, <2>1, <2>2 DEF IsLast
    <3>2. value'[q] = out'[q][i]
      BY <2>1, <2>2 DEF Lands
    <3> QED
      BY <2>2, <3>1, <3>2 DEF LastGoodIsCarried
  <2>3. CASE i \notin Good(q)'
    <3>1. Good(q)' = Good(q)
      BY <1>1, <1>3, <1>4, <2>3
    <3>2. value'[q] = value[q] /\ asked' = asked
      BY <2>1, <2>3 DEF Lands, Aside
    <3>3. \A j \in Good(q) : out'[q][j] = out[q][j] /\ j \in Impls
      BY <1>1, <1>3 DEF Aside
    <3> QED
      BY <1>4, <2>1, <3>1, <3>2, <3>3 DEF LastGoodIsCarried, IsLast
  <2> QED
    BY <2>2, <2>3
<1>9. ~(phase'[q] = "delivered" /\ RunsParallel(plan[q])' /\ plan'[q] # {})
  BY <1>1 DEF Lands, Aside, Live, Sequential, RunsParallel
<1>10. EntriesTell(q)'
  <2>1. \A n \in DOMAIN log[q] : log[q][n].impl \in Begun(q) \ {i}
    <3> SUFFICES ASSUME NEW n \in DOMAIN log[q] PROVE log[q][n].impl \in Begun(q) \ {i}
      OBVIOUS
    <3>1. log[q][n].impl \in Impls /\ st[q][log[q][n].impl] \in Statuses
      BY InPlan DEF AnswerInv, EntriesTell
    <3> QED
      BY <3>1, InPlan DEF Lands, Active, Statuses, Begun
  <2>2. CASE log'[q] = log[q]
    <3>1. s \in {"skip", "cancelled"} \/ i \in unaudited'[q]
      BY <2>2, InPlan DEF Logs
    <3>2. \A j \in Impls \ {i} : /\ st'[q][j] = st[q][j]
                                 /\ j \in unaudited'[q] <=> j \in unaudited[q]
      BY DEF Aside
    <3>3. st'[q][i] = s
      BY DEF Lands
    <3> QED
      BY <1>3, <1>4, <2>1, <2>2, <3>1, <3>2, <3>3 DEF AnswerInv, EntriesTell, Statuses
  <2>3. CASE /\ i \notin unaudited'[q] /\ s \notin {"skip", "cancelled"}
             /\ log'[q] \in Seq(Entry)
             /\ Len(log'[q]) = Len(log[q]) + 1
             /\ log'[q][Len(log[q]) + 1].impl = i
             /\ log'[q][Len(log[q]) + 1].status = s
             /\ \A n \in 1..Len(log[q]) : log'[q][n] = log[q][n]
    <3> DEFINE N == Len(log[q]) + 1
    <3>1. /\ log[q] \in Seq(Entry) /\ Len(log[q]) \in Nat /\ DOMAIN log[q] = 1..(N - 1)
          /\ DOMAIN log'[q] = 1..N /\ N \in DOMAIN log'[q]
      BY <2>3, InPlan
    <3>2. \A n \in DOMAIN log'[q] : n = N \/ (n \in DOMAIN log[q] /\ log'[q][n] = log[q][n])
      BY <2>3, <3>1
    <3>3. \A n \in DOMAIN log[q] : n \in DOMAIN log'[q] /\ log'[q][n] = log[q][n] /\ n < N
      BY <2>3, <3>1
    <3>4. ASSUME NEW n \in DOMAIN log'[q]
          PROVE  /\ st'[q][log'[q][n].impl] = log'[q][n].status
                 /\ log'[q][n].impl \notin unaudited'[q]
      <4>1. CASE n = N
        BY <2>3, <4>1 DEF Lands
      <4>2. ASSUME n \in DOMAIN log[q], log'[q][n] = log[q][n]
            PROVE  /\ st'[q][log'[q][n].impl] = log'[q][n].status
                   /\ log'[q][n].impl \notin unaudited'[q]
        <5> DEFINE j == log[q][n].impl
        <5>1. j \in Impls /\ j # i
          BY <1>3, <2>1, <4>2
        <5>2. st[q][j] = log[q][n].status /\ j \notin unaudited[q]
          BY <4>2 DEF AnswerInv, EntriesTell
        <5>3. st'[q][j] = st[q][j] /\ (j \in unaudited'[q] <=> j \in unaudited[q])
          BY <5>1 DEF Aside
        <5> QED
          BY <4>2, <5>2, <5>3
      <4> QED
        BY <3>2, <4>1, <4>2
    <3>5. ASSUME NEW j \in Impls, st'[q][j] \in Statuses \ {"skip"}, j \notin unaudited'[q]
          PROVE  \E n \in DOMAIN log'[q] : log'[q][n].impl = j
      <4>1. CASE j = i
        BY <2>3, <3>1, <4>1
      <4>2. CASE j # i
        <5>1. st[q][j] \in Statuses \ {"skip"} /\ j \notin unaudited[q]
          BY <3>5, <4>2 DEF Aside
        <5>2. PICK n \in DOMAIN log[q] : log[q][n].impl = j
          BY <5>1 DEF AnswerInv, EntriesTell
        <5> QED
          BY <3>3, <5>2
      <4> QED
        BY <4>1, <4>2
    <3>6. ASSUME NEW m \in DOMAIN log'[q], NEW n \in DOMAIN log'[q], m < n
          PROVE  IF Sequential(q)' THEN Before(log[q][m].impl, log[q][n].impl)'
                 ELSE log'[q][m].impl # log'[q][n].impl
      <4>1. m # N
        BY <3>1, <3>6
      <4>2. m \in DOMAIN log[q] /\ log'[q][m] = log[q][m] /\ log[q][m].impl \in Begun(q) \ {i}
        BY <2>1, <3>2, <4>1
      <4>3. CASE n = N
        <5>1. Sequential(q) => Before(log[q][m].impl, i)
          BY <1>1, <1>2, <4>2
        <5> QED
          BY <1>3, <1>4, <2>3, <4>2, <4>3, <5>1
      <4>4. CASE n # N
        <5>1. n \in DOMAIN log[q] /\ log'[q][n] = log[q][n] /\ log[q][n].impl \in Begun(q) \ {i}
          BY <2>1, <3>2, <4>4
        <5> QED
          BY <1>3, <1>4, <3>6, <4>2, <5>1 DEF AnswerInv, EntriesTell
      <4> QED
        BY <4>3, <4>4
    <3> QED
      BY <3>4, <3>5, <3>6 DEF EntriesTell
  <2> QED
    BY <2>2, <2>3 DEF Logs
<1> QED
  BY <1>5, <1>6, <1>7, <1>8, <1>9, <1>10 DEF AnswerInv

(* A scheduled audit entry is the last of the request's.                   *)
LEMMA AuditLogs ==
    ASSUME PipelineInv, NEW q \in Requests, NEW i \in Impls, NEW s \in Statuses \ {"skip"},
           st[q][i] \in Active, Audit(q, i, s)
    PROVE  Logs(q, i, s)
<1> DEFINE e == [impl |-> i, status |-> s, shown |-> SafeMeta(in[q][i])]
<1>1. log' = [log EXCEPT ![q] = Append(log[q], e)] /\ log[q] \in Seq(Entry)
  BY DEF Audit, PipelineInv, TypeInv, TypeOK
<1>2. e \in Entry
  <2>1. in[q][i] \in Ctx
    BY DEF PipelineInv, TypeInv, TypeOK, GivenInv
  <2> QED
    BY <2>1, SafeMetaType DEF Entry
<1>3. e.impl = i /\ e.status = s
  OBVIOUS
<1> HIDE DEF e
<1>4. log'[q] = Append(log[q], e)
  BY <1>1 DEF PipelineInv, TypeInv, TypeOK
<1>5. i \notin unaudited'[q]
  BY OthersBefore DEF Audit
<1>6. /\ log'[q] \in Seq(Entry) /\ Len(log'[q]) = Len(log[q]) + 1
      /\ log'[q][Len(log[q]) + 1] = e
      /\ \A n \in 1..Len(log[q]) : log'[q][n] = log[q][n]
  BY <1>1, <1>2, <1>4
<1> QED
  BY <1>3, <1>5, <1>6 DEF Logs, Statuses

(* A failure that is audited, at the first or the second call of           *)
(* get_default_audit, but for what it counts.                              *)
Degrades(q, i, s) ==
    /\ Settle(q, i, s) /\ Audit(q, i, s)
    /\ IF Masked(i) THEN GoOn(q, DegradedTo(q, i)) ELSE Escape(q, s)
    /\ UNCHANGED <<position, registrations, asked, plan, in, out>>

LEMMA DegradeCases ==
    ASSUME NEW q \in Requests, NEW i \in Impls,
           Fail(q, i) \/ OwnTimeout(q, i) \/ Unwind(q, i) \/ AuditRecovers(q, i)
    PROVE  st[q][i] \in Active /\ \E s \in {"timeout", "error"} : Degrades(q, i, s)
<1>1. CASE Fail(q, i) \/ OwnTimeout(q, i) \/ Unwind(q, i)
  BY <1>1 DEF Fail, OwnTimeout, Unwind, Heard, Active, Degrade, Degrades
<1>2. CASE AuditRecovers(q, i)
  BY <1>2 DEF AuditRecovers, Heard, Degrades
<1> QED
  BY <1>1, <1>2

(* A timeout or an exception ends the _run_one as the flags say.           *)
LEMMA DegradeLands ==
    ASSUME PipelineInv, NEW q \in Requests, NEW i \in Impls, NEW s \in {"timeout", "error"},
           AnswerInv(q), st[q][i] \in Active, Degrades(q, i, s)
    PROVE  Lands(q, i, s) /\ Logs(q, i, s)
<1>1. Logs(q, i, s)
  BY AuditLogs DEF Degrades, Statuses
<1>2. /\ st'[q][i] = s /\ i \notin unaudited'[q] /\ i \notin Good(q)' /\ plan'[q] = plan[q]
      /\ i \in plan[q]
  BY OthersBefore DEF Degrades, Settle, Audit, Good, PipelineInv, TypeInv, TypeOK
<1>3. CASE Masked(i)
  <2>1. Proceeded(q, i)'
    BY <1>2, <1>3 DEF Proceeded, Masked
  <2>2. GoOn(q, in[q][i]) /\ in[q][i] # NoCtx
    BY <1>3 DEF Degrades, DegradedTo, PipelineInv, TypeInv, GivenInv
  <2>3. phase[q] = "sequential" => in[q][i] = value[q]
    BY DEF AnswerInv, CarriedInv, Live
  <2> QED
    BY <1>1, <1>2, <2>1, <2>2, <2>3 DEF GoOn, SpanOpens, Lands, Statuses, PipelineInv, TypeInv, TypeOK
<1>4. CASE ~Masked(i)
  <2>1. Escape(q, s) /\ i \notin Fallbacks
    BY <1>4 DEF Degrades, Masked
  <2>2. phase[q] = "sequential" => phase'[q] = "raised" /\ Earned(q)'
    BY <1>2, <2>1 DEF Escape, Earned, PipelineInv, TypeInv, TypeOK
  <2> QED
    BY <1>1, <1>2, <2>1, <2>2 DEF Escape, Lands, Statuses
<1> QED
  BY <1>3, <1>4

(* A step of a _run_one begins it, fires its timer, or ends it.            *)
LEMMA StepLands ==
    ASSUME PipelineInv, NEW q \in Requests, NEW i \in Impls, AnswerInv(q), Step(q, i)
    PROVE  \/ Enter(q, i) \/ Expire(q, i) \/ OrphanEnds(q, i)
           \/ \E s \in Statuses \cup {"cancelled"} : Lands(q, i, s) /\ Logs(q, i, s)
<1> DEFINE Goal == \/ Enter(q, i) \/ Expire(q, i) \/ OrphanEnds(q, i)
                   \/ \E s \in Statuses \cup {"cancelled"} : Lands(q, i, s) /\ Logs(q, i, s)
<1>1. CASE Enter(q, i) \/ Expire(q, i) \/ OrphanEnds(q, i)
  BY <1>1
<1>2. CASE Return(q, i)
  <2>1. PICK v \in Results(i, in[q][i]) : out' = [out EXCEPT ![q][i] = v] /\ GoOn(q, v)
    BY <1>2 DEF Return
  <2>2. /\ st[q][i] \in Active /\ st'[q][i] = "ok" /\ out'[q][i] = v /\ plan'[q] = plan[q]
        /\ i \in plan[q]
    BY <1>2, <2>1, OthersBefore DEF Return, Heard, Settle, PipelineInv, TypeInv, TypeOK
  <2>3. i \notin unaudited'[q] /\ i \in Good(q)' /\ Proceeded(q, i)'
    BY <1>2, <2>2, OthersBefore DEF Return, Audit, Good, Proceeded
  <2>4. Logs(q, i, "ok")
    BY <1>2, <2>2, AuditLogs DEF Return, Statuses
  <2>5. Lands(q, i, "ok")
    <3>1. phase'[q] = "raised" /\ phase[q] = "sequential" => Earned(q)'
      BY <2>1, <2>2 DEF GoOn, SpanOpens, Earned, PipelineInv, TypeInv, TypeOK
    <3> QED
      BY <2>1, <2>2, <2>3, <3>1 DEF GoOn, SpanOpens, Lands, Statuses, PipelineInv, TypeInv, TypeOK
  <2> QED
    BY <2>4, <2>5 DEF Statuses
<1>3. CASE Fail(q, i) \/ OwnTimeout(q, i) \/ Unwind(q, i) \/ AuditRecovers(q, i)
  <2>1. PICK s \in {"timeout", "error"} : st[q][i] \in Active /\ Degrades(q, i, s)
    BY <1>3, DegradeCases
  <2>2. Lands(q, i, s) /\ Logs(q, i, s)
    BY <2>1, DegradeLands
  <2> QED
    BY <2>2 DEF Statuses
<1>4. CASE Block(q, i)
  <2>1. /\ st[q][i] \in Active /\ st'[q][i] = "blocked" /\ plan'[q] = plan[q] /\ i \in plan[q]
        /\ i \notin Good(q)'
    BY <1>4, OthersBefore DEF Block, Heard, Settle, Good, PipelineInv, TypeInv, TypeOK
  <2>2. Logs(q, i, "blocked")
    BY <1>4, <2>1, AuditLogs DEF Block, Statuses
  <2>3. Lands(q, i, "blocked")
    BY <1>4, <2>1 DEF Block, Escape, Lands, Earned, Statuses, PipelineInv, TypeInv, TypeOK
  <2> QED
    BY <2>2, <2>3 DEF Statuses
<1>5. CASE Skip(q, i)
  <2>1. Logs(q, i, "skip") /\ i \notin Good(q)'
    BY <1>5 DEF Skip, Logs, Settle, Good, PipelineInv, TypeInv, TypeOK
  <2>2. Lands(q, i, "skip")
    BY <1>5, <2>1 DEF Skip, Heard, Settle, Lands, Statuses, PipelineInv, TypeInv, TypeOK
  <2> QED
    BY <2>1, <2>2 DEF Statuses
<1>6. ASSUME NEW s \in Statuses \ {"skip"}, AuditFails(q, i, s) PROVE Goal
  <2>1. /\ st[q][i] \in Active /\ st'[q][i] = s /\ plan'[q] = plan[q] /\ i \in plan[q]
        /\ i \in unaudited'[q] /\ i \notin Good(q)' /\ log'[q] = log[q]
    BY <1>6, OthersBefore DEF AuditFails, Heard, Settle, Good, PipelineInv, TypeInv, TypeOK
  <2>2. Logs(q, i, s)
    BY <1>6, <2>1 DEF Logs, Statuses
  <2>3. Lands(q, i, s)
    BY <1>6, <2>1 DEF AuditFails, Escape, Lands, Earned, Statuses, PipelineInv, TypeInv, TypeOK
  <2> QED
    BY <2>2, <2>3
<1>7. CASE Abandon(q, i)
  <2>1. Logs(q, i, "cancelled") /\ i \notin Good(q)'
    BY <1>7 DEF Abandon, Settle, Logs, Good, PipelineInv, TypeInv, TypeOK
  <2>2. Lands(q, i, "cancelled")
    BY <1>7, <2>1 DEF Abandon, Settle, Lands, Active, PipelineInv, TypeInv, TypeOK
  <2> QED
    BY <2>1, <2>2
<1>8. CASE OwnCancel(q, i)
  <2>1. /\ st[q][i] \in Active /\ st'[q][i] = "cancelled" /\ plan'[q] = plan[q]
        /\ i \in plan[q] /\ i \notin Good(q)'
    BY <1>8, OthersBefore DEF OwnCancel, Settle, Good, Active, PipelineInv, TypeInv, TypeOK
  <2>2. Logs(q, i, "cancelled")
    BY <1>8 DEF OwnCancel, Logs
  <2>3. Lands(q, i, "cancelled")
    BY <1>8, <2>1 DEF OwnCancel, Escape, Lands, Earned, PipelineInv, TypeInv, TypeOK
  <2> QED
    BY <2>2, <2>3
<1> QED
  BY <1>1, <1>2, <1>3, <1>4, <1>5, <1>6, <1>7, <1>8 DEF Step

(* Every step of a _run_one keeps the answers.                             *)
LEMMA StepAnswers ==
    ASSUME PipelineInv, NEW q \in Requests, NEW i \in Impls, Step(q, i),
           \A p \in Requests : AnswerInv(p)
    PROVE  \A p \in Requests : AnswerInv(p)'
<1>1. Aside(q, i) /\ \A p \in Requests \ {q} : Same(p)
  BY StepAside
<1>2. \A p \in Requests \ {q} : AnswerInv(p)'
  BY <1>1, SameKeeps
<1>3. AnswerInv(q)'
  <2>1. CASE Enter(q, i) \/ Expire(q, i) \/ OrphanEnds(q, i)
    BY <2>1, QuietStep
  <2>2. ASSUME NEW s \in Statuses \cup {"cancelled"}, Lands(q, i, s), Logs(q, i, s)
        PROVE  AnswerInv(q)'
    BY <1>1, <2>2, LandingKeeps
  <2> QED
    BY <2>1, <2>2, StepLands
<1> QED
  BY <1>2, <1>3

-----------------------------------------------------------------------------
(* The other steps *)

(* The merge answers with what the list's order says.                      *)
LEMMA MergeAnswers ==
    ASSUME PipelineInv, NEW q \in Requests, Merge(q), AnswerInv(q)
    PROVE  AnswerInv(q)'
<1> USE DEF PipelineInv, TypeInv, TypeOK
<1>1. /\ phase[q] = "parallel" /\ Queued(q) = {} /\ Running(q) = {}
      /\ phase'[q] \in {"delivered", "raised"}
      /\ position' = position /\ asked' = asked /\ plan' = plan /\ st' = st /\ in' = in
      /\ out' = out /\ unaudited' = unaudited /\ log' = log
  BY DEF Merge
<1>2. ~Sequential(q) /\ (Sequential(q)' <=> Sequential(q))
  BY <1>1 DEF ModeInv, Sequential, RunsParallel
<1>3. /\ Good(q)' = Good(q) /\ Good(q) \subseteq plan[q] /\ plan[q] \subseteq Impls
      /\ \A i, j \in Impls : Before(i, j)' <=> Before(i, j)
  BY <1>1, InPlan DEF Good, Before
<1>4. CarriedInv(q)'
  BY <1>1 DEF CarriedInv, Live
<1>5. phase'[q] = "delivered" => Complete(q)'
  <2>1. \A i \in plan[q] : st[q][i] \in Statuses \cup {"cancelled"}
    <3> SUFFICES ASSUME NEW i \in plan[q] PROVE st[q][i] \in Statuses \cup {"cancelled"}
      OBVIOUS
    <3>1. i \in Impls /\ st[q][i] \in Stations /\ st[q][i] # "none"
      BY <1>3 DEF SnapshotInv
    <3>2. st[q][i] # "queued" /\ st[q][i] \notin Active
      BY <1>1, <3>1 DEF Queued, Running
    <3>3. st[q][i] # "orphaned"
      BY <1>1, <3>1 DEF OrphanInv
    <3> QED
      BY <3>1, <3>2, <3>3 DEF Stations
  <2> QED
    BY <1>1, <1>2, <2>1 DEF Complete
<1>6. phase'[q] = "raised" => Earned(q)'
  <2> SUFFICES ASSUME phase'[q] = "raised" PROVE Earned(q)'
    OBVIOUS
  <2>1. cause'[q] = "attribute" /\ \E i \in Good(q) : out[q][i] = NoCtx
    BY DEF Merge
  <2> QED
    BY <1>1, <1>3, <2>1 DEF Earned, Good
<1>7. EntriesTell(q)'
  BY <1>1, <1>2, <1>3, InPlan DEF AnswerInv, EntriesTell
<1>8. phase'[q] = "delivered" => RankedMerge(q)'
  <2> SUFFICES ASSUME phase'[q] = "delivered" PROVE RankedMerge(q)'
    OBVIOUS
  <2>1. PICK m \in Meta, r \in SUBSET Keys :
           /\ IsMerge(q, m, r)
           /\ value' = [value EXCEPT ![q] =
                          [tool |-> value[q].tool, meta |-> m, redacted |-> r]]
    BY DEF Merge
  <2>2. value'[q].tool = value[q].tool /\ value'[q].meta = m /\ value[q] = asked[q]
    BY <1>1, <2>1 DEF AnswerInv, CarriedInv
  <2>3. ASSUME NEW k \in Keys
        PROVE  \/ /\ \A i \in Good(q) : out[q][i].meta[k] = Absent
                  /\ m[k] = asked[q].meta[k]
               \/ \E j \in Good(q) :
                     /\ out[q][j].meta[k] = m[k]
                     /\ \A i \in Good(q) : out[q][i].meta[k] \notin {Absent, m[k]} => Before(i, j)
    <3>1. CASE Writers(q, k) = {}
      BY <2>1, <2>2, <3>1 DEF Writers, IsMerge
    <3>2. CASE Writers(q, k) # {}
      <4>1. PICK j \in Writers(q, k) : IsLast(j, Writers(q, k)) /\ m[k] = out[q][j].meta[k]
        BY <2>1, <3>2 DEF IsMerge
      <4> QED
        BY <4>1 DEF IsLast, Writers
    <3> QED
      BY <3>1, <3>2
  <2>4. ASSUME NEW i \in Good(q), NEW k \in out[q][i].redacted
        PROVE  k \in r \/ \E j \in Good(q) : Before(i, j) /\ out[q][j].redacted # {}
    <3>1. i \in Redacters(q)
      BY <2>4 DEF Redacters
    <3>2. PICK j \in Redacters(q) : IsLast(j, Redacters(q)) /\ r = out[q][j].redacted
      BY <2>1, <3>1 DEF IsMerge
    <3> QED
      BY <2>4, <3>1, <3>2 DEF IsLast, Redacters
  <2>5. value'[q].redacted = r
    BY <1>1, <2>1
  <2>6. \A i \in Good(q)' : \A k \in out'[q][i].redacted :
           \/ k \in value'[q].redacted
           \/ \E j \in Good(q)' : Before(i, j)' /\ out'[q][j].redacted # {}
    <3> SUFFICES ASSUME NEW i \in Good(q), NEW k \in out[q][i].redacted
                 PROVE  \/ k \in r
                        \/ \E j \in Good(q) : Before(i, j)' /\ out[q][j].redacted # {}
      BY <1>1, <1>3, <2>5
    <3> QED
      BY <1>3, <2>4
  <2>7. \A k \in Keys :
           \/ /\ \A i \in Good(q)' : out'[q][i].meta[k] = Absent
              /\ value'[q].meta[k] = asked'[q].meta[k]
           \/ \E j \in Good(q)' :
                 /\ out'[q][j].meta[k] = value'[q].meta[k]
                 /\ \A i \in Good(q)' :
                       out'[q][i].meta[k] \notin {Absent, value'[q].meta[k]} => Before(i, j)'
    BY <1>1, <1>3, <2>2, <2>3
  <2> QED
    BY <1>1, <2>2, <2>6, <2>7 DEF RankedMerge
<1> QED
  BY <1>2, <1>4, <1>5, <1>6, <1>7, <1>8 DEF AnswerInv

LEMMA CancelAnswers ==
    ASSUME PipelineInv, NEW q \in Requests, Cancel(q) \/ GatherCancelled(q), AnswerInv(q)
    PROVE  AnswerInv(q)'
<1> USE DEF PipelineInv, TypeInv, TypeOK
<1>1. /\ phase[q] \in Live
      /\ phase'[q] \notin {"delivered", "raised", "parallel"}
      /\ position' = position /\ asked' = asked /\ plan' = plan /\ in' = in /\ value' = value
      /\ out' = out /\ unaudited' = unaudited /\ log' = log
  BY DEF Cancel, GatherCancelled, Live
<1>2. \A i \in Impls : \/ st'[q][i] = st[q][i]
                       \/ st[q][i] \in Active /\ st'[q][i] \in {"cancelling", "orphaned"}
                       \/ st[q][i] = "queued" /\ st'[q][i] = "cancelled"
  BY DEF Cancel, Thrown, GatherCancelled
<1>3. \A s \in Statuses, i \in Impls : st'[q][i] = s <=> st[q][i] = s
  BY <1>2 DEF Statuses, Active
<1>4. /\ Good(q)' = Good(q) /\ Good(q) \subseteq Impls
      /\ Sequential(q)' <=> Sequential(q)
      /\ \A i, j \in Impls : Before(i, j)' <=> Before(i, j)
  BY <1>1, <1>3 DEF Good, Before, Sequential, RunsParallel, Statuses
<1>5. CarriedInv(q)'
  <2>1. phase'[q] \in Live => phase[q] \in Live
    BY <1>1
  <2>2. phase'[q] = "gathering" => \A i \in Impls : st'[q][i] # "queued"
    <3>1. CASE GatherCancelled(q)
      BY <3>1 DEF GatherCancelled
    <3>2. CASE Cancel(q)
      <4>1. phase'[q] = "gathering" => phase[q] # "sequential"
        BY <3>2 DEF Cancel, Live
      <4>2. \A i \in Impls : Thrown(st[q][i]) # "queued"
        BY DEF Thrown
      <4> QED
        BY <3>2, <4>1, <4>2 DEF Cancel, Active
    <3> QED
      BY <3>1, <3>2
  <2> QED
    BY <1>1, <1>2, <2>1, <2>2 DEF AnswerInv, CarriedInv, Active
<1>6. Sequential(q)' => LastGoodIsCarried(q)'
  BY <1>1, <1>4 DEF AnswerInv, LastGoodIsCarried, IsLast
<1>7. EntriesTell(q)'
  BY <1>1, <1>3, <1>4, InPlan DEF AnswerInv, EntriesTell
<1> QED
  BY <1>1, <1>5, <1>6, <1>7 DEF AnswerInv

LEMMA RunAnswers ==
    ASSUME PipelineInv, NEW q \in Requests, NEW c \in Contexts, Run(q, c), AnswerInv(q)
    PROVE  AnswerInv(q)'
<1> USE DEF PipelineInv, TypeInv, TypeOK
<1>1. /\ phase[q] = "idle" /\ plan[q] = {}
      /\ value'[q] = c /\ asked'[q] = c
      /\ plan'[q] = GetImpls(c) /\ GetImpls(c) \subseteq Impls
      /\ \A i \in Impls : st'[q][i] = IF i \in GetImpls(c) THEN "queued" ELSE "none"
      /\ phase'[q] = IF GetImpls(c) = {} THEN "delivered"
                     ELSE IF RunsParallel(GetImpls(c)) THEN "parallel" ELSE "sequential"
      /\ log' = log
  BY DEF Run, SnapshotInv, GetImpls
<1>2. \A i \in Impls : st[q][i] = "none"
  BY <1>1 DEF SnapshotInv
<1>3. Good(q)' = {}
  BY <1>1 DEF Good
<1>4. \A n \in DOMAIN log[q] : FALSE
  BY <1>2, Logged DEF AnswerInv, Statuses
<1>5. CarriedInv(q)'
  BY <1>1 DEF CarriedInv, Active
<1>6. phase'[q] = "delivered" => Complete(q)'
  BY <1>1 DEF Complete, Sequential
<1>7. EntriesTell(q)'
  BY <1>1, <1>4 DEF EntriesTell, Statuses
<1> QED
  BY <1>1, <1>3, <1>5, <1>6, <1>7 DEF AnswerInv, LastGoodIsCarried

(* The invariant is inductive.                                             *)
AnswersInv == PipelineInv /\ \A q \in Requests : AnswerInv(q)

LEMMA NextAnswers ==
    ASSUME AnswersInv, [Next]_vars
    PROVE  AnswersInv'
<1>1. PipelineInv'
  BY NextInv DEF AnswersInv
<1>2. \A q \in Requests : AnswerInv(q)'
  <2> USE DEF AnswersInv
  <2>1. ASSUME NEW i \in Impls, Implement(i) PROVE \A q \in Requests : AnswerInv(q)'
    <3>1. \A q \in Requests : \A j \in plan[q] : position'[j] = position[j]
      BY <2>1 DEF Implement, PipelineInv, SnapshotInv, TypeInv, TypeOK
    <3>2. \A q \in Requests : Same(q)
      BY <2>1, <3>1 DEF Implement, Same, Before
    <3> QED
      BY <3>2, SameKeeps
  <2>2. ASSUME NEW q \in Requests, NEW c \in Contexts, Run(q, c)
        PROVE  \A p \in Requests : AnswerInv(p)'
    <3>1. \A p \in Requests \ {q} : Same(p)
      BY <2>2 DEF Run, Same, Before, PipelineInv, TypeInv, TypeOK
    <3> QED
      BY <2>2, <3>1, SameKeeps, RunAnswers
  <2>3. ASSUME NEW q \in Requests, NEW i \in Impls, Step(q, i)
        PROVE  \A p \in Requests : AnswerInv(p)'
    BY <2>3, StepAnswers
  <2>4. ASSUME NEW q \in Requests, Cancel(q) \/ Merge(q) \/ GatherCancelled(q)
        PROVE  \A p \in Requests : AnswerInv(p)'
    <3>1. \A p \in Requests \ {q} : Same(p)
      BY <2>4 DEF Cancel, Merge, GatherCancelled, Same, Before, PipelineInv, TypeInv, TypeOK
    <3> QED
      BY <2>4, <3>1, SameKeeps, CancelAnswers, MergeAnswers
  <2>5. CASE UNCHANGED vars
    <3>1. \A q \in Requests : Same(q)
      BY <2>5 DEF vars, Same, Before
    <3> QED
      BY <3>1, SameKeeps
  <2> QED
    BY <2>1, <2>2, <2>3, <2>4, <2>5 DEF Next
<1> QED
  BY <1>1, <1>2 DEF AnswersInv

(* In every reachable state each request's answer, what it carries and its *)
(* audit entries agree with how its hooks ended.                           *)
THEOREM AnswersInvariance == Spec => []AnswersInv
<1>1. Init => \A q \in Requests : AnswerInv(q)
  BY DEF Init, AnswerInv, CarriedInv, LastGoodIsCarried, Good, EntriesTell, Statuses, Active,
         Sequential
<1>2. PipelineInv /\ (\A q \in Requests : AnswerInv(q)) => AnswersInv
  BY DEF AnswersInv
<1>3. Spec => []PipelineInv
  BY Invariance
<1>4. Init /\ PipelineInv => AnswersInv
  BY <1>1, <1>2
<1> QED
  BY <1>3, <1>4, NextAnswers, PTL DEF Spec

(* A context is delivered only when the whole snapshot was dealt with.     *)
THEOREM DeliveredTheorem == Spec => []DeliveredIsComplete
<1>1. AnswersInv => DeliveredIsComplete
  BY DEF AnswersInv, AnswerInv, DeliveredIsComplete
<1> QED
  BY <1>1, AnswersInvariance, PTL

(* The agent sees an exception only for a reason its registrations allow,  *)
(* or one that fallback does not cover, a body's own CancelledError too.   *)
THEOREM RaisesTheorem == Spec => []RaisesAreEarned
<1>1. AnswersInv => RaisesAreEarned
  BY DEF AnswersInv, AnswerInv, RaisesAreEarned
<1> QED
  BY <1>1, AnswersInvariance, PTL

(* A hook that does not succeed leaves no edit by the context's operations *)
(* in a sequential request.                                                *)
THEOREM CarriesTheorem == Spec => []CarriesLastGood
<1>1. AnswersInv => CarriesLastGood
  BY DEF AnswersInv, AnswerInv, CarriesLastGood
<1> QED
  BY <1>1, AnswersInvariance, PTL

(* The merge of a parallel request depends on the list's order alone.      *)
THEOREM MergeTheorem == Spec => []MergeByRank
<1>1. AnswersInv => MergeByRank
  BY DEF AnswersInv, AnswerInv, MergeByRank
<1> QED
  BY <1>1, AnswersInvariance, PTL

(* The audit entries of a request tell, in order, how its hooks ended: all *)
(* that did not skip or were cancelled.                                    *)
THEOREM AuditTheorem == Spec => []AuditTellsTheRun
<1>1. AnswersInv => AuditTellsTheRun
  BY DEF AnswersInv, AnswerInv, AuditTellsTheRun
<1> QED
  BY <1>1, AnswersInvariance, PTL
-----------------------------------------------------------------------------
(***************************************************************************)
(* The pipeline implements HookPromise.  A turn is the end of a _run_one;  *)
(* its beginning, its timer and a cancellation in progress are stutters.   *)
(***************************************************************************)
Left == [q \in Requests |-> Unended(q)]
Told == [q \in Requests |-> Reports(q)]

(* Both modules speak of the same implementations.                         *)
LEMMA SameWords ==
    /\ Promise!Ctx = Ctx
    /\ \A i, c : Promise!Results(i, c) = Results(i, c)
    /\ \A i, c : Promise!Matches(i, c) <=> Matches(i, c)
    /\ \A S : Promise!RunsParallel(S) <=> RunsParallel(S)
    /\ \A i, j : Promise!Ahead(i, j) <=> Before(i, j)
<1>1. Promise!Ctx = Ctx
  BY DEF Promise!Ctx, Ctx, Promise!Meta, Meta
<1>2. \A i, c : Promise!Results(i, c) = Results(i, c)
  BY DEF Promise!Results, Results, Promise!Enrich, Enrich, Promise!Redact, Redact,
         Promise!Relist, Relist, Promise!Writes, Writes, Promise!Meta, Meta,
         Promise!ReplaceTool, ReplaceTool, Promise!ReplaceMeta, ReplaceMeta
<1>3. \A i, c : Promise!Matches(i, c) <=> Matches(i, c)
  BY DEF Promise!Matches, Matches
<1>4. \A S : Promise!RunsParallel(S) <=> RunsParallel(S)
  BY DEF Promise!RunsParallel, RunsParallel
<1>5. \A i, j : Promise!Ahead(i, j) <=> Before(i, j)
  BY DEF Promise!Ahead, Before
<1> QED
  BY <1>1, <1>2, <1>3, <1>4, <1>5

(* The initial states are those of the promise.                            *)
LEMMA PromiseInit ==
    ASSUME Init PROVE Promise!Init
<1>1. \A q \in Requests : Unended(q) = {} /\ Reports(q) = {}
  BY DEF Init, Unended, Reports, Good, Active
<1> QED
  BY <1>1 DEF Init, Promise!Init

(* Of a request that does not move neither the turns nor the reports do.   *)
LEMMA SameTurns ==
    ASSUME NEW q \in Requests, Same(q)
    PROVE  Unended(q)' = Unended(q) /\ Reports(q)' = Reports(q)
<1>1. Good(q)' = Good(q)
  BY DEF Same, Good
<1> QED
  BY <1>1 DEF Same, Unended, Reports

(* The end of a _run_one ends its turn, and reports its result if good.    *)
LEMMA TurnEnds ==
    ASSUME PipelineInv, NEW q \in Requests, NEW i \in Impls,
           Aside(q, i), \A p \in Requests \ {q} : Same(p),
           st[q][i] \in Active, st'[q][i] \in Statuses \cup {"cancelled"}
    PROVE  /\ i \in Left[q]
           /\ Left' = [Left EXCEPT ![q] = @ \ {i}]
           /\ i \notin Good(q)' => Told' = Told
           /\ i \in Good(q)' => Told' = [Told EXCEPT ![q] = @ \cup {<<i, out'[q][i]>>}]
<1>1. \A p \in Requests \ {q} : Unended(p)' = Unended(p) /\ Reports(p)' = Reports(p)
  BY SameTurns
<1>2. i \in Unended(q) /\ Unended(q)' = Unended(q) \ {i}
  BY DEF Unended, Aside, Active, Statuses
<1>3. /\ \A j \in Impls \ {i} : (j \in Good(q)' <=> j \in Good(q)) /\ out'[q][j] = out[q][j]
      /\ i \notin Good(q) /\ Good(q) \subseteq Impls /\ Good(q)' \subseteq Impls
  BY OthersBefore DEF Aside, Good
<1>4. i \notin Good(q)' => Reports(q)' = Reports(q)
  <2> SUFFICES ASSUME i \notin Good(q)' PROVE Reports(q)' = Reports(q)
    OBVIOUS
  <2>1. Good(q)' = Good(q)
    BY <1>3
  <2> QED
    BY <1>3, <2>1 DEF Reports
<1>5. i \in Good(q)' => Reports(q)' = Reports(q) \cup {<<i, out'[q][i]>>}
  <2> SUFFICES ASSUME i \in Good(q)' PROVE Reports(q)' = Reports(q) \cup {<<i, out'[q][i]>>}
    OBVIOUS
  <2>1. Good(q)' = Good(q) \cup {i}
    BY <1>3
  <2> QED
    BY <1>3, <2>1 DEF Reports
<1> QED
  BY <1>1, <1>2, <1>4, <1>5 DEF Left, Told

(* The body that runs in a sequential request is the first of those whose  *)
(* turn has not ended, and the others are queued.                          *)
LEMMA FirstTurn ==
    ASSUME PipelineInv, NEW q \in Requests, NEW i \in Impls, st[q][i] \in Active,
           phase[q] = "sequential"
    PROVE  /\ Promise!HasTurn(q, i)
           /\ Queued(q) = {} <=> Left[q] = {i}
<1>1. i \in plan[q] /\ i \in Begun(q) /\ Sequential(q)
      /\ \A j \in Begun(q) \ {i} : st[q][j] \notin Active
  BY OthersBefore
<1>2. ASSUME NEW j \in Left[q] \ {i}
      PROVE  j \in Impls /\ st[q][j] = "queued" /\ Before(i, j)
  <2>1. j \in Impls /\ (st[q][j] = "queued" \/ st[q][j] \in Active)
    BY DEF Left, Unended
  <2>2. j \in plan[q]
    BY <2>1, InPlan DEF Active
  <2>3. st[q][j] = "queued"
    BY <1>1, <2>1, <2>2 DEF Begun
  <2>4. ~Proceeded(q, j)
    BY <2>3 DEF Proceeded
  <2>5. ~Before(j, i)
    BY <1>1, <2>2, <2>4 DEF PipelineInv, InOrder
  <2> QED
    BY <1>1, <2>1, <2>2, <2>3, <2>5, BeforeTotal
<1>3. Promise!HasTurn(q, i)
  BY <1>2, SameWords DEF Promise!HasTurn, Left
<1>4. Queued(q) = {} <=> Left[q] = {i}
  <2>1. i \in Left[q] /\ i \notin Queued(q) /\ Queued(q) \subseteq Left[q]
    BY DEF Left, Unended, Queued, Active
  <2>2. Left[q] \ {i} \subseteq Queued(q)
    BY <1>2 DEF Queued
  <2> QED
    BY <2>1, <2>2
<1> QED
  BY <1>3, <1>4

(* A raise out of _run_one stops a sequential request, and is a turn       *)
(* without a result in a parallel one.                                     *)
LEMMA EscapeStops ==
    ASSUME PipelineInv, NEW q \in Requests, NEW i \in Impls, NEW e, Escape(q, e),
           position' = position, st[q][i] \in Active,
           i \in Left[q], Left' = [Left EXCEPT ![q] = @ \ {i}], Told' = Told
    PROVE  Promise!Turn(q, i)
<1>1. phase[q] \in Live
  BY OthersBefore
<1>2. CASE phase[q] = "sequential"
  <2>1. phase' = [phase EXCEPT ![q] = "raised"] /\ value' = value
    BY <1>2 DEF Escape
  <2>2. Promise!Stop(q, i)
    BY <1>2, <2>1, FirstTurn DEF Promise!Stop, Promise!EndTurn, Promise!Becomes, Left, Told
  <2> QED
    BY <2>2 DEF Promise!Turn
<1>3. CASE phase[q] # "sequential"
  <2>1. phase' = phase /\ value' = value
    BY <1>3 DEF Escape
  <2>2. Promise!Report(q, i)
    BY <1>1, <1>3, <2>1 DEF Promise!Report, Promise!EndTurn, Left, Told, Live
  <2> QED
    BY <2>2 DEF Promise!Turn
<1> QED
  BY <1>2, <1>3

(* A good result is passed on, or reported.                                *)
LEMMA ReturnPasses ==
    ASSUME PipelineInv, NEW q \in Requests, NEW i \in Impls, AnswerInv(q), Return(q, i),
           i \in Left[q], Left' = [Left EXCEPT ![q] = @ \ {i}],
           Told' = [Told EXCEPT ![q] = @ \cup {<<i, out'[q][i]>>}]
    PROVE  Promise!Turn(q, i)
<1>1. PICK v \in Results(i, in[q][i]) : out' = [out EXCEPT ![q][i] = v] /\ GoOn(q, v)
  BY DEF Return
<1>2. st[q][i] \in Active /\ position' = position
  BY DEF Return, Heard
<1>3. phase[q] \in Live /\ in[q][i] = value[q]
  BY <1>2, OthersBefore DEF AnswerInv, CarriedInv
<1>4. out'[q][i] = v /\ v \in Promise!Results(i, value[q])
  BY <1>1, <1>3, SameWords DEF PipelineInv, TypeInv, TypeOK
<1>5. Promise!Reported(q, i, v)
  BY <1>4 DEF Promise!Reported, Told
<1>6. CASE phase[q] = "sequential"
  <2>1. /\ Promise!HasTurn(q, i)
        /\ Queued(q) = {} <=> Left[q] = {i}
    BY <1>2, <1>6, FirstTurn
  <2>2. value' = [value EXCEPT ![q] = v]
    BY <1>1, <1>6 DEF GoOn
  <2>3. phase' = [phase EXCEPT ![q] = IF Left[q] = {i} THEN "delivered"
                                      ELSE IF v = NoCtx THEN "raised" ELSE "sequential"]
    BY <1>1, <1>6, <2>1 DEF GoOn, SpanOpens
  <2>4. Promise!Pass(q, i)
    BY <1>2, <1>4, <1>5, <2>1, <2>2, <2>3 DEF Promise!Pass, Promise!EndTurn, Promise!Becomes, Left
  <2> QED
    BY <2>4 DEF Promise!Turn
<1>7. CASE phase[q] # "sequential"
  <2>1. phase' = phase /\ value' = value
    BY <1>1, <1>7 DEF GoOn
  <2>2. Promise!Report(q, i)
    BY <1>2, <1>3, <1>4, <1>5, <1>7, <2>1 DEF Promise!Report, Promise!EndTurn, Left, Live
  <2> QED
    BY <2>2 DEF Promise!Turn
<1> QED
  BY <1>6, <1>7

(* A failure with fallback is passed over, one without stops.              *)
LEMMA DegradePasses ==
    ASSUME PipelineInv, NEW q \in Requests, NEW i \in Impls, NEW s, AnswerInv(q),
           st[q][i] \in Active, Degrades(q, i, s),
           i \in Left[q], Left' = [Left EXCEPT ![q] = @ \ {i}], Told' = Told
    PROVE  Promise!Turn(q, i)
<1>1. phase[q] \in Live /\ in[q][i] = value[q] /\ position' = position
  BY OthersBefore DEF AnswerInv, CarriedInv, Degrades
<1>2. in[q][i] # NoCtx
  BY DEF PipelineInv, TypeInv, GivenInv
<1>3. CASE i \notin Fallbacks
  <2>1. Escape(q, s)
    BY <1>3 DEF Degrades, Masked
  <2> QED
    BY <1>1, <2>1, EscapeStops
<1>4. CASE i \in Fallbacks /\ phase[q] = "sequential"
  <2>1. GoOn(q, in[q][i])
    BY <1>4 DEF Degrades, Masked, DegradedTo
  <2>2. /\ Promise!HasTurn(q, i)
        /\ Queued(q) = {} <=> Left[q] = {i}
    BY <1>4, FirstTurn
  <2>3. value' = value
    <3>1. value' = [value EXCEPT ![q] = value[q]]
      BY <1>1, <1>4, <2>1 DEF GoOn
    <3>2. value \in [Requests -> Ctx \cup {NoCtx}]
      BY DEF PipelineInv, TypeInv, TypeOK
    <3> QED
      BY <3>1, <3>2
  <2>4. phase' = [phase EXCEPT ![q] = IF Left[q] = {i} THEN "delivered" ELSE "sequential"]
    BY <1>2, <1>4, <2>1, <2>2 DEF GoOn, SpanOpens
  <2>5. Promise!PassOver(q, i)
    BY <1>1, <1>4, <2>2, <2>3, <2>4
       DEF Promise!PassOver, Promise!EndTurn, Promise!Becomes, Left, Told
  <2> QED
    BY <2>5 DEF Promise!Turn
<1>5. CASE i \in Fallbacks /\ phase[q] # "sequential"
  <2>1. phase' = phase /\ value' = value
    BY <1>5 DEF Degrades, Masked, GoOn
  <2>2. Promise!Report(q, i)
    BY <1>1, <1>5, <2>1 DEF Promise!Report, Promise!EndTurn, Left, Told, Live
  <2> QED
    BY <2>2 DEF Promise!Turn
<1> QED
  BY <1>3, <1>4, <1>5

(* Every step of a _run_one is a turn, a cancelled request, or a stutter.  *)
LEMMA StepPromised ==
    ASSUME PipelineInv, NEW q \in Requests, NEW i \in Impls, AnswerInv(q), Step(q, i)
    PROVE  Promise!Turn(q, i) \/ Promise!GiveUp(q)
           \/ (UNCHANGED <<position, phase, value>> /\ Left' = Left /\ Told' = Told)
<1>1. Aside(q, i) /\ \A p \in Requests \ {q} : Same(p)
  BY StepAside
<1>2. position' = position
  BY <1>1 DEF Aside
<1>3. ASSUME st[q][i] \in Active, st'[q][i] \in Statuses \cup {"cancelled"}
      PROVE  /\ i \in Left[q]
             /\ Left' = [Left EXCEPT ![q] = @ \ {i}]
             /\ i \notin Good(q)' => Told' = Told
             /\ i \in Good(q)' => Told' = [Told EXCEPT ![q] = @ \cup {<<i, out'[q][i]>>}]
  BY <1>1, <1>3, TurnEnds
<1>4. CASE Enter(q, i) \/ Expire(q, i) \/ OrphanEnds(q, i)
  <2>1. /\ UNCHANGED <<position, phase, value, out, unaudited>>
        /\ \/ st[q][i] \in {"queued", "running"} /\ st'[q][i] \in {"running", "expired"}
           \/ st[q][i] = "orphaned" /\ st'[q][i] = "cancelled"
    BY <1>4 DEF Enter, Expire, OrphanEnds, Settle, PipelineInv, TypeInv, TypeOK
  <2>2. \A p \in Requests \ {q} : Unended(p)' = Unended(p) /\ Reports(p)' = Reports(p)
    BY <1>1, SameTurns
  <2>3. Unended(q)' = Unended(q)
    BY <1>1, <2>1 DEF Unended, Aside, Active
  <2>4. Good(q)' = Good(q)
    BY <1>1, <2>1 DEF Good, Aside
  <2>5. Reports(q)' = Reports(q)
    BY <2>1, <2>4 DEF Reports
  <2> QED
    BY <2>1, <2>2, <2>3, <2>5 DEF Left, Told
<1>5. CASE Return(q, i)
  <2>1. st[q][i] \in Active /\ st'[q][i] = "ok" /\ unaudited' = unaudited
    BY <1>5 DEF Return, Heard, Settle, Audit, PipelineInv, TypeInv, TypeOK
  <2>2. i \in Good(q)'
    BY <2>1, OthersBefore DEF Good
  <2> QED
    BY <1>3, <1>5, <2>1, <2>2, ReturnPasses DEF Statuses
<1>6. CASE Fail(q, i) \/ OwnTimeout(q, i) \/ Unwind(q, i) \/ AuditRecovers(q, i)
  <2>1. PICK s \in {"timeout", "error"} : st[q][i] \in Active /\ Degrades(q, i, s)
    BY <1>6, DegradeCases
  <2>2. st'[q][i] = s
    BY <2>1 DEF Degrades, Settle, PipelineInv, TypeInv, TypeOK
  <2>3. i \notin Good(q)'
    BY <2>2 DEF Good
  <2> QED
    BY <1>3, <2>1, <2>2, <2>3, DegradePasses DEF Statuses
<1>7. CASE Block(q, i)
  <2>1. st[q][i] \in Active /\ st'[q][i] = "blocked" /\ Escape(q, "blocked")
    BY <1>7 DEF Block, Heard, Settle, PipelineInv, TypeInv, TypeOK
  <2>2. i \notin Good(q)'
    BY <2>1 DEF Good
  <2> QED
    BY <1>2, <1>3, <2>1, <2>2, EscapeStops DEF Statuses
<1>8. CASE Skip(q, i)
  <2>1. st[q][i] \in Active /\ st'[q][i] = "skip" /\ value' = value
        /\ IF phase[q] = "sequential" THEN phase' = [phase EXCEPT ![q] = "delivered"]
           ELSE phase' = phase
    BY <1>8 DEF Skip, Heard, Settle, PipelineInv, TypeInv, TypeOK
  <2>2. i \notin Good(q)'
    BY <2>1 DEF Good
  <2>3. i \in Left[q] /\ Left' = [Left EXCEPT ![q] = @ \ {i}] /\ Told' = Told
    BY <1>3, <2>1, <2>2 DEF Statuses
  <2>4. phase[q] = "sequential" => Promise!Stop(q, i)
    BY <1>2, <2>1, <2>3, FirstTurn
       DEF Promise!Stop, Promise!EndTurn, Promise!Becomes, Left, Told
  <2>5. phase[q] # "sequential" => Promise!Report(q, i)
    BY <1>2, <2>1, <2>3, OthersBefore DEF Promise!Report, Promise!EndTurn, Left, Told, Live
  <2> QED
    BY <2>4, <2>5 DEF Promise!Turn
<1>9. ASSUME NEW s \in Statuses \ {"skip"}, AuditFails(q, i, s) PROVE Promise!Turn(q, i)
  <2>1. /\ st[q][i] \in Active /\ st'[q][i] = s /\ Escape(q, "oserror")
        /\ i \in unaudited'[q]
    BY <1>9 DEF AuditFails, Heard, Settle, PipelineInv, TypeInv, TypeOK
  <2>2. i \notin Good(q)'
    BY <2>1 DEF Good
  <2> QED
    BY <1>2, <1>3, <2>1, <2>2, EscapeStops
<1>10. CASE Abandon(q, i)
  <2>1. /\ st[q][i] \in Active /\ st'[q][i] = "cancelled" /\ value' = value
        /\ phase' = [phase EXCEPT ![q] = IF phase[q] = "sequential" THEN "cancelled"
                                         ELSE phase[q]]
    BY <1>10 DEF Abandon, Settle, Active, PipelineInv, TypeInv, TypeOK
  <2>2. i \notin Good(q)'
    BY <2>1 DEF Good
  <2>3. i \in Left[q] /\ Left' = [Left EXCEPT ![q] = @ \ {i}] /\ Told' = Told
    BY <1>3, <2>1, <2>2
  <2>4. phase[q] = "sequential" => Promise!GiveUp(q)
    BY <1>2, <2>1, <2>3, FirstTurn
       DEF Promise!GiveUp, Promise!EndTurn, Promise!Becomes, Left, Told
  <2>5. phase[q] # "sequential" => phase' = phase
    BY <2>1 DEF PipelineInv, TypeInv, TypeOK
  <2>6. phase[q] # "sequential" => Promise!Report(q, i)
    BY <1>2, <2>1, <2>3, <2>5, OthersBefore
       DEF Promise!Report, Promise!EndTurn, Left, Told, Live
  <2> QED
    BY <2>4, <2>6 DEF Promise!Turn
<1>11. CASE OwnCancel(q, i)
  <2>1. st[q][i] \in Active /\ st'[q][i] = "cancelled" /\ Escape(q, "cancelled")
    BY <1>11 DEF OwnCancel, Settle, Active, PipelineInv, TypeInv, TypeOK
  <2>2. i \notin Good(q)'
    BY <2>1 DEF Good
  <2> QED
    BY <1>2, <1>3, <2>1, <2>2, EscapeStops
<1> QED
  BY <1>4, <1>5, <1>6, <1>7, <1>8, <1>9, <1>10, <1>11 DEF Step

(* Registering, asking, cancelling.                                        *)
LEMMA RegisterPromised ==
    ASSUME PipelineInv, NEW i \in Impls, Implement(i)
    PROVE  Promise!Register(i)
<1>1. /\ position' = [position EXCEPT ![i] = registrations + 1]
      /\ position[i] = 0 /\ position \in [Impls -> Nat] /\ registrations \in Nat
      /\ \A j \in Impls : position[j] <= registrations
  BY DEF Implement, PipelineInv, TypeInv, TypeOK, PlacesInv
<1>2. \A j \in Impls : IF j = i THEN \A k \in Impls : position'[i] > position[k]
                       ELSE position'[j] = position[j]
  BY <1>1
<1>3. Left' = Left /\ Told' = Told /\ phase' = phase /\ value' = value
  BY DEF Implement, Left, Told, Unended, Reports, Good
<1> QED
  BY <1>1, <1>2, <1>3 DEF Promise!Register, Left, Told

LEMMA AskPromised ==
    ASSUME PipelineInv, NEW q \in Requests, NEW c \in Contexts, Run(q, c)
    PROVE  Promise!Ask(q, c)
<1> USE DEF PipelineInv, TypeInv, TypeOK
<1> DEFINE found == GetImpls(c)
<1>1. /\ phase[q] = "idle" /\ plan[q] = {} /\ position' = position
      /\ value' = [value EXCEPT ![q] = c]
      /\ phase' = [phase EXCEPT ![q] = IF found = {} THEN "delivered"
                                       ELSE IF RunsParallel(found) THEN "parallel"
                                       ELSE "sequential"]
      /\ st' = [st EXCEPT ![q] = [j \in Impls |-> IF j \in found THEN "queued" ELSE "none"]]
      /\ out' = out /\ unaudited' = unaudited
  BY DEF Run, SnapshotInv
<1>2. found = {j \in Impls : position[j] # 0 /\ Promise!Matches(j, c)}
  BY SameWords DEF GetImpls
<1>3. Promise!RunsParallel(found) <=> RunsParallel(found)
  BY SameWords
<1>4. \A p \in Requests \ {q} : Unended(p)' = Unended(p) /\ Reports(p)' = Reports(p)
  BY <1>1 DEF Unended, Reports, Good
<1>5. Unended(q)' = found
  BY <1>1 DEF Unended, Active, GetImpls
<1>6. Good(q) = {} /\ Good(q)' = {}
  <2>1. \A j \in Impls : st[q][j] = "none"
    BY <1>1 DEF SnapshotInv
  <2>2. \A j \in Impls : st'[q][j] \in {"queued", "none"}
    BY <1>1
  <2> QED
    BY <2>1, <2>2 DEF Good
<1>7. Told' = Told
  BY <1>4, <1>6 DEF Told, Reports
<1>8. Left' = [Left EXCEPT ![q] = found]
  BY <1>4, <1>5 DEF Left
<1> HIDE DEF found
<1> QED
  BY <1>1, <1>2, <1>3, <1>7, <1>8 DEF Promise!Ask, Left, Told

LEMMA CancelPromised ==
    ASSUME PipelineInv, NEW q \in Requests, Cancel(q)
    PROVE  Promise!Leave(q) \/ Promise!GiveUp(q)
           \/ (UNCHANGED <<position, phase, value>> /\ Left' = Left /\ Told' = Told)
<1> USE DEF PipelineInv, TypeInv, TypeOK
<1>1. /\ phase[q] \in Live
      /\ UNCHANGED <<position, value, out, unaudited>>
      /\ \A p \in Requests \ {q} : st'[p] = st[p]
      /\ \A i \in Impls : st'[q][i] = IF st[q][i] \in Active THEN Thrown(st[q][i])
                                      ELSE IF st[q][i] = "queued" /\ phase[q] # "sequential"
                                           THEN "cancelled" ELSE st[q][i]
      /\ phase' = [phase EXCEPT ![q] =
                     IF phase[q] # "sequential" THEN "gathering"
                     ELSE IF \E i \in Running(q) : Thrown(st[q][i]) \in Active THEN phase[q]
                     ELSE "cancelled"]
  BY DEF Cancel
<1>2. \A i \in Impls : Thrown(st[q][i]) \in {"cancelling", "orphaned"}
  BY DEF Thrown
<1>3. \A i \in Impls : st'[q][i] = "ok" <=> st[q][i] = "ok"
  BY <1>1, <1>2 DEF Active
<1>4. \A p \in Requests : Good(p)' = Good(p)
  BY <1>1, <1>3 DEF Good
<1>5. Told' = Told
  BY <1>1, <1>4 DEF Told, Reports
<1>6. \A p \in Requests \ {q} : Unended(p)' = Unended(p)
  BY <1>1 DEF Unended
<1>7. Unended(q)' \subseteq Unended(q)
  BY <1>1, <1>2 DEF Unended, Active
<1>8. Left' = [Left EXCEPT ![q] = Unended(q)'] /\ Left[q] = Unended(q)
  BY <1>6 DEF Left
<1>9. CASE phase[q] # "sequential"
  <2>1. phase' = [phase EXCEPT ![q] = "gathering"] /\ phase[q] \in {"parallel", "gathering"}
    BY <1>1, <1>9 DEF Live
  <2> QED
    BY <1>1, <1>5, <1>7, <1>8, <2>1 DEF Promise!Leave, Promise!Becomes, Left, Told
<1>10. CASE phase[q] = "sequential" /\ Running(q) = {}
  <2>1. phase' = [phase EXCEPT ![q] = "cancelled"]
    BY <1>1, <1>10
  <2>2. Unended(q)' = Unended(q)
    BY <1>1, <1>10 DEF Unended, Running, Active
  <2>3. Left' = Left
    BY <1>6, <2>2 DEF Left
  <2> QED
    BY <1>1, <1>5, <1>10, <2>1, <2>3 DEF Promise!GiveUp, Promise!Becomes, Left, Told
<1>11. ASSUME phase[q] = "sequential", NEW i \in Running(q)
       PROVE  Promise!GiveUp(q)
              \/ (UNCHANGED <<position, phase, value>> /\ Left' = Left /\ Told' = Told)
  <2>1. i \in Impls /\ st[q][i] \in Active /\ Running(q) = {i}
    BY <1>11, OneAtATime DEF Running
  <2>2. \A j \in Impls \ {i} : st'[q][j] = st[q][j]
    BY <1>1, <1>11, <2>1 DEF Running
  <2>3. CASE Thrown(st[q][i]) \in Active
    <3>1. phase' = phase
      BY <1>1, <1>11, <2>3
    <3>2. Unended(q)' = Unended(q)
      BY <1>1, <2>1, <2>2, <2>3 DEF Unended
    <3>3. Left' = Left
      BY <1>6, <3>2 DEF Left
    <3> QED
      BY <1>1, <1>5, <3>1, <3>3
  <2>4. CASE Thrown(st[q][i]) \notin Active
    <3>1. phase' = [phase EXCEPT ![q] = "cancelled"]
      BY <1>1, <1>11, <2>1, <2>4
    <3>2. Unended(q)' = Unended(q) \ {i} /\ i \in Unended(q)
      BY <1>1, <1>2, <2>1, <2>2, <2>4 DEF Unended
    <3>3. i \in Left[q] /\ Left' = [Left EXCEPT ![q] = @ \ {i}]
      BY <1>8, <3>2
    <3>4. Promise!HasTurn(q, i)
      BY <1>11, <2>1, FirstTurn
    <3> QED
      BY <1>1, <1>5, <1>11, <2>1, <3>1, <3>3, <3>4
         DEF Promise!GiveUp, Promise!EndTurn, Promise!Becomes, Left, Told
  <2> QED
    BY <2>3, <2>4
<1> QED
  BY <1>9, <1>10, <1>11

(* The merge of a parallel request is the answer that was promised.        *)
LEMMA MergePromised ==
    ASSUME PipelineInv, NEW q \in Requests, Merge(q)
    PROVE  Promise!Answer(q)
<1> USE DEF PipelineInv, TypeInv, TypeOK
<1>1. /\ phase[q] = "parallel" /\ Queued(q) = {} /\ Running(q) = {}
      /\ UNCHANGED <<position, st, out, unaudited>>
  BY DEF Merge
<1>2. Left' = Left /\ Told' = Told
  BY <1>1 DEF Left, Told, Unended, Reports, Good
<1>3. Left[q] = {} /\ Told[q] = Reports(q)
  BY <1>1 DEF Left, Told, Unended, Queued, Running
<1>4. (\E r \in Reports(q) : r[2] = NoCtx) <=> \E i \in Good(q) : out[q][i] = NoCtx
  <2>1. \A r \in Reports(q) : \E i \in Good(q) : r = <<i, out[q][i]>>
    BY DEF Reports
  <2>2. \A i \in Good(q) : <<i, out[q][i]>> \in Reports(q)
    BY DEF Reports
  <2>3. ASSUME NEW r \in Reports(q), r[2] = NoCtx PROVE \E i \in Good(q) : out[q][i] = NoCtx
    <3>1. PICK i \in Good(q) : r = <<i, out[q][i]>>
      BY <2>1
    <3> QED
      BY <2>3, <3>1
  <2>4. ASSUME NEW i \in Good(q), out[q][i] = NoCtx PROVE \E r \in Reports(q) : r[2] = NoCtx
    <3>1. <<i, out[q][i]>> \in Reports(q) /\ <<i, out[q][i]>>[2] = NoCtx
      BY <2>2, <2>4
    <3> QED
      BY <3>1
  <2> QED
    BY <2>3, <2>4
<1>5. CASE \E i \in Good(q) : out[q][i] = NoCtx
  <2>1. phase' = [phase EXCEPT ![q] = "raised"] /\ value' = value
    BY <1>5 DEF Merge
  <2> QED
    BY <1>1, <1>2, <1>3, <1>4, <1>5, <2>1 DEF Promise!Answer, Promise!Becomes, Left, Told
<1>6. CASE ~\E i \in Good(q) : out[q][i] = NoCtx
  <2>1. phase' = [phase EXCEPT ![q] = "delivered"]
    BY <1>6 DEF Merge
  <2>2. PICK m \in Meta, r \in SUBSET Keys :
           /\ IsMerge(q, m, r)
           /\ value' = [value EXCEPT ![q] =
                          [tool |-> value[q].tool, meta |-> m, redacted |-> r]]
    BY <1>6 DEF Merge
  <2> DEFINE v == [tool |-> value[q].tool, meta |-> m, redacted |-> r]
  <2>3. value[q] \in Ctx
    BY <1>1 DEF GivenInv
  <2>4. v \in Ctx /\ v.tool = value[q].tool /\ v.meta = m /\ v.redacted = r
    BY <2>3 DEF Ctx
  <2>5. value' = [value EXCEPT ![q] = v]
    BY <2>2
  <2> HIDE DEF v
  <2>6. ASSUME NEW k \in Keys
        PROVE  LET writes == {w \in Reports(q) : w[2].meta[k] # Absent}
               IN  IF writes = {} THEN m[k] = value[q].meta[k]
                   ELSE \E w \in writes : Promise!LastOf(writes, w) /\ m[k] = w[2].meta[k]
    <3> DEFINE writes == {w \in Reports(q) : w[2].meta[k] # Absent}
    <3>1. \A w \in writes : \E i \in Writers(q, k) : w = <<i, out[q][i]>>
      BY DEF Reports, Writers, Good
    <3>2. \A i \in Writers(q, k) : <<i, out[q][i]>> \in writes
      BY DEF Reports, Writers, Good
    <3> HIDE DEF writes
    <3>3. CASE Writers(q, k) = {}
      BY <2>2, <3>1, <3>3 DEF IsMerge, writes
    <3>4. CASE Writers(q, k) # {}
      <4>1. PICK i \in Writers(q, k) : IsLast(i, Writers(q, k)) /\ m[k] = out[q][i].meta[k]
        BY <2>2, <3>4 DEF IsMerge
      <4>2. Promise!LastOf(writes, <<i, out[q][i]>>)
        BY <3>1, <3>2, <4>1, SameWords DEF Promise!LastOf, IsLast
      <4> QED
        BY <3>2, <4>1, <4>2 DEF writes
    <3> QED
      BY <3>3, <3>4
  <2>7. LET lists == {w \in Reports(q) : w[2].redacted # {}}
        IN  IF lists = {} THEN r = value[q].redacted
            ELSE \E w \in lists : Promise!LastOf(lists, w) /\ r = w[2].redacted
    <3> DEFINE lists == {w \in Reports(q) : w[2].redacted # {}}
    <3>1. \A w \in lists : \E i \in Redacters(q) : w = <<i, out[q][i]>>
      BY DEF Reports, Redacters, Good
    <3>2. \A i \in Redacters(q) : <<i, out[q][i]>> \in lists
      BY DEF Reports, Redacters, Good
    <3> HIDE DEF lists
    <3>3. CASE Redacters(q) = {}
      BY <2>2, <3>1, <3>3 DEF IsMerge, lists
    <3>4. CASE Redacters(q) # {}
      <4>1. PICK i \in Redacters(q) : IsLast(i, Redacters(q)) /\ r = out[q][i].redacted
        BY <2>2, <3>4 DEF IsMerge
      <4>2. Promise!LastOf(lists, <<i, out[q][i]>>)
        BY <3>1, <3>2, <4>1, SameWords DEF Promise!LastOf, IsLast
      <4> QED
        BY <3>2, <4>1, <4>2 DEF lists
    <3> QED
      BY <3>3, <3>4
  <2>8. Promise!LaidOver(q, v)
    BY <1>3, <2>4, <2>6, <2>7 DEF Promise!LaidOver, Told
  <2>9. v \in Promise!Ctx
    BY <2>4, SameWords
  <2> QED
    BY <1>1, <1>2, <1>3, <1>4, <1>6, <2>1, <2>5, <2>8, <2>9
       DEF Promise!Answer, Promise!Becomes, Left, Told
<1> QED
  BY <1>5, <1>6

LEMMA GonePromised ==
    ASSUME NEW q \in Requests, AnswerInv(q), GatherCancelled(q)
    PROVE  Promise!Gone(q)
<1>1. /\ phase[q] = "gathering" /\ Running(q) = {}
      /\ phase' = [phase EXCEPT ![q] = "cancelled"]
      /\ UNCHANGED <<position, value, st, out, unaudited>>
  BY DEF GatherCancelled
<1>2. Left' = Left /\ Told' = Told
  BY <1>1 DEF Left, Told, Unended, Reports, Good
<1>3. Left[q] = {}
  BY <1>1 DEF Left, Unended, Running, AnswerInv, CarriedInv
<1> QED
  BY <1>1, <1>2, <1>3 DEF Promise!Gone, Promise!Becomes, Left, Told

(* Every step of the pipeline is a step of the promise, or a stutter.      *)
LEMMA NextPromised ==
    ASSUME AnswersInv, [Next]_vars
    PROVE  [Promise!Next]_(Promise!promiseVars)
<1> DEFINE Stutter == UNCHANGED <<position, phase, value>> /\ Left' = Left /\ Told' = Told
<1>1. Stutter => UNCHANGED Promise!promiseVars
  BY DEF Promise!promiseVars, Left, Told
<1>2. CASE UNCHANGED vars
  <2>1. Stutter
    BY <1>2 DEF vars, Left, Told, Unended, Reports, Good
  <2> QED
    BY <1>1, <2>1
<1> HIDE DEF Stutter
<1> USE DEF AnswersInv
<1>3. ASSUME NEW i \in Impls, Implement(i) PROVE Promise!Next
  BY <1>3, RegisterPromised DEF Promise!Next
<1>4. ASSUME NEW q \in Requests, NEW c \in Contexts, Run(q, c) PROVE Promise!Next
  BY <1>4, AskPromised DEF Promise!Next
<1>5. ASSUME NEW q \in Requests, NEW i \in Impls, Step(q, i) PROVE Promise!Next \/ Stutter
  BY <1>5, StepPromised DEF Promise!Next, Stutter
<1>6. ASSUME NEW q \in Requests, Cancel(q) PROVE Promise!Next \/ Stutter
  BY <1>6, CancelPromised DEF Promise!Next, Stutter
<1>7. ASSUME NEW q \in Requests, Merge(q) PROVE Promise!Next
  BY <1>7, MergePromised DEF Promise!Next
<1>8. ASSUME NEW q \in Requests, GatherCancelled(q) PROVE Promise!Next
  BY <1>8, GonePromised DEF Promise!Next
<1> QED
  BY <1>1, <1>2, <1>3, <1>4, <1>5, <1>6, <1>7, <1>8 DEF Next

(* However requests, bodies, timers, cancellations and registrations       *)
(* interleave, each request is served as if every hook took its turn at    *)
(* once, in the order of the list, and is answered once.                   *)
THEOREM PromiseTheorem == Spec => KeepsPromise
<1>1. Spec => []AnswersInv
  BY AnswersInvariance
<1> QED
  BY <1>1, PromiseInit, NextPromised, PTL DEF Spec, KeepsPromise, Promise!Spec
=============================================================================
