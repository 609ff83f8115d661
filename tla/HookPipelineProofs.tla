------------------------- MODULE HookPipelineProofs -------------------------
(***************************************************************************)
(* Theorems about HookPipeline, for any number of requests and             *)
(* implementations, any orders, filters and flags, and any hook bodies.    *)
(***************************************************************************)
EXTENDS HookPipeline, SequenceTheorems, TLAPS

-----------------------------------------------------------------------------
(* The context operations *)

(* What the audit shows of a context is a value of its metadata or the     *)
(* hidden mark.                                                            *)
LEMMA SafeMetaType ==
    ASSUME NEW c \in Ctx
    PROVE  SafeMeta(c) \in [Keys -> Vals \cup {Absent, Hidden}]
BY DEF SafeMeta, Ctx, Meta

(* A recorded run leaves the meter a meter.                                *)
LEMMA RecordedType ==
    ASSUME NEW m \in Meter, NEW i \in Impls, NEW s \in Statuses
    PROVE  Recorded(m, i, s) \in Meter
<1>1. Added(m.executions[i], s) \in [Statuses -> Nat]
  BY DEF Meter, Added
<1>2. [m.executions EXCEPT ![i] = Added(m.executions[i], s)] \in [Impls -> [Statuses -> Nat]]
  BY <1>1 DEF Meter
<1>3. Added(m.errors, i) \in [Impls -> Nat] /\ Added(m.blocked, i) \in [Impls -> Nat]
  BY DEF Meter, Added
<1> QED
  BY <1>2, <1>3 DEF Recorded, Meter

(* p95 is one of the observations, and (but for a single one) never the    *)
(* largest: at most 95% of them are at its place or in front of it.        *)
THEOREM P95InRange ==
    ASSUME NEW n \in Nat \ {0}
    PROVE  /\ P95Index(n) \in 0..(n - 1)
           /\ n > 1 => P95Index(n) < n - 1 /\ 20 * (P95Index(n) + 1) <= 19 * n
BY DEF P95Index

(* A body given a context returns a context, or None, whatever edits it    *)
(* makes and in whatever order.                                            *)
LEMMA ResultsType ==
    ASSUME NEW i \in Impls, NEW c \in Ctx
    PROVE  Results(i, c) \subseteq Ctx \cup {NoCtx}
<1>1. ASSUME NEW s \in Ctx, NEW e \in Meta PROVE Enrich(s, e) \in Ctx
  BY DEF Enrich, Ctx, Meta
<1>2. ASSUME NEW s \in Ctx, NEW R \in SUBSET Keys PROVE Redact(s, R) \in Ctx /\ Relist(s, R) \in Ctx
  BY DEF Redact, Relist, Ctx
<1>3. ASSUME NEW s \in Ctx, NEW t \in Tools PROVE ReplaceTool(s, t) \in Ctx
  BY DEF ReplaceTool, Ctx
<1>4. ASSUME NEW s \in Ctx, NEW m \in Meta PROVE ReplaceMeta(s, m) \in Ctx
  BY DEF ReplaceMeta, Ctx
<1>5. /\ Redacts[i] \subseteq Keys /\ Retools[i] \subseteq Tools
      /\ Rewrites[i] \subseteq Meta /\ Relists[i] \subseteq SUBSET Keys
  BY ImplsAssumption
<1>6. {c} \cup {ReplaceMeta(c, m) : m \in Rewrites[i]} \subseteq Ctx
  BY <1>4, <1>5
<1>7. ASSUME NEW S \in SUBSET Ctx
      PROVE  S \cup {Relist(s, L) : s \in S, L \in Relists[i]} \subseteq Ctx
  BY <1>2, <1>5
<1>8. ASSUME NEW S \in SUBSET Ctx
      PROVE  S \cup {ReplaceTool(s, t) : s \in S, t \in Retools[i]} \subseteq Ctx
  BY <1>3, <1>5
<1>9. ASSUME NEW S \in SUBSET Ctx
      PROVE  {Redact(Enrich(s, e), R) : s \in S, e \in Writes(i), R \in SUBSET Redacts[i]}
                \subseteq Ctx
  BY <1>1, <1>2, <1>5 DEF Writes
<1> QED
  BY <1>6, <1>7, <1>8, <1>9 DEF Results

-----------------------------------------------------------------------------
(* Type correctness.  A body is only ever given a context, never None:     *)
(* that part is needed to type what it returns.                            *)
GivenInv ==
    \A q \in Requests :
        /\ phase[q] \in {"sequential", "parallel"} => value[q] # NoCtx
        /\ \A i \in Impls : st[q][i] \in Active => in[q][i] # NoCtx

TypeInv == TypeOK /\ GivenInv

(* One audit entry more is still a sequence of entries.                    *)
LEMMA AuditType ==
    ASSUME TypeInv, NEW q \in Requests, NEW i \in Impls,
           NEW s \in Statuses \ {"skip"}, st[q][i] \in Active, Audit(q, i, s)
    PROVE  auditOpen' \in BOOLEAN /\ log' \in [Requests -> Seq(Entry)]
           /\ unaudited' \in [Requests -> SUBSET Impls]
<1>1. in[q][i] \in Ctx
  BY DEF TypeInv, TypeOK, GivenInv
<1>2. SafeMeta(in[q][i]) \in [Keys -> Vals \cup {Absent, Hidden}]
  BY <1>1, SafeMetaType
<1> DEFINE e == [impl |-> i, status |-> s, shown |-> SafeMeta(in[q][i])]
<1>3. e \in Entry
  BY <1>2 DEF Entry
<1> HIDE DEF e
<1>4. log[q] \in Seq(Entry) /\ Append(log[q], e) \in Seq(Entry)
  BY <1>3 DEF TypeInv, TypeOK
<1>5. log' = [log EXCEPT ![q] = Append(log[q], e)]
  BY DEF Audit, e
<1> QED
  BY <1>4, <1>5 DEF Audit, TypeInv, TypeOK

(* The ways an executor takes the end of a _run_one.                       *)
LEMMA GoOnType ==
    ASSUME TypeInv, NEW q \in Requests, NEW v \in Ctx \cup {NoCtx}, GoOn(q, v)
    PROVE  /\ value' \in [Requests -> Ctx \cup {NoCtx}]
           /\ phase' \in [Requests -> Phases]
           /\ cause' \in [Requests -> Causes]
<1> DEFINE left == Queued(q)
           p == IF left = {} THEN "delivered" ELSE IF v = NoCtx THEN "raised" ELSE phase[q]
           e == IF left # {} /\ v = NoCtx THEN "attribute" ELSE cause[q]
<1>1. p \in Phases /\ e \in Causes
  BY DEF TypeInv, TypeOK, Phases, Live, Ended, Causes
<1>2. CASE phase[q] = "sequential"
  <2>1. /\ value' = [value EXCEPT ![q] = v]
        /\ phase' = [phase EXCEPT ![q] = p]
        /\ cause' = [cause EXCEPT ![q] = e]
    BY <1>2 DEF GoOn, SpanOpens
  <2> HIDE DEF p, e
  <2> QED
    BY <1>1, <2>1 DEF TypeInv, TypeOK
<1>3. CASE phase[q] # "sequential"
  BY <1>3 DEF GoOn, SpanOpens, TypeInv, TypeOK
<1> QED
  BY <1>2, <1>3

(* A raise out of the executor keeps the types.                            *)
LEMMA EscapeType ==
    ASSUME TypeInv, NEW q \in Requests,
           NEW e \in {"blocked", "timeout", "error", "oserror", "cancelled"}, Escape(q, e)
    PROVE  /\ value' \in [Requests -> Ctx \cup {NoCtx}]
           /\ phase' \in [Requests -> Phases]
           /\ cause' \in [Requests -> Causes]
BY DEF Escape, TypeInv, TypeOK, Phases, Ended, Causes

(* So does the end of a _run_one by an exception.                          *)
LEMMA DegradeType ==
    ASSUME TypeInv, NEW q \in Requests, NEW i \in Impls, NEW s \in {"timeout", "error"},
           st[q][i] \in Active, Degrade(q, i, s)
    PROVE  TypeOK'
<1>1. auditOpen' \in BOOLEAN /\ log' \in [Requests -> Seq(Entry)]
      /\ unaudited' \in [Requests -> SUBSET Impls]
  BY AuditType DEF Degrade, Statuses
<1>2. in[q][i] \in Ctx
  BY DEF TypeInv, TypeOK, GivenInv
<1>3. /\ value' \in [Requests -> Ctx \cup {NoCtx}]
      /\ phase' \in [Requests -> Phases]
      /\ cause' \in [Requests -> Causes]
  <2>1. CASE Masked(i)
    BY <1>2, <2>1, GoOnType DEF Degrade, DegradedTo
  <2>2. CASE ~Masked(i)
    BY <2>2, EscapeType DEF Degrade
  <2> QED
    BY <2>1, <2>2
<1>4. metric' \in Meter
  BY RecordedType DEF Degrade, Count, TypeInv, TypeOK, Statuses
<1>5. st' \in [Requests -> [Impls -> Stations]]
  BY DEF Degrade, Settle, TypeInv, TypeOK, Statuses, Stations
<1> QED
  BY <1>1, <1>3, <1>4, <1>5 DEF Degrade, TypeInv, TypeOK

(* Every step of the pipeline keeps the types ...                          *)
LEMMA TypeStep ==
    ASSUME TypeInv, [Next]_vars
    PROVE  TypeOK'
<1> USE DEF TypeInv
<1>1. ASSUME NEW i \in Impls, Implement(i) PROVE TypeOK'
  BY <1>1 DEF Implement, TypeOK
<1>2. ASSUME NEW q \in Requests, NEW c \in Contexts, Run(q, c) PROVE TypeOK'
  <2>1. c \in Ctx
    BY PipelineAssumption
  <2>2. GetImpls(c) \in SUBSET Impls
    BY DEF GetImpls
  <2> QED
    BY <1>2, <2>1, <2>2 DEF Run, TypeOK, Phases, Live, Ended, Stations
<1>3. ASSUME NEW q \in Requests, NEW i \in Impls, Step(q, i) PROVE TypeOK'
  <2>1. CASE Enter(q, i)
    BY <2>1 DEF Enter, TypeOK, Active, Stations
  <2>2. CASE Return(q, i)
    <3>1. st[q][i] \in Active /\ in[q][i] \in Ctx
      BY <2>2 DEF Return, Heard, TypeOK, GivenInv
    <3>2. auditOpen' \in BOOLEAN /\ log' \in [Requests -> Seq(Entry)]
          /\ unaudited' \in [Requests -> SUBSET Impls]
      BY <2>2, <3>1, AuditType DEF Return, Statuses
    <3>3. PICK v \in Results(i, in[q][i]) : out' = [out EXCEPT ![q][i] = v] /\ GoOn(q, v)
      BY <2>2 DEF Return
    <3>4. v \in Ctx \cup {NoCtx}
      BY <3>1, <3>3, ResultsType
    <3>5. out' \in [Requests -> [Impls -> Ctx \cup {NoCtx}]]
      BY <3>3, <3>4 DEF TypeOK
    <3>6. /\ value' \in [Requests -> Ctx \cup {NoCtx}]
          /\ phase' \in [Requests -> Phases]
          /\ cause' \in [Requests -> Causes]
      BY <3>3, <3>4, GoOnType
    <3>7. metric' \in Meter
      BY <2>2, RecordedType DEF Return, Count, TypeOK, Statuses
    <3>8. st' \in [Requests -> [Impls -> Stations]]
      BY <2>2 DEF Return, Settle, TypeOK, Statuses, Stations
    <3> QED
      BY <2>2, <3>2, <3>5, <3>6, <3>7, <3>8 DEF Return, TypeOK
  <2>3. CASE Fail(q, i)
    BY <2>3, DegradeType DEF Fail, Heard
  <2>4. CASE OwnTimeout(q, i)
    BY <2>4, DegradeType DEF OwnTimeout, Heard
  <2>5. CASE Expire(q, i)
    BY <2>5 DEF Expire, TypeOK, Active, Stations
  <2>6. CASE Unwind(q, i)
    BY <2>6, DegradeType DEF Unwind, Active
  <2>7. CASE Block(q, i)
    <3>1. auditOpen' \in BOOLEAN /\ log' \in [Requests -> Seq(Entry)]
          /\ unaudited' \in [Requests -> SUBSET Impls]
      BY <2>7, AuditType DEF Block, Heard, Statuses
    <3>2. /\ value' \in [Requests -> Ctx \cup {NoCtx}]
          /\ phase' \in [Requests -> Phases]
          /\ cause' \in [Requests -> Causes]
      BY <2>7, EscapeType DEF Block
    <3>3. metric' \in Meter
      BY <2>7, RecordedType DEF Block, Count, TypeOK, Statuses
    <3>4. st' \in [Requests -> [Impls -> Stations]]
      BY <2>7 DEF Block, Settle, TypeOK, Statuses, Stations
    <3> QED
      BY <2>7, <3>1, <3>2, <3>3, <3>4 DEF Block, TypeOK
  <2>8. CASE Skip(q, i)
    <3>1. metric' \in Meter
      BY <2>8, RecordedType DEF Skip, Count, TypeOK, Statuses
    <3>2. st' \in [Requests -> [Impls -> Stations]]
      BY <2>8 DEF Skip, Settle, TypeOK, Statuses, Stations
    <3>3. phase' \in [Requests -> Phases]
      BY <2>8 DEF Skip, TypeOK, Phases, Ended
    <3> QED
      BY <2>8, <3>1, <3>2, <3>3 DEF Skip, TypeOK
  <2>9. ASSUME NEW s \in Statuses \ {"skip"}, AuditFails(q, i, s) PROVE TypeOK'
    <3>1. /\ value' \in [Requests -> Ctx \cup {NoCtx}]
          /\ phase' \in [Requests -> Phases]
          /\ cause' \in [Requests -> Causes]
      BY <2>9, EscapeType DEF AuditFails
    <3>2. metric' \in Meter
      <4>1. Recorded(metric, i, s) \in Meter
        BY RecordedType DEF TypeOK
      <4>2. Recorded(Recorded(metric, i, s), i, "error") \in Meter
        BY <4>1, RecordedType DEF Statuses
      <4> QED
        BY <2>9, <4>1, <4>2 DEF AuditFails
    <3>3. st' \in [Requests -> [Impls -> Stations]]
      BY <2>9 DEF AuditFails, Settle, TypeOK, Stations
    <3>4. unaudited' \in [Requests -> SUBSET Impls]
      BY <2>9 DEF AuditFails, TypeOK
    <3> QED
      BY <2>9, <3>1, <3>2, <3>3, <3>4 DEF AuditFails, TypeOK
  <2>10. CASE Abandon(q, i)
    BY <2>10 DEF Abandon, Settle, TypeOK, Phases, Ended, Stations, Causes
  <2>11. CASE AuditRecovers(q, i)
    <3>1. st[q][i] \in Active /\ in[q][i] \in Ctx
      BY <2>11 DEF AuditRecovers, Heard, TypeOK, GivenInv
    <3>2. auditOpen' \in BOOLEAN /\ log' \in [Requests -> Seq(Entry)]
          /\ unaudited' \in [Requests -> SUBSET Impls]
      BY <2>11, <3>1, AuditType DEF AuditRecovers, Statuses
    <3>3. /\ value' \in [Requests -> Ctx \cup {NoCtx}]
          /\ phase' \in [Requests -> Phases]
          /\ cause' \in [Requests -> Causes]
      <4>1. CASE Masked(i)
        BY <2>11, <3>1, <4>1, GoOnType DEF AuditRecovers, DegradedTo
      <4>2. CASE ~Masked(i)
        BY <2>11, <4>2, EscapeType DEF AuditRecovers
      <4> QED
        BY <4>1, <4>2
    <3>4. metric' \in Meter
      <4>1. Recorded(metric, i, "ok") \in Meter
        BY RecordedType DEF TypeOK, Statuses
      <4> QED
        BY <2>11, <4>1, RecordedType DEF AuditRecovers, Statuses
    <3>5. st' \in [Requests -> [Impls -> Stations]]
      BY <2>11 DEF AuditRecovers, Settle, TypeOK, Statuses, Stations
    <3>6. recovered' \in [Requests -> SUBSET Impls]
      BY <2>11 DEF AuditRecovers, TypeOK
    <3> QED
      BY <2>11, <3>2, <3>3, <3>4, <3>5, <3>6 DEF AuditRecovers, TypeOK
  <2>12. CASE OwnCancel(q, i)
    <3>1. /\ value' \in [Requests -> Ctx \cup {NoCtx}]
          /\ phase' \in [Requests -> Phases]
          /\ cause' \in [Requests -> Causes]
      BY <2>12, EscapeType DEF OwnCancel
    <3>2. st' \in [Requests -> [Impls -> Stations]]
      BY <2>12 DEF OwnCancel, Settle, TypeOK, Stations
    <3> QED
      BY <2>12, <3>1, <3>2 DEF OwnCancel, TypeOK
  <2>13. CASE OrphanEnds(q, i)
    BY <2>13 DEF OrphanEnds, Settle, TypeOK, Stations
  <2> QED
    BY <1>3, <2>1, <2>2, <2>3, <2>4, <2>5, <2>6, <2>7, <2>8, <2>9, <2>10, <2>11,
       <2>12, <2>13 DEF Step
<1>4. ASSUME NEW q \in Requests, Cancel(q) PROVE TypeOK'
  <2>1. \A i \in Impls : Thrown(st[q][i]) \in Stations
    BY DEF Thrown, Stations, Active
  <2>2. st' \in [Requests -> [Impls -> Stations]]
    BY <1>4, <2>1 DEF Cancel, TypeOK, Stations
  <2>3. phase' \in [Requests -> Phases]
    BY <1>4 DEF Cancel, TypeOK, Phases, Live, Ended
  <2> QED
    BY <1>4, <2>2, <2>3 DEF Cancel, TypeOK
<1>5. ASSUME NEW q \in Requests, Merge(q) PROVE TypeOK'
  <2>1. value[q] \in Ctx
    BY <1>5 DEF Merge, TypeOK, GivenInv
  <2>2. value' \in [Requests -> Ctx \cup {NoCtx}]
    <3>1. CASE UNCHANGED value
      BY <3>1 DEF TypeOK
    <3>2. ASSUME NEW m \in Meta, NEW r \in SUBSET Keys,
                 value' = [value EXCEPT ![q] =
                             [tool |-> value[q].tool, meta |-> m, redacted |-> r]]
          PROVE  value' \in [Requests -> Ctx \cup {NoCtx}]
      <4>1. [tool |-> value[q].tool, meta |-> m, redacted |-> r] \in Ctx
        BY <2>1 DEF Ctx
      <4> QED
        BY <3>2, <4>1 DEF TypeOK
    <3> QED
      BY <1>5, <3>1, <3>2 DEF Merge
  <2>3. phase' \in [Requests -> Phases]
    BY <1>5 DEF Merge, TypeOK, Phases, Ended
  <2>4. cause' \in [Requests -> Causes]
    BY <1>5 DEF Merge, TypeOK, Causes
  <2> QED
    BY <1>5, <2>2, <2>3, <2>4 DEF Merge, TypeOK
<1>6. ASSUME NEW q \in Requests, GatherCancelled(q) PROVE TypeOK'
  BY <1>6 DEF GatherCancelled, TypeOK, Phases, Ended, Stations, Causes
<1>7. CASE UNCHANGED vars
  BY <1>7 DEF vars, TypeOK
<1> QED
  BY <1>1, <1>2, <1>3, <1>4, <1>5, <1>6, <1>7 DEF Next

(* ... and never leaves an executor with None in place of its context.     *)
LEMMA GivenStep ==
    ASSUME TypeInv, [Next]_vars
    PROVE  GivenInv'
<1> USE DEF TypeInv
<1>1. ASSUME NEW i \in Impls, Implement(i) PROVE GivenInv'
  BY <1>1 DEF Implement, GivenInv
<1>2. ASSUME NEW q \in Requests, NEW c \in Contexts, Run(q, c) PROVE GivenInv'
  <2>1. c # NoCtx
    BY PipelineAssumption, NoCtxAssumption
  <2> QED
    BY <1>2, <2>1 DEF Run, GivenInv, TypeOK, Active
<1>3. ASSUME NEW q \in Requests, NEW i \in Impls, Step(q, i) PROVE GivenInv'
  <2> USE DEF GivenInv, TypeOK
  <2>1. CASE Enter(q, i)
    BY <2>1 DEF Enter
  <2>2. CASE Return(q, i)
    <3>1. PICK v \in Results(i, in[q][i]) : GoOn(q, v)
      BY <2>2 DEF Return
    <3>2. \A p \in Requests : phase'[p] \in {"sequential", "parallel"} => value'[p] # NoCtx
      <4>1. CASE phase[q] = "sequential"
        <5>1. /\ value' = [value EXCEPT ![q] = v]
              /\ \A p \in Requests \ {q} : phase'[p] = phase[p]
              /\ phase'[q] \in {"sequential", "parallel"} => v # NoCtx
          BY <3>1, <4>1 DEF GoOn, SpanOpens
        <5> QED
          BY <5>1
      <4>2. CASE phase[q] # "sequential"
        BY <3>1, <4>2 DEF GoOn
      <4> QED
        BY <4>1, <4>2
    <3> QED
      BY <2>2, <3>2 DEF Return, Settle, Active, Statuses
  <2>3. ASSUME NEW s \in {"timeout", "error"}, st[q][i] \in Active, Degrade(q, i, s)
        PROVE  GivenInv'
    <3>1. in[q][i] # NoCtx
      BY <2>3
    <3>2. \A p \in Requests : phase'[p] \in {"sequential", "parallel"} => value'[p] # NoCtx
      BY <2>3, <3>1 DEF Degrade, GoOn, SpanOpens, Escape, DegradedTo
    <3> QED
      BY <2>3, <3>2 DEF Degrade, Settle, Active
  <2>4. CASE Fail(q, i) \/ OwnTimeout(q, i) \/ Unwind(q, i)
    BY <2>3, <2>4 DEF Fail, OwnTimeout, Unwind, Heard, Active
  <2>5. CASE Expire(q, i)
    BY <2>5 DEF Expire, Active
  <2>6. CASE Block(q, i)
    BY <2>6 DEF Block, Escape, Settle, Active
  <2>7. CASE Skip(q, i)
    BY <2>7 DEF Skip, Settle, Active
  <2>8. ASSUME NEW s \in Statuses \ {"skip"}, AuditFails(q, i, s) PROVE GivenInv'
    BY <2>8 DEF AuditFails, Escape, Settle, Active, Statuses
  <2>9. CASE Abandon(q, i) \/ OwnCancel(q, i) \/ OrphanEnds(q, i)
    <3>1. st'= [st EXCEPT ![q][i] = "cancelled"] /\ UNCHANGED <<value, in>>
      BY <2>9 DEF Abandon, OwnCancel, OrphanEnds, Escape, Settle
    <3>2. \A p \in Requests : phase'[p] \in {"sequential", "parallel"} => phase'[p] = phase[p]
      BY <2>9 DEF Abandon, OwnCancel, OrphanEnds, Escape
    <3> QED
      BY <3>1, <3>2 DEF Active
  <2>10. CASE AuditRecovers(q, i)
    <3>1. in[q][i] # NoCtx
      BY <2>10 DEF AuditRecovers, Heard
    <3>2. \A p \in Requests : phase'[p] \in {"sequential", "parallel"} => value'[p] # NoCtx
      BY <2>10, <3>1 DEF AuditRecovers, GoOn, SpanOpens, Escape, DegradedTo
    <3> QED
      BY <2>10, <3>2 DEF AuditRecovers, Settle, Active
  <2> QED
    BY <1>3, <2>1, <2>2, <2>4, <2>5, <2>6, <2>7, <2>8, <2>9, <2>10 DEF Step
<1>4. ASSUME NEW q \in Requests, Cancel(q) PROVE GivenInv'
  <2>1. \A p \in Requests, i \in Impls : st'[p][i] \in Active => st[p][i] \in Active
    BY <1>4 DEF Cancel, TypeOK, Active
  <2>2. \A p \in Requests : phase'[p] \in {"sequential", "parallel"} =>
                               phase[p] \in {"sequential", "parallel"}
    BY <1>4 DEF Cancel, TypeOK
  <2> QED
    BY <1>4, <2>1, <2>2 DEF Cancel, GivenInv
<1>5. ASSUME NEW q \in Requests, Merge(q) PROVE GivenInv'
  BY <1>5 DEF Merge, GivenInv, TypeOK
<1>6. ASSUME NEW q \in Requests, GatherCancelled(q) PROVE GivenInv'
  BY <1>6 DEF GatherCancelled, GivenInv, TypeOK
<1>7. CASE UNCHANGED vars
  BY <1>7 DEF vars, GivenInv
<1> QED
  BY <1>1, <1>2, <1>3, <1>4, <1>5, <1>6, <1>7 DEF Next

(* Every variable of the pipeline keeps its type, and no hook body is ever *)
(* called with None.                                                       *)
THEOREM TypeCorrect == Spec => []TypeInv
<1>1. Init => TypeInv
  BY DEF Init, TypeInv, TypeOK, GivenInv, Phases, Causes, Stations, Active, Entry, Meter, Fresh
<1>2. TypeInv /\ [Next]_vars => TypeInv'
  BY TypeStep, GivenStep DEF TypeInv
<1> QED
  BY <1>1, <1>2, PTL DEF Spec

(* Every variable of the pipeline keeps its type.                          *)
THEOREM TypeTheorem == Spec => []TypeOK
BY TypeCorrect, PTL DEF TypeInv

-----------------------------------------------------------------------------
(***************************************************************************)
(* The safety of one request: its hooks begin in order, and nothing moves  *)
(* once it has ended.  The inductive invariant says                        *)
(*   - registrations have distinct places, and a snapshot holds registered *)
(*     implementations, exactly those that have a _run_one;                *)
(*   - an executor runs snapshots of its own kind;                         *)
(*   - while the sequential executor runs, each body that has begun runs   *)
(*     still or let it go on, so that with InOrder at most one runs;       *)
(*   - outside the executors no body runs, but for orphans, which only a   *)
(*     cancelled request has, and only if bodies have tasks of their own.  *)
(***************************************************************************)
PlacesInv ==
    /\ \A i \in Impls : position[i] <= registrations
    /\ \A i, j \in Impls : i # j /\ position[i] = position[j] => position[i] = 0

SnapshotInv ==
    \A q \in Requests :
        /\ \A i \in Impls : st[q][i] = "none" <=> i \notin plan[q]
        /\ \A i \in plan[q] : position[i] # 0
        /\ phase[q] = "idle" => plan[q] = {}
        /\ \A i \in unaudited[q] : st[q][i] \in Statuses

ModeInv ==
    \A q \in Requests :
        /\ phase[q] = "sequential" => Sequential(q)
        /\ phase[q] \in {"parallel", "gathering"} => ~Sequential(q)

FlowInv ==
    \A q \in Requests : phase[q] = "sequential" =>
        \A i \in Begun(q) : st[q][i] \in Active \/ Proceeded(q, i)

QuietInv == \A q \in Requests : phase[q] \notin Live => Running(q) = {}

OrphanInv ==
    \A q \in Requests, i \in Impls : st[q][i] = "orphaned" =>
        OwnTasks /\ phase[q] \in {"gathering", "cancelled"}

PipelineInv ==
    /\ TypeInv
    /\ PlacesInv
    /\ SnapshotInv
    /\ ModeInv
    /\ FlowInv
    /\ QuietInv
    /\ OrphanInv
    /\ InOrder

(* The order of a snapshot is total and strict.                            *)
LEMMA BeforeTotal ==
    ASSUME PipelineInv, NEW q \in Requests, NEW i \in plan[q], NEW j \in plan[q], i # j
    PROVE  /\ Before(i, j) \/ Before(j, i)
           /\ ~(Before(i, j) /\ Before(j, i))
<1>1. i \in Impls /\ j \in Impls /\ position[i] \in Nat /\ position[j] \in Nat
  BY DEF PipelineInv, TypeInv, TypeOK
<1>2. Order[i] \in Nat /\ Order[j] \in Nat
  BY <1>1, ImplsAssumption
<1>3. position[i] # position[j]
  BY <1>1 DEF PipelineInv, SnapshotInv, PlacesInv
<1> QED
  BY <1>1, <1>2, <1>3 DEF Before

(* A sequential request has at most one body that runs or unwinds.         *)
LEMMA OneAtATime ==
    ASSUME PipelineInv, NEW q \in Requests, phase[q] = "sequential",
           NEW i \in Running(q), NEW j \in Running(q)
    PROVE  i = j
<1>1. i \in Begun(q) /\ j \in Begun(q)
  BY DEF Running, Begun, PipelineInv, SnapshotInv, Active
<1>2. i \in plan[q] /\ j \in plan[q] /\ Sequential(q)
  BY <1>1 DEF Begun, PipelineInv, ModeInv
<1>3. ~Proceeded(q, i) /\ ~Proceeded(q, j)
  BY DEF Running, Proceeded, Active
<1> QED
  BY <1>1, <1>2, <1>3, BeforeTotal DEF PipelineInv, InOrder

(* A step of a _run_one concerns that one only; it lets it begin, or lets  *)
(* its timer fire, or ends it, and when it ends the sequential executor    *)
(* goes on only if it proceeded; or its orphaned body fades away.          *)
OnlyOf(q, i) ==
    /\ position' = position /\ registrations' = registrations /\ plan' = plan
    /\ \A p \in Requests \ {q} : /\ phase'[p] = phase[p] /\ st'[p] = st[p]
                                 /\ unaudited'[p] = unaudited[p]
                                 /\ value'[p] = value[p] /\ log'[p] = log[p]
    /\ \A j \in Impls \ {i} : /\ st'[q][j] = st[q][j]
                              /\ j \in unaudited'[q] <=> j \in unaudited[q]

Begins(q, i) ==
    /\ Enter(q, i)
    /\ st'[q][i] = "running" /\ phase'[q] = phase[q]
    /\ unaudited'[q] = unaudited[q]

Expires(q, i) ==
    /\ st[q][i] = "running" /\ st'[q][i] = "expired" /\ phase'[q] = phase[q]
    /\ unaudited'[q] = unaudited[q]

Ends(q, i) ==
    /\ st[q][i] \in Active
    /\ st'[q][i] \in Statuses \cup {"cancelled"}
    /\ i \in unaudited'[q] => st'[q][i] \in Statuses
    /\ IF phase[q] = "sequential"
       THEN \/ phase'[q] \in Ended
            \/ phase'[q] = "sequential" /\ Proceeded(q, i)'
       ELSE phase'[q] = phase[q]

Fades(q, i) ==
    /\ st[q][i] = "orphaned" /\ st'[q][i] = "cancelled" /\ phase'[q] = phase[q]
    /\ unaudited'[q] = unaudited[q] /\ value'[q] = value[q] /\ log'[q] = log[q]

(* A _run_one that ends by an exception lets the sequential executor go on *)
(* or ends the request.                                                    *)
LEMMA DegradeEnds ==
    ASSUME PipelineInv, NEW q \in Requests, NEW i \in Impls, NEW s \in {"timeout", "error"},
           st[q][i] \in Active, Degrade(q, i, s)
    PROVE  OnlyOf(q, i) /\ Ends(q, i)
<1> USE DEF PipelineInv, TypeInv, TypeOK
<1>1. i \notin unaudited[q]
  BY DEF SnapshotInv, Active, Statuses
<1>2. OnlyOf(q, i)
  BY DEF Degrade, Settle, Count, Audit, GoOn, SpanOpens, Escape, OnlyOf
<1>3. st'[q][i] = s /\ i \notin unaudited'[q]
  BY <1>1 DEF Degrade, Settle, Audit
<1>4. CASE Masked(i)
  <2>1. Proceeded(q, i)'
    BY <1>3, <1>4 DEF Proceeded, Masked
  <2>2. GoOn(q, in[q][i])
    BY <1>4 DEF Degrade, DegradedTo
  <2> QED
    BY <1>2, <1>3, <2>1, <2>2 DEF Ends, GoOn, SpanOpens, Ended, Statuses
<1>5. CASE ~Masked(i)
  <2>1. Escape(q, s)
    BY <1>5 DEF Degrade
  <2> QED
    BY <1>2, <1>3, <2>1 DEF Ends, Escape, Ended, Statuses
<1> QED
  BY <1>4, <1>5

(* What one _run_one may do to its request, whatever the action.           *)
LEMMA StepCases ==
    ASSUME PipelineInv, NEW q \in Requests, NEW i \in Impls, Step(q, i)
    PROVE  OnlyOf(q, i) /\ (Begins(q, i) \/ Expires(q, i) \/ Ends(q, i) \/ Fades(q, i))
<1> USE DEF PipelineInv, TypeInv, TypeOK
<1>0. st[q][i] \in Active => i \notin unaudited[q]
  BY DEF SnapshotInv, Active, Statuses
<1>1. CASE Enter(q, i)
  BY <1>1 DEF Enter, OnlyOf, Begins
<1>2. CASE Return(q, i)
  <2>1. PICK v \in Results(i, in[q][i]) : GoOn(q, v)
    BY <1>2 DEF Return
  <2>2. OnlyOf(q, i)
    BY <1>2, <2>1 DEF Return, Settle, Count, Audit, GoOn, SpanOpens, OnlyOf
  <2>3. st'[q][i] = "ok" /\ st[q][i] \in Active /\ i \notin unaudited'[q]
    BY <1>0, <1>2 DEF Return, Heard, Settle, Audit
  <2> QED
    BY <2>1, <2>2, <2>3 DEF Ends, GoOn, SpanOpens, Ended, Statuses, Proceeded
<1>3. CASE Fail(q, i) \/ OwnTimeout(q, i) \/ Unwind(q, i)
  BY <1>3, DegradeEnds DEF Fail, OwnTimeout, Unwind, Heard, Active
<1>4. CASE Expire(q, i)
  BY <1>4 DEF Expire, OnlyOf, Expires
<1>5. CASE Block(q, i)
  BY <1>0, <1>5 DEF Block, Heard, Settle, Count, Audit, Escape, OnlyOf, Ends, Ended, Statuses
<1>6. CASE Skip(q, i)
  BY <1>0, <1>6 DEF Skip, Heard, Settle, Count, OnlyOf, Ends, Ended, Statuses
<1>7. ASSUME NEW s \in Statuses \ {"skip"}, AuditFails(q, i, s)
      PROVE  OnlyOf(q, i) /\ Ends(q, i)
  BY <1>0, <1>7 DEF AuditFails, Heard, Settle, Escape, OnlyOf, Ends, Ended
<1>8. CASE Abandon(q, i)
  BY <1>0, <1>8 DEF Abandon, Settle, OnlyOf, Ends, Ended, Active
<1>9. CASE AuditRecovers(q, i)
  <2>1. OnlyOf(q, i)
    BY <1>9 DEF AuditRecovers, Settle, Audit, GoOn, SpanOpens, Escape, OnlyOf
  <2>2. st[q][i] \in Active /\ st'[q][i] = "error" /\ i \notin unaudited'[q]
    BY <1>0, <1>9 DEF AuditRecovers, Heard, Settle, Audit
  <2>3. CASE Masked(i)
    <3>1. Proceeded(q, i)'
      BY <2>2, <2>3 DEF Proceeded, Masked
    <3>2. GoOn(q, in[q][i])
      BY <1>9, <2>3 DEF AuditRecovers, DegradedTo
    <3> QED
      BY <2>1, <2>2, <3>1, <3>2 DEF Ends, GoOn, SpanOpens, Ended, Statuses
  <2>4. CASE ~Masked(i)
    <3>1. Escape(q, "error")
      BY <1>9, <2>4 DEF AuditRecovers
    <3> QED
      BY <2>1, <2>2, <3>1 DEF Ends, Escape, Ended, Statuses
  <2> QED
    BY <2>3, <2>4
<1>10. CASE OwnCancel(q, i)
  BY <1>0, <1>10 DEF OwnCancel, Settle, Escape, OnlyOf, Ends, Ended, Active
<1>11. CASE OrphanEnds(q, i)
  BY <1>11 DEF OrphanEnds, Settle, OnlyOf, Fades
<1> QED
  BY <1>1, <1>2, <1>3, <1>4, <1>5, <1>6, <1>7, <1>8, <1>9, <1>10, <1>11 DEF Step

(* The steps of one _run_one preserve the invariant.                       *)
LEMMA StepInv ==
    ASSUME PipelineInv, NEW q \in Requests, NEW i \in Impls, Step(q, i)
    PROVE  /\ PlacesInv' /\ SnapshotInv' /\ ModeInv' /\ FlowInv'
           /\ QuietInv' /\ OrphanInv' /\ InOrder'
<1>1. OnlyOf(q, i) /\ (Begins(q, i) \/ Expires(q, i) \/ Ends(q, i) \/ Fades(q, i))
  BY StepCases
<1>2. \A p \in Requests, j \in Impls :
         st[p][j] \in Stations /\ phase[p] \in Phases /\ plan[p] \subseteq Impls
         /\ unaudited[p] \subseteq Impls
  BY DEF PipelineInv, TypeInv, TypeOK
<1>3. PlacesInv'
  BY <1>1 DEF PipelineInv, PlacesInv, OnlyOf
<1>4. SnapshotInv'
  <2>1. /\ st[q][i] # "none" /\ st'[q][i] # "none"
        /\ i \in unaudited'[q] => st'[q][i] \in Statuses
        /\ phase'[q] # "idle"
    BY <1>1, <1>2 DEF Begins, Expires, Ends, Fades, Enter, Active, Statuses, Ended,
                      PipelineInv, SnapshotInv, OrphanInv
  <2>2. unaudited'[q] \subseteq Impls
    BY TypeStep DEF PipelineInv, Next, TypeOK
  <2> QED
    BY <1>1, <1>2, <2>1, <2>2 DEF PipelineInv, SnapshotInv, OnlyOf
<1>5. ModeInv'
  BY <1>1 DEF PipelineInv, ModeInv, OnlyOf, Begins, Expires, Ends, Fades, Ended, Sequential,
              RunsParallel
<1>6. FlowInv'
  <2> SUFFICES ASSUME NEW p \in Requests, phase'[p] = "sequential", NEW j \in Begun(p)'
               PROVE  st'[p][j] \in Active \/ Proceeded(p, j)'
    BY DEF FlowInv
  <2>1. CASE p = q /\ j = i
    BY <1>1, <2>1 DEF Begins, Expires, Ends, Fades, Active, Ended, PipelineInv, OrphanInv
  <2>2. CASE ~(p = q /\ j = i)
    <3>1. /\ phase[p] = "sequential" /\ j \in Begun(p)
          /\ st'[p][j] = st[p][j] /\ (Proceeded(p, j) => Proceeded(p, j)')
      BY <1>1, <1>2, <2>2 DEF OnlyOf, Begins, Expires, Ends, Fades, Begun, Proceeded
    <3> QED
      BY <3>1 DEF PipelineInv, FlowInv
  <2> QED
    BY <2>1, <2>2
<1>7. QuietInv'
  <2> SUFFICES ASSUME NEW p \in Requests, phase'[p] \notin Live, NEW j \in Running(p)'
               PROVE  FALSE
    BY DEF QuietInv
  <2>1. j \in Impls /\ st'[p][j] \in Active
    BY DEF Running
  <2>2. CASE p # q
    BY <1>1, <2>1, <2>2 DEF OnlyOf, PipelineInv, QuietInv, Running
  <2>3. CASE p = q /\ (Begins(q, i) \/ Expires(q, i))
    <3>1. phase[q] \notin Live
      BY <2>3 DEF Begins, Expires
    <3>2. st[q][i] # "running" /\ ~Enter(q, i)
      BY <3>1 DEF PipelineInv, QuietInv, Running, Active, Enter, Live
    <3> QED
      BY <2>3, <3>2 DEF Begins, Expires
  <2>4. CASE p = q /\ Ends(q, i)
    <3>1. j # i
      BY <2>1, <2>4 DEF Ends, Active, Statuses
    <3>2. i \in Running(q) /\ j \in Running(q)
      BY <1>1, <2>1, <2>4, <3>1 DEF Ends, OnlyOf, Running
    <3>3. phase[q] = "sequential"
      BY <2>4, <3>2 DEF Ends, PipelineInv, QuietInv
    <3> QED
      BY <3>1, <3>2, <3>3, OneAtATime
  <2>5. CASE p = q /\ Fades(q, i)
    BY <1>1, <2>1, <2>5 DEF Fades, OnlyOf, Active, PipelineInv, QuietInv, Running
  <2> QED
    BY <1>1, <2>2, <2>3, <2>4, <2>5
<1>8. InOrder'
  <2> SUFFICES ASSUME NEW p \in Requests, Sequential(p)',
                      NEW j \in Begun(p)', NEW k \in plan'[p], Before(k, j)'
               PROVE  Proceeded(p, k)'
    BY DEF InOrder
  <2>1. /\ Sequential(p) /\ j \in plan[p] /\ k \in plan[p] /\ Before(k, j)
        /\ j \in Impls /\ k \in Impls
    BY <1>1, <1>2 DEF OnlyOf, Sequential, RunsParallel, Begun, Before
  <2>2. CASE p = q /\ j = i /\ Begins(q, i)
    <3>1. phase[q] = "sequential" /\ Running(q) = {} /\ IsFirst(q, i)
      BY <2>1, <2>2 DEF Begins, Enter, PipelineInv, ModeInv
    <3>2. k # i
      BY <2>1, <2>2, ImplsAssumption DEF Before, PipelineInv, TypeInv, TypeOK
    <3>3. k \notin Queued(q)
      BY <2>1, <2>2, <3>1, <3>2, BeforeTotal DEF IsFirst
    <3>4. Proceeded(q, k)
      BY <2>1, <2>2, <3>1, <3>3 DEF Queued, Running, Begun, PipelineInv, FlowInv
    <3> QED
      BY <1>1, <2>1, <2>2, <3>2, <3>4 DEF OnlyOf, Proceeded
  <2>3. CASE ~(p = q /\ j = i /\ Begins(q, i))
    <3>1. j \in Begun(p)
      BY <1>1, <2>1, <2>3 DEF OnlyOf, Begins, Expires, Ends, Fades, Begun, Active
    <3>2. Proceeded(p, k)
      BY <2>1, <3>1 DEF PipelineInv, InOrder
    <3>3. ~(p = q /\ k = i)
      BY <1>1, <3>2 DEF Begins, Expires, Ends, Fades, Enter, Proceeded, Active
    <3> QED
      BY <1>1, <1>2, <2>1, <3>2, <3>3 DEF OnlyOf, Proceeded
  <2> QED
    BY <2>2, <2>3
<1>9. OrphanInv'
  <2>1. st'[q][i] # "orphaned"
    BY <1>1 DEF Begins, Expires, Ends, Fades, Statuses
  <2>2. phase[q] \in {"gathering", "cancelled"} => phase'[q] = phase[q]
    BY <1>1 DEF Begins, Expires, Ends, Fades
  <2> QED
    BY <1>1, <2>1, <2>2 DEF OnlyOf, PipelineInv, OrphanInv
<1> QED
  BY <1>3, <1>4, <1>5, <1>6, <1>7, <1>8, <1>9

(* A registration adds a distinct place and touches no snapshot.           *)
LEMMA ImplementInv ==
    ASSUME PipelineInv, NEW i \in Impls, Implement(i)
    PROVE  /\ PlacesInv' /\ SnapshotInv' /\ ModeInv' /\ FlowInv'
           /\ QuietInv' /\ OrphanInv' /\ InOrder'
<1> USE DEF PipelineInv, TypeInv, TypeOK
<1>1. \A q \in Requests : \A j \in plan[q] : j # i /\ position'[j] = position[j]
  BY DEF Implement, SnapshotInv
<1>2. \A q \in Requests : \A j, k \in plan[q] : Before(j, k)' <=> Before(j, k)
  BY <1>1 DEF Before
<1>3. PlacesInv'
  BY DEF Implement, PlacesInv
<1>4. SnapshotInv'
  BY <1>1 DEF Implement, SnapshotInv
<1>5. ModeInv' /\ FlowInv' /\ QuietInv' /\ OrphanInv'
  BY DEF Implement, ModeInv, FlowInv, QuietInv, OrphanInv, Sequential, RunsParallel, Begun,
         Proceeded, Running
<1>6. InOrder'
  BY <1>2 DEF Implement, InOrder, Sequential, RunsParallel, Begun, Proceeded
<1> QED
  BY <1>3, <1>4, <1>5, <1>6

(* A new request starts with everything in its snapshot queued.            *)
LEMMA RunInv ==
    ASSUME PipelineInv, NEW q \in Requests, NEW c \in Contexts, Run(q, c)
    PROVE  /\ PlacesInv' /\ SnapshotInv' /\ ModeInv' /\ FlowInv'
           /\ QuietInv' /\ OrphanInv' /\ InOrder'
<1> USE DEF PipelineInv, TypeInv, TypeOK
<1> DEFINE s == GetImpls(c)
<1>1. /\ plan' = [plan EXCEPT ![q] = s] /\ s \subseteq Impls
      /\ \A i \in s : position[i] # 0
      /\ st' = [st EXCEPT ![q] = [i \in Impls |-> IF i \in s THEN "queued" ELSE "none"]]
      /\ phase'[q] = IF s = {} THEN "delivered"
                     ELSE IF RunsParallel(s) THEN "parallel" ELSE "sequential"
      /\ \A p \in Requests \ {q} : phase'[p] = phase[p]
      /\ position' = position /\ registrations' = registrations /\ unaudited' = unaudited
  BY DEF Run, GetImpls
<1> HIDE DEF s
<1>2. unaudited[q] = {}
  BY DEF Run, SnapshotInv, Statuses
<1>3. PlacesInv' /\ SnapshotInv'
  BY <1>1, <1>2 DEF PlacesInv, SnapshotInv
<1>4. ModeInv'
  BY <1>1 DEF ModeInv, Sequential, RunsParallel
<1>5. FlowInv' /\ QuietInv' /\ OrphanInv'
  BY <1>1 DEF FlowInv, QuietInv, OrphanInv, Begun, Proceeded, Running, Active
<1>6. InOrder'
  <2> SUFFICES ASSUME NEW p \in Requests, Sequential(p)', NEW j \in Begun(p)',
                      NEW k \in plan'[p], Before(k, j)'
               PROVE  Proceeded(p, k)'
    BY DEF InOrder
  <2>1. p # q
    BY <1>1 DEF Begun
  <2>2. Sequential(p) /\ j \in Begun(p) /\ k \in plan[p] /\ Before(k, j)
    BY <1>1, <2>1 DEF Sequential, RunsParallel, Begun, Before
  <2>3. Proceeded(p, k)
    BY <2>2 DEF InOrder
  <2> QED
    BY <1>1, <2>1, <2>3 DEF Proceeded
<1> QED
  BY <1>3, <1>4, <1>5, <1>6

(* Cancelling the agent's task begins no body.                             *)
LEMMA CancelInv ==
    ASSUME PipelineInv, NEW q \in Requests, Cancel(q)
    PROVE  /\ PlacesInv' /\ SnapshotInv' /\ ModeInv' /\ FlowInv'
           /\ QuietInv' /\ OrphanInv' /\ InOrder'
<1> USE DEF PipelineInv, TypeInv, TypeOK
<1>1. /\ phase[q] \in Live
      /\ \A i \in Impls : st'[q][i] = IF st[q][i] \in Active THEN Thrown(st[q][i])
                                      ELSE IF st[q][i] = "queued" /\ phase[q] # "sequential"
                                           THEN "cancelled" ELSE st[q][i]
      /\ phase'[q] = IF phase[q] # "sequential" THEN "gathering"
                     ELSE IF \E i \in Running(q) : Thrown(st[q][i]) \in Active THEN phase[q]
                     ELSE "cancelled"
      /\ \A p \in Requests \ {q} : st'[p] = st[p] /\ phase'[p] = phase[p]
      /\ plan' = plan /\ position' = position /\ registrations' = registrations
      /\ unaudited' = unaudited
  BY DEF Cancel
<1>0. \A i \in Impls : Thrown(st[q][i]) \in {"cancelling", "orphaned"}
                        /\ (Thrown(st[q][i]) = "orphaned" => OwnTasks)
  BY DEF Thrown
<1>2. PlacesInv' /\ SnapshotInv' /\ ModeInv'
  <2>1. PlacesInv'
    BY <1>1 DEF PlacesInv
  <2>2. SnapshotInv'
    <3>1. ASSUME NEW p \in Requests, NEW i \in Impls
          PROVE  /\ st'[p][i] = "none" <=> st[p][i] = "none"
                 /\ st[p][i] \in Statuses => st'[p][i] \in Statuses
      <4>1. CASE p = q
        BY <1>0, <1>1, <4>1 DEF Active, Statuses
      <4>2. CASE p # q
        BY <1>1, <4>2
      <4> QED
        BY <4>1, <4>2
    <3>2. \A p \in Requests : phase'[p] = "idle" => phase[p] = "idle"
      BY <1>1 DEF Live
    <3>3. \A p \in Requests : unaudited[p] \subseteq Impls /\ plan[p] \subseteq Impls
      OBVIOUS
    <3> HIDE DEF PipelineInv, TypeInv, TypeOK
    <3> QED
      BY <1>1, <3>1, <3>2, <3>3 DEF SnapshotInv, PipelineInv
  <2>3. ModeInv'
    BY <1>1 DEF ModeInv, Live, Sequential, RunsParallel
  <2> QED
    BY <2>1, <2>2, <2>3
<1>6. phase'[q] = "sequential" => \A i \in Running(q) : Thrown(st[q][i]) = "cancelling"
  <2> SUFFICES ASSUME phase'[q] = "sequential", NEW i \in Running(q)
               PROVE  Thrown(st[q][i]) = "cancelling"
    OBVIOUS
  <2>1. phase[q] = "sequential"
    BY <1>1
  <2>2. PICK j \in Running(q) : Thrown(st[q][j]) \in Active
    BY <1>1
  <2>3. i = j
    BY <2>1, OneAtATime
  <2> QED
    BY <1>0, <2>2, <2>3 DEF Active, Running
<1>3. \A p \in Requests : Sequential(p) =>
        /\ Begun(p)' = Begun(p)
        /\ \A i \in Begun(p) : /\ st[p][i] \in Active /\ phase'[p] = "sequential"
                                   => st'[p][i] \in Active
                               /\ Proceeded(p, i) <=> Proceeded(p, i)'
  <2> SUFFICES ASSUME NEW p \in Requests, Sequential(p)
               PROVE  /\ Begun(p)' = Begun(p)
                      /\ \A i \in Begun(p) : /\ st[p][i] \in Active /\ phase'[p] = "sequential"
                                                 => st'[p][i] \in Active
                                             /\ Proceeded(p, i) <=> Proceeded(p, i)'
    OBVIOUS
  <2>1. CASE p # q
    BY <1>1, <2>1 DEF Begun, Proceeded
  <2>2. CASE p = q
    <3>1. phase[q] = "sequential"
      BY <1>1, <2>2 DEF ModeInv, Live
    <3>2. \A i \in Impls : /\ st'[q][i] = "queued" <=> st[q][i] = "queued"
                           /\ st[q][i] \notin Active => st'[q][i] = st[q][i]
                           /\ st[q][i] \in Active => st'[q][i] = Thrown(st[q][i])
      BY <1>0, <1>1, <3>1 DEF Active
    <3>3. Begun(q)' = Begun(q)
      BY <1>1, <3>2 DEF Begun
    <3>4. \A i \in Impls : Proceeded(q, i) <=> Proceeded(q, i)'
      BY <1>0, <1>1, <3>2 DEF Proceeded, Active
    <3>5. \A i \in Impls : st[q][i] \in Active /\ phase'[q] = "sequential"
                              => st'[q][i] \in Active
      BY <1>6, <3>2 DEF Running, Active
    <3> QED
      BY <2>2, <3>3, <3>4, <3>5 DEF Begun
  <2> QED
    BY <2>1, <2>2
<1>4. FlowInv' /\ InOrder'
  <2>1. \A p \in Requests : Sequential(p)' <=> Sequential(p)
    BY <1>1 DEF Sequential, RunsParallel
  <2>2. \A p \in Requests : phase'[p] = "sequential" => phase[p] = "sequential" /\ Sequential(p)
    BY <1>1 DEF ModeInv, Live
  <2>3. \A j, k \in Impls : Before(j, k)' <=> Before(j, k)
    BY <1>1 DEF Before
  <2>4. FlowInv'
    BY <1>3, <2>2 DEF FlowInv
  <2>5. InOrder'
    <3> SUFFICES ASSUME NEW p \in Requests, Sequential(p)', NEW j \in Begun(p)',
                        NEW k \in plan'[p], Before(k, j)'
                 PROVE  Proceeded(p, k)'
      BY DEF InOrder
    <3>1. Sequential(p) /\ j \in Begun(p) /\ k \in plan[p] /\ k \in Impls /\ j \in Impls
      BY <1>1, <1>3, <2>1 DEF Begun
    <3>2. Proceeded(p, k)
      BY <2>3, <3>1 DEF InOrder
    <3>3. k \in Begun(p)
      BY <3>1, <3>2 DEF Begun, Proceeded
    <3> QED
      BY <1>3, <3>1, <3>2, <3>3
  <2> QED
    BY <2>4, <2>5
<1>5. QuietInv'
  <2> SUFFICES ASSUME NEW p \in Requests, phase'[p] \notin Live PROVE Running(p)' = {}
    BY DEF QuietInv
  <2>1. CASE p # q
    <3>1. st'[p] = st[p] /\ phase'[p] = phase[p]
      BY <1>1, <2>1
    <3> QED
      BY <3>1 DEF QuietInv, Running
  <2>2. CASE p = q
    <3>1. phase'[q] = "cancelled" /\ \A i \in Running(q) : Thrown(st[q][i]) \notin Active
      BY <1>1, <2>2 DEF Live
    <3>2. ASSUME NEW i \in Impls PROVE st'[q][i] \notin Active
      <4>1. CASE st[q][i] \in Active
        BY <1>1, <3>1, <4>1 DEF Running
      <4>2. CASE st[q][i] \notin Active
        BY <1>1, <4>2 DEF Active
      <4> QED
        BY <4>1, <4>2
    <3> QED
      BY <2>2, <3>2 DEF Running
  <2> QED
    BY <2>1, <2>2
<1>7. OrphanInv'
  <2> SUFFICES ASSUME NEW p \in Requests, NEW i \in Impls, st'[p][i] = "orphaned"
               PROVE  OwnTasks /\ phase'[p] \in {"gathering", "cancelled"}
    BY DEF OrphanInv
  <2>1. CASE p # q
    BY <1>1, <2>1 DEF OrphanInv
  <2>2. CASE p = q /\ st[q][i] \in Active
    <3>1. Thrown(st[q][i]) = "orphaned"
      BY <1>1, <2>2
    <3>2. phase'[q] # "sequential"
      BY <1>6, <2>2, <3>1 DEF Running
    <3> QED
      BY <1>0, <1>1, <2>2, <3>1, <3>2
  <2>3. CASE p = q /\ st[q][i] \notin Active
    <3>1. st[q][i] = "orphaned"
      BY <1>1, <2>3
    <3> QED
      BY <1>1, <2>3, <3>1 DEF OrphanInv
  <2> QED
    BY <2>1, <2>2, <2>3
<1> QED
  BY <1>2, <1>4, <1>5, <1>7

(* The end of a gather moves no body.                                      *)
LEMMA CloseInv ==
    ASSUME PipelineInv, NEW q \in Requests, Merge(q) \/ GatherCancelled(q)
    PROVE  /\ PlacesInv' /\ SnapshotInv' /\ ModeInv' /\ FlowInv'
           /\ QuietInv' /\ OrphanInv' /\ InOrder'
<1> USE DEF PipelineInv, TypeInv, TypeOK
<1>1. /\ Running(q) = {}
      /\ phase'[q] \in Ended /\ \A p \in Requests \ {q} : phase'[p] = phase[p]
      /\ position' = position /\ registrations' = registrations
      /\ plan' = plan /\ st' = st /\ unaudited' = unaudited
  BY DEF Merge, GatherCancelled, Ended
<1>2. PlacesInv' /\ SnapshotInv'
  BY <1>1 DEF PlacesInv, SnapshotInv, Ended
<1>3. ModeInv' /\ FlowInv'
  BY <1>1 DEF ModeInv, FlowInv, Ended, Sequential, RunsParallel, Begun, Proceeded
<1>4. QuietInv'
  BY <1>1 DEF QuietInv, Running
<1>5. InOrder'
  BY <1>1 DEF InOrder, Sequential, RunsParallel, Begun, Proceeded, Before
<1>6. OrphanInv'
  BY DEF Merge, GatherCancelled, OrphanInv
<1> QED
  BY <1>2, <1>3, <1>4, <1>5, <1>6

(* The invariant is inductive.                                             *)
LEMMA NextInv ==
    ASSUME PipelineInv, [Next]_vars
    PROVE  PipelineInv'
<1>1. TypeInv'
  BY TypeStep, GivenStep DEF PipelineInv, TypeInv
<1>2. CASE Next
  BY <1>1, <1>2, ImplementInv, RunInv, StepInv, CancelInv, CloseInv DEF Next, PipelineInv
<1>3. CASE UNCHANGED vars
  BY <1>1, <1>3 DEF vars, PipelineInv, PlacesInv, SnapshotInv, ModeInv, FlowInv, QuietInv,
                    OrphanInv, InOrder, Sequential, RunsParallel, Begun, Proceeded, Running, Before
<1> QED
  BY <1>2, <1>3

(* Every reachable state satisfies the inductive invariant of the pipeline: *)
(* snapshots match what has a _run_one, at most one sequential body runs,  *)
(* and each hook that began was let go on before the next one did.         *)
THEOREM Invariance == Spec => []PipelineInv
<1>1. Init => PipelineInv
  <2> SUFFICES ASSUME Init PROVE PipelineInv
    OBVIOUS
  <2>1. TypeInv
    BY DEF Init, TypeInv, TypeOK, GivenInv, Phases, Causes, Stations, Active, Entry, Meter, Fresh
  <2>2. PlacesInv /\ SnapshotInv /\ ModeInv /\ FlowInv /\ QuietInv /\ OrphanInv /\ InOrder
    BY DEF Init, PlacesInv, SnapshotInv, ModeInv, FlowInv, QuietInv, OrphanInv, InOrder, Sequential,
           Begun, Running, Active, Live
  <2> QED
    BY <2>1, <2>2 DEF PipelineInv
<1> QED
  BY <1>1, NextInv, PTL DEF Spec

(* A sequential request's bodies begin in order, one at a time, each only  *)
(* after all in front of it let the pipeline go on.                        *)
THEOREM InOrderTheorem == Spec => []InOrder
BY Invariance, PTL DEF PipelineInv

(* Once the agent has its answer nothing of the request moves any more, in *)
(* either version of wait_for; what is left of an orphaned body of a       *)
(* cancelled request of Python 3.11 ends without a trace.                  *)
THEOREM FinalityTheorem == Spec => EndedIsFinal
<1> DEFINE Kept(q) ==
             /\ UNCHANGED <<phase[q], value[q], log[q]>>
             /\ \A i \in Impls :
                   \/ st'[q][i] = st[q][i]
                   \/ /\ OwnTasks /\ phase[q] = "cancelled"
                      /\ st[q][i] = "orphaned" /\ st'[q][i] = "cancelled"
           Fixed == \A q \in Requests : phase[q] \in Ended => Kept(q)
<1>1. PipelineInv /\ [Next]_vars => [Fixed]_vars
  <2> SUFFICES ASSUME PipelineInv, Next, NEW q \in Requests, phase[q] \in Ended
               PROVE  Kept(q)
    OBVIOUS
  <2> USE DEF PipelineInv, TypeInv, TypeOK
  <2>1. phase[q] \notin Live \cup {"idle"}
    BY DEF Ended, Live
  <2>2. ASSUME NEW i \in Impls, Implement(i) PROVE Kept(q)
    BY <2>2 DEF Implement
  <2>3. ASSUME NEW p \in Requests, NEW c \in Contexts, Run(p, c) PROVE Kept(q)
    BY <2>1, <2>3 DEF Run
  <2>4. ASSUME NEW p \in Requests, NEW i \in Impls, Step(p, i) PROVE Kept(q)
    <3>1. OnlyOf(p, i) /\ (Begins(p, i) \/ Expires(p, i) \/ Ends(p, i) \/ Fades(p, i))
      BY <2>4, StepCases
    <3>2. CASE p # q
      BY <3>1, <3>2 DEF OnlyOf
    <3>3. CASE p = q
      <4>1. Fades(q, i)
        BY <2>1, <3>1, <3>3 DEF Begins, Enter, Expires, Ends, Active, Live, QuietInv, Running
      <4>2. OwnTasks /\ phase[q] = "cancelled"
        BY <2>1, <4>1 DEF Fades, OrphanInv, Live
      <4> QED
        BY <3>1, <3>3, <4>1, <4>2 DEF Fades, OnlyOf
    <3> QED
      BY <3>2, <3>3
  <2>5. ASSUME NEW p \in Requests, Cancel(p) \/ Merge(p) \/ GatherCancelled(p)
        PROVE  Kept(q)
    BY <2>1, <2>5 DEF Cancel, Merge, GatherCancelled, Live
  <2> QED
    BY <2>2, <2>3, <2>4, <2>5 DEF Next
<1> QED
  BY <1>1, Invariance, PTL DEF Spec, EndedIsFinal
=============================================================================
