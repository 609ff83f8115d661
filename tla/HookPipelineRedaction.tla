----------------------- MODULE HookPipelineRedaction -----------------------
(***************************************************************************)
(* A theorem about HookPipeline: what a hook redacts stays redacted, in    *)
(* the audit and in what the agent gets, until a later hook that replaced  *)
(* the metadata or the list of redacted keys returns less of that list.    *)
(* It rests on AnswersInv: each body of a sequential request is given what *)
(* the executor carries, and stands behind all that has ended.             *)
(***************************************************************************)
EXTENDS HookPipelineAnswers

(* While i's key k is not lost to a rewrite, the carried context has it.   *)
StillRedacted(q, i, k) ==
    value[q] = NoCtx \/ k \in value[q].redacted \/ RewroteAfter(q, i) # {}

HiddenIn(q, i, k, n) ==
    \/ log[q][n].shown[k] \in {Absent, Hidden}
    \/ ~Before(i, log[q][n].impl)
    \/ \E j \in RewroteAfter(q, i) : Before(j, log[q][n].impl)

RedactInv(q) ==
    \A i \in Good(q) : out[q][i] # NoCtx =>
        \A k \in out[q][i].redacted :
            /\ StillRedacted(q, i, k)
            /\ \A n \in DOMAIN log[q] : HiddenIn(q, i, k, n)

-----------------------------------------------------------------------------
(* What one hook returns keeps what is redacted, or is a rewrite.          *)
LEMMA ResultsRedact ==
    ASSUME NEW i \in Impls, NEW c \in Ctx, NEW v \in Results(i, c), v # NoCtx
    PROVE  c.redacted \subseteq v.redacted \/ MayHaveReplaced(i, v)
<1> DEFINE Keeps(s) == \/ c.redacted \subseteq s.redacted
                       \/ \E m \in Rewrites[i] : s.meta = m
                       \/ \E L \in Relists[i] : L \subseteq s.redacted
           Kept == {s \in Ctx : Keeps(s)}
           Shown == {w \in Ctx : c.redacted \subseteq w.redacted \/ MayHaveReplaced(i, w)}
<1>1. /\ Redacts[i] \subseteq Keys /\ Retools[i] \subseteq Tools
      /\ Rewrites[i] \subseteq Meta /\ Relists[i] \subseteq SUBSET Keys
  BY ImplsAssumption
<1>2. {c} \cup {ReplaceMeta(c, m) : m \in Rewrites[i]} \subseteq Kept
  <2>1. ASSUME NEW m \in Rewrites[i]
        PROVE  ReplaceMeta(c, m) \in Ctx /\ ReplaceMeta(c, m).meta = m
    BY <1>1 DEF ReplaceMeta, Ctx
  <2> QED
    BY <2>1
<1>3. ASSUME NEW S \in SUBSET Kept
      PROVE  S \cup {Relist(s, L) : s \in S, L \in Relists[i]} \subseteq Kept
  <2>1. ASSUME NEW s \in Ctx, NEW L \in Relists[i]
        PROVE  Relist(s, L) \in Ctx /\ Relist(s, L).redacted = L
    BY <1>1 DEF Relist, Ctx
  <2> QED
    BY <2>1
<1>4. ASSUME NEW S \in SUBSET Kept
      PROVE  S \cup {ReplaceTool(s, t) : s \in S, t \in Retools[i]} \subseteq Kept
  <2>1. ASSUME NEW s \in Ctx, NEW t \in Retools[i]
        PROVE  /\ ReplaceTool(s, t) \in Ctx /\ ReplaceTool(s, t).redacted = s.redacted
               /\ ReplaceTool(s, t).meta = s.meta
    BY <1>1 DEF ReplaceTool, Ctx
  <2> QED
    BY <2>1
<1>5. ASSUME NEW s \in Kept, NEW e \in Writes(i), NEW R \in SUBSET Redacts[i]
      PROVE  Redact(Enrich(s, e), R) \in Shown
  <2> DEFINE w == Redact(Enrich(s, e), R)
  <2>1. /\ w \in Ctx /\ w.redacted = s.redacted \cup R
        /\ w.meta = [k \in Keys |-> IF e[k] = Absent THEN s.meta[k] ELSE e[k]]
    BY <1>1 DEF Redact, Enrich, Writes, Ctx, Meta
  <2>2. \A k \in Keys : e[k] = Absent \/ <<k, e[k]>> \in Enriches[i]
    BY DEF Writes
  <2>3. \A k \in Keys : w.meta[k] = s.meta[k] \/ <<k, w.meta[k]>> \in Enriches[i]
    BY <2>1, <2>2
  <2> HIDE DEF w
  <2>4. c.redacted \subseteq w.redacted \/ MayHaveReplaced(i, w)
    BY <2>1, <2>3 DEF MayHaveReplaced
  <2>5. w \in Shown
    BY <2>1, <2>4
  <2> QED
    BY <2>5 DEF w
<1>6. ASSUME NEW S \in SUBSET Kept
      PROVE  {Redact(Enrich(s, e), R) : s \in S, e \in Writes(i), R \in SUBSET Redacts[i]} \subseteq Shown
  BY <1>5
<1> HIDE DEF Kept, Shown
<1>7. Results(i, c) \subseteq Shown \cup {NoCtx}
  <2> DEFINE replaced == {c} \cup {ReplaceMeta(c, m) : m \in Rewrites[i]}
             relisted == replaced \cup {Relist(s, L) : s \in replaced, L \in Relists[i]}
             retooled == relisted \cup {ReplaceTool(s, t) : s \in relisted, t \in Retools[i]}
             edited == {Redact(Enrich(s, e), R) : s \in retooled, e \in Writes(i), R \in SUBSET Redacts[i]}
  <2>1. Results(i, c) = edited \cup (IF i \in Forgetful THEN {NoCtx} ELSE {})
    BY DEF Results
  <2>2. replaced \subseteq Kept
    BY <1>2
  <2> HIDE DEF replaced
  <2>3. relisted \subseteq Kept
    BY <1>3, <2>2
  <2> HIDE DEF relisted
  <2>4. retooled \subseteq Kept
    BY <1>4, <2>3
  <2> HIDE DEF retooled
  <2>5. edited \subseteq Shown
    BY <1>6, <2>4
  <2> HIDE DEF edited
  <2> QED
    BY <2>1, <2>5
<1> QED
  BY <1>7 DEF Shown

LEMMA SafeMetaHides ==
    ASSUME NEW c \in Ctx, NEW k \in c.redacted
    PROVE  SafeMeta(c)[k] \in {Absent, Hidden}
BY DEF SafeMeta, Ctx

(* Redaction is about the carried context and the ended hooks alone.       *)
LEMMA UndisturbedKeeps ==
    ASSUME PipelineInv, NEW q \in Requests, EntriesTell(q), RedactInv(q),
           out'[q] = out[q], log'[q] = log[q], value'[q] = value[q],
           Good(q)' = Good(q), \A i \in Good(q) : in'[q][i] = in[q][i],
           \A i, j \in plan[q] : Before(i, j)' <=> Before(i, j)
    PROVE  RedactInv(q)'
<1>1. Good(q) \subseteq plan[q] /\ \A n \in DOMAIN log[q] : log[q][n].impl \in plan[q]
  <2>1. \A n \in DOMAIN log[q] : log[q][n].impl \in Impls /\ st[q][log[q][n].impl] # "none"
    BY Logged DEF Statuses
  <2> QED
    BY <2>1, InPlan
<1>2. \A i \in Good(q) : RewroteAfter(q, i)' = RewroteAfter(q, i)
  BY <1>1 DEF RewroteAfter
<1>3. \A i \in Good(q) : RewroteAfter(q, i) \subseteq plan[q]
  BY <1>1 DEF RewroteAfter
<1>4. ASSUME NEW i \in Good(q), NEW k, StillRedacted(q, i, k)
      PROVE  StillRedacted(q, i, k)'
  BY <1>2, <1>4 DEF StillRedacted
<1>5. ASSUME NEW i \in Good(q), NEW k, NEW n \in DOMAIN log[q], HiddenIn(q, i, k, n)
      PROVE  HiddenIn(q, i, k, n)'
  BY <1>1, <1>2, <1>3, <1>5 DEF HiddenIn
<1> QED
  BY <1>4, <1>5 DEF RedactInv

LEMMA SameRedacted ==
    ASSUME PipelineInv, NEW q \in Requests, EntriesTell(q), RedactInv(q), Same(q)
    PROVE  RedactInv(q)'
<1>1. Good(q)' = Good(q)
  BY DEF Same, Good
<1> QED
  BY <1>1, UndisturbedKeeps DEF Same

-----------------------------------------------------------------------------
(* What a _run_one that ends hands on and what it has logged.              *)
HandsOn(q, i) ==
    /\ in'[q][i] = in[q][i]
    /\ i \in Good(q)' => out'[q][i] \in Results(i, in[q][i])
    /\ \/ log'[q] = log[q]
       \/ /\ log[q] \in Seq(Entry) /\ log'[q] \in Seq(Entry)
          /\ Len(log'[q]) = Len(log[q]) + 1
          /\ log'[q][Len(log[q]) + 1].impl = i
          /\ log'[q][Len(log[q]) + 1].shown = SafeMeta(in[q][i])
          /\ \A n \in 1..Len(log[q]) : log'[q][n] = log[q][n]

LEMMA AuditShows ==
    ASSUME PipelineInv, NEW q \in Requests, NEW i \in Impls, NEW s \in Statuses \ {"skip"},
           st[q][i] \in Active, Audit(q, i, s), in' = in,
           i \in Good(q)' => out'[q][i] \in Results(i, in[q][i])
    PROVE  HandsOn(q, i)
<1> DEFINE e == [impl |-> i, status |-> s, shown |-> SafeMeta(in[q][i])]
<1>1. log' = [log EXCEPT ![q] = Append(log[q], e)] /\ log[q] \in Seq(Entry)
  BY DEF Audit, PipelineInv, TypeInv, TypeOK
<1>2. e \in Entry
  <2>1. in[q][i] \in Ctx
    BY DEF PipelineInv, TypeInv, TypeOK, GivenInv
  <2> QED
    BY <2>1, SafeMetaType DEF Entry
<1>3. e.impl = i /\ e.shown = SafeMeta(in[q][i])
  OBVIOUS
<1> HIDE DEF e
<1>4. log'[q] = Append(log[q], e)
  BY <1>1 DEF PipelineInv, TypeInv, TypeOK
<1>5. /\ log'[q] \in Seq(Entry) /\ Len(log'[q]) = Len(log[q]) + 1
      /\ log'[q][Len(log[q]) + 1] = e
      /\ \A n \in 1..Len(log[q]) : log'[q][n] = log[q][n]
  BY <1>1, <1>2, <1>4
<1> QED
  BY <1>1, <1>3, <1>5 DEF HandsOn

LEMMA StepHandsOn ==
    ASSUME PipelineInv, NEW q \in Requests, NEW i \in Impls, Step(q, i),
           st[q][i] \in Active, ~Expire(q, i)
    PROVE  HandsOn(q, i)
<1> USE DEF PipelineInv, TypeInv, TypeOK
<1>1. CASE Return(q, i)
  <2>1. PICK v \in Results(i, in[q][i]) : out' = [out EXCEPT ![q][i] = v]
    BY <1>1 DEF Return
  <2>2. out'[q][i] = v
    BY <2>1
  <2> QED
    BY <1>1, <2>2, AuditShows DEF Return, Statuses
<1>2. CASE Fail(q, i) \/ OwnTimeout(q, i) \/ Unwind(q, i) \/ AuditRecovers(q, i)
  <2>1. PICK s \in {"timeout", "error"} : Degrades(q, i, s)
    BY <1>2, DegradeCases
  <2>2. Audit(q, i, s) /\ s \in Statuses \ {"skip"} /\ i \notin Good(q)' /\ in' = in
    BY <2>1 DEF Degrades, Settle, Good, Statuses
  <2> QED
    BY <2>2, AuditShows
<1>3. CASE Block(q, i)
  <2>1. Audit(q, i, "blocked") /\ "blocked" \in Statuses \ {"skip"} /\ i \notin Good(q)' /\ in' = in
    BY <1>3 DEF Block, Settle, Good, Statuses
  <2> QED
    BY <2>1, AuditShows
<1>4. CASE Skip(q, i) \/ Abandon(q, i) \/ OwnCancel(q, i)
  BY <1>4 DEF Skip, Abandon, OwnCancel, Settle, Good, HandsOn
<1>5. ASSUME NEW s \in Statuses \ {"skip"}, AuditFails(q, i, s) PROVE HandsOn(q, i)
  BY <1>5 DEF AuditFails, Good, HandsOn
<1>6. ~Enter(q, i) /\ ~OrphanEnds(q, i)
  BY DEF Enter, OrphanEnds, Active
<1> QED
  BY <1>1, <1>2, <1>3, <1>4, <1>5, <1>6 DEF Step

(* A hook of a sequential request ends: it was given what is carried, all  *)
(* that has ended stands in front of it, and what it returns is carried.   *)
LEMMA LandingRedacts ==
    ASSUME PipelineInv, NEW q \in Requests, NEW i \in Impls, NEW s,
           AnswerInv(q), RedactInv(q), Aside(q, i), Lands(q, i, s), HandsOn(q, i)
    PROVE  Sequential(q)' => RedactInv(q)'
<1> SUFFICES ASSUME Sequential(q)' PROVE RedactInv(q)'
  OBVIOUS
<1>1. /\ phase[q] = "sequential" /\ i \in plan[q] /\ i \notin Good(q)
      /\ \A j \in Begun(q) \ {i} : Before(j, i) /\ ~Before(i, j)
  <2>1. Sequential(q)
    BY DEF Aside, Sequential, RunsParallel
  <2> QED
    BY <2>1, OthersBefore DEF Lands
<1>2. in[q][i] = value[q] /\ in[q][i] \in Ctx /\ value[q] # NoCtx
  BY <1>1, NoCtxAssumption DEF AnswerInv, CarriedInv, Live, Lands, PipelineInv, TypeInv, TypeOK, GivenInv
<1>3. value'[q] = IF i \in Good(q)' THEN out'[q][i] ELSE value[q]
  BY <1>1 DEF Lands
<1>4. /\ Good(q) \subseteq Begun(q) \ {i} /\ Begun(q) \subseteq Impls
      /\ \A j \in Impls \ {i} : (j \in Good(q)' <=> j \in Good(q)) /\ out'[q][j] = out[q][j]
                                /\ in'[q][j] = in[q][j]
      /\ \A j, k \in Impls : Before(j, k)' <=> Before(j, k)
      /\ ~Before(i, i)
  <2>1. Good(q) \subseteq Begun(q) \ {i} /\ Begun(q) \subseteq Impls
    BY <1>1, InPlan DEF Good, Begun
  <2>2. \A j \in Impls \ {i} : /\ (j \in Good(q)' <=> j \in Good(q)) /\ out'[q][j] = out[q][j]
                                /\ in'[q][j] = in[q][j]
    BY DEF Aside, Good
  <2>3. \A j, k \in Impls : Before(j, k)' <=> Before(j, k)
    BY DEF Aside, Before
  <2>4. Order[i] \in Nat /\ position[i] \in Nat
    BY ImplsAssumption DEF PipelineInv, TypeInv, TypeOK
  <2>5. ~Before(i, i)
    BY <2>4 DEF Before
  <2> QED
    BY <2>1, <2>2, <2>3, <2>5
<1>5. \A n \in DOMAIN log[q] : log[q][n].impl \in Begun(q) \ {i}
  <2> SUFFICES ASSUME NEW n \in DOMAIN log[q] PROVE log[q][n].impl \in Begun(q) \ {i}
    OBVIOUS
  <2>1. log[q][n].impl \in Impls /\ st[q][log[q][n].impl] \in Statuses
    BY Logged DEF AnswerInv
  <2> QED
    BY <2>1, InPlan DEF Lands, Active, Statuses, Begun
<1>6. \A j \in Good(q) : RewroteAfter(q, j) \subseteq RewroteAfter(q, j)'
  BY <1>4 DEF RewroteAfter
<1>7. ASSUME NEW n \in DOMAIN log'[q]
      PROVE  \/ n \in DOMAIN log[q] /\ log'[q][n] = log[q][n]
             \/ log'[q][n].impl = i /\ log'[q][n].shown = SafeMeta(value[q])
  <2>1. CASE log'[q] = log[q]
    BY <1>7, <2>1
  <2>2. CASE /\ log[q] \in Seq(Entry) /\ log'[q] \in Seq(Entry)
             /\ Len(log'[q]) = Len(log[q]) + 1
             /\ log'[q][Len(log[q]) + 1].impl = i
             /\ log'[q][Len(log[q]) + 1].shown = SafeMeta(in[q][i])
             /\ \A m \in 1..Len(log[q]) : log'[q][m] = log[q][m]
    <3>1. /\ Len(log[q]) \in Nat /\ DOMAIN log[q] = 1..Len(log[q])
          /\ n \in 1..(Len(log[q]) + 1)
      BY <1>7, <2>2
    <3>2. n \in 1..Len(log[q]) \/ n = Len(log[q]) + 1
      BY <3>1
    <3> QED
      BY <1>2, <2>2, <3>1, <3>2
  <2> QED
    BY <2>1, <2>2 DEF HandsOn
<1>8. ASSUME NEW j \in Good(q), out[q][j] # NoCtx, NEW k \in out[q][j].redacted
      PROVE  StillRedacted(q, j, k)' /\ \A n \in DOMAIN log'[q] : HiddenIn(q, j, k, n)'
  <2>1. StillRedacted(q, j, k) /\ \A n \in DOMAIN log[q] : HiddenIn(q, j, k, n)
    BY <1>8 DEF RedactInv
  <2>2. StillRedacted(q, j, k)'
    <3>1. CASE RewroteAfter(q, j) # {}
      BY <1>6, <3>1 DEF StillRedacted
    <3>2. CASE RewroteAfter(q, j) = {} /\ i \notin Good(q)'
      BY <1>3, <2>1, <3>2, <1>2 DEF StillRedacted
    <3>3. CASE RewroteAfter(q, j) = {} /\ i \in Good(q)' /\ out'[q][i] = NoCtx
      BY <1>3, <3>3 DEF StillRedacted
    <3>4. CASE RewroteAfter(q, j) = {} /\ i \in Good(q)' /\ out'[q][i] # NoCtx
      <4>1. k \in value[q].redacted
        BY <1>2, <2>1, <3>4 DEF StillRedacted
      <4>2. \/ value[q].redacted \subseteq out'[q][i].redacted
            \/ MayHaveReplaced(i, out'[q][i])
        BY <1>2, <3>4, ResultsRedact DEF HandsOn
      <4>3. CASE value[q].redacted \subseteq out'[q][i].redacted
        BY <1>3, <3>4, <4>1, <4>3 DEF StillRedacted
      <4>4. CASE /\ MayHaveReplaced(i, out'[q][i])
                 /\ ~(value[q].redacted \subseteq out'[q][i].redacted)
        <5>1. Before(j, i)'
          BY <1>1, <1>4
        <5>2. i \in RewroteAfter(q, j)'
          BY <1>2, <3>4, <4>4, <5>1 DEF RewroteAfter, HandsOn
        <5> QED
          BY <5>2 DEF StillRedacted
      <4> QED
        BY <4>2, <4>3, <4>4
    <3> QED
      BY <3>1, <3>2, <3>3, <3>4
  <2>3. ASSUME NEW n \in DOMAIN log'[q] PROVE HiddenIn(q, j, k, n)'
    <3>1. CASE n \in DOMAIN log[q] /\ log'[q][n] = log[q][n]
      <4>1. HiddenIn(q, j, k, n) /\ log[q][n].impl \in Impls
        BY <1>4, <1>5, <2>1, <3>1
      <4>2. RewroteAfter(q, j) \subseteq Impls /\ j \in Impls
        BY <1>4 DEF RewroteAfter
      <4> QED
        BY <1>4, <1>6, <3>1, <4>1, <4>2 DEF HiddenIn
    <3>2. CASE log'[q][n].impl = i /\ log'[q][n].shown = SafeMeta(value[q])
      <4>1. CASE k \in value[q].redacted
        BY <1>2, <3>2, <4>1, SafeMetaHides DEF HiddenIn
      <4>2. CASE RewroteAfter(q, j) # {}
        <5>1. PICK l \in RewroteAfter(q, j) : TRUE
          BY <4>2
        <5>2. l \in RewroteAfter(q, j)' /\ l \in Good(q)
          BY <1>6 DEF RewroteAfter
        <5>3. Before(l, i)'
          BY <1>1, <1>4, <5>2
        <5> QED
          BY <3>2, <5>2, <5>3 DEF HiddenIn
      <4> QED
        BY <1>2, <2>1, <4>1, <4>2 DEF StillRedacted
    <3> QED
      BY <1>7, <3>1, <3>2
  <2> QED
    BY <2>2, <2>3
<1>9. ASSUME i \in Good(q)', out'[q][i] # NoCtx, NEW k \in out'[q][i].redacted
      PROVE  StillRedacted(q, i, k)' /\ \A n \in DOMAIN log'[q] : HiddenIn(q, i, k, n)'
  <2>1. StillRedacted(q, i, k)'
    BY <1>3, <1>9 DEF StillRedacted
  <2>2. ASSUME NEW n \in DOMAIN log'[q] PROVE ~Before(i, log[q][n].impl)'
    <3>1. log'[q][n].impl \in (Begun(q) \ {i}) \cup {i}
      BY <1>5, <1>7
    <3>2. ~Before(i, log'[q][n].impl)
      BY <1>1, <1>4, <3>1
    <3> QED
      BY <1>4, <3>1, <3>2
  <2> QED
    BY <2>1, <2>2 DEF HiddenIn
<1>10. \A j \in Good(q)' : j = i \/ (j \in Good(q) /\ out'[q][j] = out[q][j])
  BY <1>4 DEF Aside, Good
<1> QED
  BY <1>8, <1>9, <1>10 DEF RedactInv

-----------------------------------------------------------------------------
(* The invariant is inductive, for the sequential requests.                *)
RedactionInv == AnswersInv /\ \A q \in Requests : Sequential(q) => RedactInv(q)

LEMMA NextRedaction ==
    ASSUME RedactionInv, [Next]_vars
    PROVE  RedactionInv'
<1>1. AnswersInv' /\ PipelineInv /\ \A q \in Requests : AnswerInv(q) /\ EntriesTell(q)
  BY NextAnswers DEF RedactionInv, AnswersInv, AnswerInv
<1>2. ASSUME NEW q \in Requests, Same(q) PROVE Sequential(q)' => RedactInv(q)'
  <2>1. Sequential(q)' <=> Sequential(q)
    BY <1>2 DEF Same, Sequential, RunsParallel
  <2> QED
    BY <1>1, <1>2, <2>1, SameRedacted DEF RedactionInv
<1>3. \A q \in Requests : Sequential(q)' => RedactInv(q)'
  <2> USE <1>1
  <2>1. ASSUME NEW i \in Impls, Implement(i) PROVE \A q \in Requests : Same(q)
    <3>1. \A q \in Requests : \A j \in plan[q] : position'[j] = position[j]
      BY <2>1 DEF Implement, PipelineInv, SnapshotInv, TypeInv, TypeOK
    <3> QED
      BY <2>1, <3>1 DEF Implement, Same, Before
  <2>2. ASSUME NEW q \in Requests, NEW c \in Contexts, Run(q, c)
        PROVE  RedactInv(q)' /\ \A p \in Requests \ {q} : Same(p)
    <3>1. \A p \in Requests \ {q} : Same(p)
      BY <2>2 DEF Run, Same, Before, PipelineInv, TypeInv, TypeOK
    <3>2. Good(q)' = {}
      BY <2>2 DEF Run, Good, PipelineInv, TypeInv, TypeOK
    <3> QED
      BY <3>1, <3>2 DEF RedactInv
  <2>3. ASSUME NEW q \in Requests, NEW i \in Impls, Step(q, i)
        PROVE  (Sequential(q)' => RedactInv(q)') /\ \A p \in Requests \ {q} : Same(p)
    <3>1. Aside(q, i) /\ \A p \in Requests \ {q} : Same(p)
      BY <2>3, StepAside
    <3>2. Sequential(q)' <=> Sequential(q)
      BY <3>1 DEF Aside, Sequential, RunsParallel
    <3>3. CASE Enter(q, i) \/ Expire(q, i) \/ OrphanEnds(q, i)
      <4>1. /\ out' = out /\ log' = log /\ value' = value /\ position' = position
            /\ Good(q)' = Good(q) /\ i \notin Good(q)
        BY <3>3 DEF Enter, Expire, OrphanEnds, Settle, Good, PipelineInv, TypeInv, TypeOK
      <4>2. \A j \in Good(q) : in'[q][j] = in[q][j]
        BY <3>1, <4>1 DEF Aside, Good
      <4> QED
        BY <3>1, <3>2, <4>1, <4>2, UndisturbedKeeps DEF RedactionInv, Before
    <3>4. ASSUME NEW s \in Statuses \cup {"cancelled"}, Lands(q, i, s), ~Expire(q, i),
                 Sequential(q)'
          PROVE  RedactInv(q)'
      <4>1. HandsOn(q, i)
        BY <2>3, <3>4, StepHandsOn DEF Lands
      <4> QED
        BY <3>1, <3>2, <3>4, <4>1, LandingRedacts DEF RedactionInv
    <3> QED
      BY <2>3, <3>1, <3>3, <3>4, StepLands
  <2>4. ASSUME NEW q \in Requests, Cancel(q) \/ GatherCancelled(q)
        PROVE  (Sequential(q)' => RedactInv(q)') /\ \A p \in Requests \ {q} : Same(p)
    <3>1. \A p \in Requests \ {q} : Same(p)
      BY <2>4 DEF Cancel, GatherCancelled, Same, Before, PipelineInv, TypeInv, TypeOK
    <3>2. /\ out' = out /\ log' = log /\ value' = value /\ position' = position /\ plan' = plan
          /\ unaudited' = unaudited /\ in' = in
      BY <2>4 DEF Cancel, GatherCancelled
    <3>3. \A i \in Impls : st'[q][i] = "ok" <=> st[q][i] = "ok"
      <4> USE DEF PipelineInv, TypeInv, TypeOK
      <4>1. \A i \in Impls : \/ st'[q][i] = st[q][i]
                             \/ st[q][i] \in Active /\ st'[q][i] \in {"cancelling", "orphaned"}
                             \/ st[q][i] = "queued" /\ st'[q][i] = "cancelled"
        BY <2>4 DEF Cancel, GatherCancelled, Thrown
      <4> QED
        BY <4>1 DEF Active
    <3>4. Good(q)' = Good(q) /\ (Sequential(q)' <=> Sequential(q))
      BY <3>2, <3>3 DEF Good, Sequential, RunsParallel
    <3> QED
      BY <3>1, <3>2, <3>4, UndisturbedKeeps DEF RedactionInv, Before
  <2>5. ASSUME NEW q \in Requests, Merge(q)
        PROVE  ~Sequential(q)' /\ \A p \in Requests \ {q} : Same(p)
    BY <2>5 DEF Merge, Same, Before, ModeInv, Sequential, RunsParallel,
                PipelineInv, TypeInv, TypeOK
  <2>6. CASE UNCHANGED vars
    BY <1>2, <2>6 DEF vars, Same, Before
  <2> QED
    BY <1>2, <2>1, <2>2, <2>3, <2>4, <2>5, <2>6 DEF Next
<1> QED
  BY <1>1, <1>3 DEF RedactionInv

(* A key redacted by a good hook of a sequential request is hidden in the  *)
(* audit entries of all later hooks and redacted in what the agent gets,   *)
(* unless a hook in between replaced the whole metadata or the list of the *)
(* redacted keys, and returned less of that list than it was given.        *)
THEOREM RedactionTheorem == Spec => []RedactionSticks
<1>1. Init /\ AnswersInv => RedactionInv
  BY DEF Init, RedactionInv, Sequential
<1>2. RedactionInv => RedactionSticks
  <2> SUFFICES ASSUME RedactionInv PROVE RedactionSticks
    OBVIOUS
  <2> QED
    BY DEF RedactionInv, RedactInv, StillRedacted, HiddenIn, RedactionSticks
<1> QED
  BY <1>1, <1>2, AnswersInvariance, NextRedaction, PTL DEF Spec
=============================================================================
