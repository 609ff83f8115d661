--------------------------- MODULE MCHookPipeline ---------------------------
(* Small instances of HookPipeline: up to three implementations on one     *)
(* hook point, i3 in front and i1 and i2 with the same order.              *)
EXTENDS HookPipeline, TLC

CONSTANTS i1, i2, i3, k1, k2, t1, t2, q1, q2

MCOrder    == [i \in Impls |-> IF i = i3 THEN 0 ELSE 1]

(* Filters: none; i2 only for tool t1; i1 only for tool t1.                *)
AnyTool    == [i \in Impls |-> Tools]
SecondOnT1 == [i \in Impls |-> IF i = i2 THEN {t1} ELSE Tools]
FirstOnT1  == [i \in Impls |-> IF i = i1 THEN {t1} ELSE Tools]

(* What the bodies do: i1 may replace the metadata and redact k2, i2 may   *)
(* write k2 and store a list of its own under "__redacted__", and i3       *)
(* redacts k1.                                                             *)
MCEnriches == [i \in Impls |-> IF i = i2 THEN {<<k2, "late">>} ELSE {}]
MCRedacts  == [i \in Impls |-> IF i = i1 THEN {k2} ELSE IF i = i3 THEN {k1} ELSE {}]
MCRewrites == [i \in Impls |-> IF i = i1 THEN {[k \in Keys |-> "new"]} ELSE {}]
MCRelists  == [i \in Impls |-> IF i = i2 THEN {{k2}} ELSE {}]

(* When they are gathered, i1 and i3 both may write k1, and i3 redacts k2. *)
TwoWriters == [i \in Impls |-> IF i = i1 THEN {<<k1, "new">>}
                               ELSE IF i = i3 THEN {<<k1, "late">>} ELSE {}]
TwoLists   == [i \in Impls |-> IF i = i2 THEN {k1} ELSE IF i = i3 THEN {k2} ELSE {}]

NoEdits    == [i \in Impls |-> {}]
ThirdToT2  == [i \in Impls |-> IF i = i3 THEN {t2} ELSE {}]

(* The agent's context has the key k1 already and lacks k2.                *)
MCContexts ==
    {[tool |-> t, meta |-> [k \in Keys |-> IF k = k1 THEN "old" ELSE Absent],
      redacted |-> {}] : t \in Tools}

(* Requests are told apart by no constant.                                 *)
SameRequests == Permutations(Requests)
=============================================================================
