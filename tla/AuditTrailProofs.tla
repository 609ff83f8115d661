-------------------------- MODULE AuditTrailProofs --------------------------
(***************************************************************************)
(* Proofs about AuditTrail, for any records, trails and fragile entries.   *)
(***************************************************************************)
EXTENDS AuditTrail, TLAPS

(* Leave keeps the types of what it assigns.                               *)
LEMMA LeaveType ==
    ASSUME TypeOK, NEW r \in Records, NEW end \in Tasks, Leave(r, end)
    PROVE  locked' \in [Trails -> BOOLEAN] /\ task' \in [Records -> Tasks]
BY DEF Leave, TypeOK, Tasks, Pending

(* A written line is one more line of one file.                            *)
LEMMA AppendType ==
    ASSUME NEW w \in [Files -> Seq(Records)], NEW f \in Files, NEW r \in Records
    PROVE  [w EXCEPT ![f] = Append(w[f], r)] \in [Files -> Seq(Records)]
OBVIOUS

(* Every step keeps the types.                                             *)
LEMMA TypeStep == TypeOK /\ [Next]_vars => TypeOK'
<1> SUFFICES ASSUME TypeOK, [Next]_vars PROVE TypeOK'
  OBVIOUS
<1> USE DEF Tasks, Pending, Jobs
<1>1. ASSUME NEW t \in Trails, SetDefault(t) PROVE TypeOK'
  BY <1>1 DEF SetDefault, TypeOK
<1>2. ASSUME NEW r \in Records, RecordStep(r) PROVE TypeOK'
  <2>1. CASE HandOver(r)
    BY <2>1 DEF HandOver, TypeOK
  <2>2. CASE Start(r)
    BY <2>2 DEF Start, Queues, Free, TypeOK
  <2>3. CASE Resume(r)
    BY <2>3 DEF Resume, TypeOK
  <2>4. CASE Pick(r)
    BY <2>4 DEF Pick, TypeOK
  <2>5. CASE Write(r)
    <3>1. PathOf[trail[r]] \in Files
      BY AuditAssumption DEF TypeOK
    <3> QED
      BY <2>5, <3>1, AppendType DEF Write, Appended, TypeOK
  <2>6. CASE WriteFails(r)
    BY <2>6 DEF WriteFails, TypeOK
  <2>7. CASE Finish(r)
    BY <2>7, LeaveType DEF Finish, TypeOK
  <2>8. CASE Cancel(r)
    <3>1. locked' \in [Trails -> BOOLEAN] /\ task' \in [Records -> Tasks]
      BY <2>8, LeaveType DEF Cancel, TypeOK
    <3> QED
      BY <2>8, <3>1 DEF Cancel, Revoked, TypeOK
  <2> QED
    BY <1>2, <2>1, <2>2, <2>3, <2>4, <2>5, <2>6, <2>7, <2>8 DEF RecordStep
<1>3. CASE Shutdown
  BY <1>3 DEF Shutdown, Revoked, TypeOK
<1>4. CASE Restart
  BY <1>4 DEF Restart, TypeOK
<1>5. CASE UNCHANGED vars
  BY <1>5 DEF vars, TypeOK
<1> QED
  BY <1>1, <1>2, <1>3, <1>4, <1>5 DEF Next

(* Every variable of the audit trail keeps its type.                       *)
THEOREM AuditTypeTheorem == Spec => []TypeOK
<1>1. Init => TypeOK
  BY DEF Init, TypeOK, Tasks, Jobs, Pending
<1> QED
  BY <1>1, TypeStep, PTL DEF Spec

-----------------------------------------------------------------------------
(* The inductive invariant: how far a task is fits its write, its ticket   *)
(* and the lines in the files.                                             *)

InLine == {"waiting", "woken"}

(* A write belongs to a task that holds the lock, held it, or was          *)
(* cancelled.                                                              *)
JobInv ==
    \A r \in Records :
        /\ task[r] \in {"none", "ready", "failed"} \cup InLine => job[r] = "none"
        /\ task[r] = "writing" => job[r] \in {"submitted", "running", "written", "oserror"}
        /\ task[r] = "done" => job[r] \in {"written", "oserror"}
        /\ task[r] = "cancelled" => job[r] # "submitted"

(* Tickets are given in turn.                                              *)
TicketInv == \A r \in Records : ticket[r] <= tickets

(* Tasks are overtaken by none that was handed over later: those that have *)
(* started are ahead of those that have not; at one trail the writer is    *)
(* ahead of the queue, and those that are done of those that are not.      *)
TurnInv ==
    \A r, x \in Records :
        /\ task[r] \in InLine \cup {"writing"} /\ task[x] = "ready" => ticket[r] < ticket[x]
        /\ trail[r] = trail[x] /\ task[r] = "writing" /\ task[x] \in InLine
              => ticket[r] < ticket[x]
        /\ trail[r] = trail[x] /\ task[r] = "done" /\ task[x] \in Pending
              => ticket[r] < ticket[x]

(* A line in a file is the written line of an entry of a trail on its path. *)
FileInv ==
    \A f \in Files : \A n \in DOMAIN file[f] :
        /\ PathOf[trail[file[f][n]]] = f
        /\ job[file[f][n]] = "written"

AuditInv ==
    /\ TypeOK
    /\ JobInv
    /\ TicketInv
    /\ TurnInv
    /\ LockMatchesTasks
    /\ FileInv
    /\ InHandOverOrder

-----------------------------------------------------------------------------
(* At most one task of a trail writes.                                     *)
LEMMA OneWriter ==
    ASSUME AuditInv, NEW r \in Records, NEW x \in Records, trail[r] = trail[x],
           task[r] = "writing", task[x] = "writing"
    PROVE  r = x
BY DEF AuditInv, TypeOK, LockMatchesTasks

(* Only a task that writes, has written or was cancelled has a write.      *)
LEMMA WritersTask ==
    ASSUME AuditInv, NEW r \in Records, job[r] # "none"
    PROVE  /\ task[r] \in {"writing", "done", "cancelled"}
           /\ job[r] \in {"submitted", "running"} => task[r] \in {"writing", "cancelled"}
BY DEF AuditInv, TypeOK, Tasks, Pending, JobInv, InLine

(* A new entry is behind all others.                                       *)
LEMMA HandOverInv ==
    ASSUME AuditInv, TypeOK', NEW r \in Records, HandOver(r)
    PROVE  AuditInv'
<1> USE DEF AuditInv, TypeOK
<1>1. /\ task[r] = "none" /\ job[r] = "none" /\ task' = [task EXCEPT ![r] = "ready"]
      /\ ticket' = [ticket EXCEPT ![r] = tickets + 1]
      /\ trail' = [trail EXCEPT ![r] = default]
      /\ UNCHANGED <<job, locked, file>>
  BY DEF HandOver, JobInv
<1>2. JobInv'
  BY <1>1 DEF JobInv, InLine
<1>3. TicketInv'
  BY DEF HandOver, TicketInv
<1>4. TurnInv'
  <2> SUFFICES ASSUME NEW x \in Records, NEW y \in Records PROVE
        /\ task'[x] \in InLine \cup {"writing"} /\ task'[y] = "ready" => ticket'[x] < ticket'[y]
        /\ trail'[x] = trail'[y] /\ task'[x] = "writing" /\ task'[y] \in InLine
              => ticket'[x] < ticket'[y]
        /\ trail'[x] = trail'[y] /\ task'[x] = "done" /\ task'[y] \in Pending
              => ticket'[x] < ticket'[y]
    BY DEF TurnInv
  <2>1. CASE x = r
    BY <1>1, <2>1 DEF InLine
  <2>2. CASE x # r /\ y = r
    BY <1>1, <2>2 DEF TicketInv
  <2>3. CASE x # r /\ y # r
    BY <1>1, <2>3 DEF TurnInv
  <2> QED
    BY <2>1, <2>2, <2>3
<1>5. LockMatchesTasks'
  <2>1. \A t \in Trails : Waiters(t)' = Waiters(t)
    BY <1>1 DEF Waiters
  <2>2. \A t \in Trails : \A x \in Waiters(t) : IsFirst(x, Waiters(t))' <=> IsFirst(x, Waiters(t))
    BY <1>1, <2>1 DEF IsFirst, Waiters
  <2>3. \A t \in Trails : \A x \in Records :
           trail'[x] = t /\ task'[x] = "writing" <=> trail[x] = t /\ task[x] = "writing"
    BY <1>1
  <2>4. \A t \in Trails : \A x \in Waiters(t) : x \in Records /\ task'[x] = task[x]
    BY <1>1 DEF Waiters
  <2> QED
    BY <1>1, <2>1, <2>2, <2>3, <2>4 DEF LockMatchesTasks
<1>6. FileInv'
  BY <1>1 DEF FileInv
<1>7. InHandOverOrder'
  BY <1>1 DEF InHandOverOrder, FileInv
<1> QED
  BY <1>2, <1>3, <1>4, <1>5, <1>6, <1>7

(* A task that starts is ahead of the others that have not, and behind     *)
(* those that have.                                                        *)
LEMMA StartInv ==
    ASSUME AuditInv, TypeOK', NEW r \in Records, Start(r)
    PROVE  AuditInv'
<1> USE DEF AuditInv, TypeOK
<1>1. /\ task[r] = "ready" /\ job[r] = "none"
      /\ \A x \in Records \ {r} : task[x] = "ready" => ticket[r] < ticket[x]
      /\ UNCHANGED <<trail, ticket, tickets, file>>
  BY DEF Start, IsFirst, JobInv
<1>2. CASE /\ task' = [task EXCEPT ![r] = "failed"]
           /\ UNCHANGED <<job, locked>>
  <2>1. \A t \in Trails : Waiters(t)' = Waiters(t)
    BY <1>1, <1>2 DEF Waiters
  <2>2. LockMatchesTasks'
    BY <1>1, <1>2, <2>1 DEF LockMatchesTasks, IsFirst, Waiters
  <2>3. JobInv' /\ TurnInv' /\ TicketInv'
    BY <1>1, <1>2 DEF JobInv, TurnInv, TicketInv, InLine, Pending
  <2>4. FileInv' /\ InHandOverOrder'
    BY <1>1, <1>2 DEF FileInv, InHandOverOrder
  <2> QED
    BY <2>2, <2>3, <2>4
<1>3. CASE /\ task' = [task EXCEPT ![r] = "writing"]
           /\ Free(trail[r])
           /\ locked' = [locked EXCEPT ![trail[r]] = TRUE]
           /\ job' = [job EXCEPT ![r] = "submitted"]
  <2>1. \A t \in Trails : Waiters(t)' = Waiters(t)
    BY <1>1, <1>3 DEF Waiters
  <2>2. LockMatchesTasks'
    BY <1>1, <1>3, <2>1 DEF LockMatchesTasks, IsFirst, Waiters, Free
  <2>3. JobInv' /\ TicketInv'
    BY <1>1, <1>3 DEF JobInv, TicketInv, InLine, Pending
  <2>4. TurnInv'
    BY <1>1, <1>3 DEF TurnInv, InLine, Pending, Free, Waiters
  <2>5. FileInv' /\ InHandOverOrder'
    BY <1>1, <1>3 DEF FileInv, InHandOverOrder
  <2> QED
    BY <2>2, <2>3, <2>4, <2>5
<1>4. CASE /\ task' = [task EXCEPT ![r] = "waiting"]
           /\ ~Free(trail[r])
           /\ UNCHANGED <<job, locked>>
  <2>1. \A t \in Trails :
           Waiters(t)' = IF t = trail[r] THEN Waiters(t) \cup {r} ELSE Waiters(t)
    BY <1>1, <1>4 DEF Waiters
  <2>2. \A x \in Waiters(trail[r]) : ticket[x] < ticket[r]
    BY <1>1 DEF TurnInv, Waiters, InLine
  <2>3. LockMatchesTasks'
    <3>1. \A t \in Trails : locked'[t] <=> \E x \in Records : trail'[x] = t /\ task'[x] = "writing"
      BY <1>1, <1>4 DEF LockMatchesTasks
    <3>2. \A t \in Trails : \A x, y \in Records :
             trail'[x] = t /\ task'[x] = "writing" /\ trail'[y] = t /\ task'[y] = "writing" => x = y
      BY <1>1, <1>4 DEF LockMatchesTasks
    <3>3. ASSUME NEW t \in Trails, NEW x \in Waiters(t)'
          PROVE  task'[x] = "woken" <=> ~locked'[t] /\ IsFirst(x, Waiters(t))'
      <4>1. CASE t # trail[r]
        BY <1>1, <1>4, <2>1, <3>3, <4>1 DEF LockMatchesTasks, IsFirst, Waiters
      <4>2. CASE t = trail[r] /\ x # r
        BY <1>1, <1>4, <2>1, <2>2, <3>3, <4>2 DEF LockMatchesTasks, IsFirst, Waiters
      <4>3. CASE t = trail[r] /\ x = r
        <5>1. locked'[t] \/ Waiters(t) # {}
          BY <1>4, <4>3 DEF Free
        <5>2. \A y \in Waiters(t) : y \in Waiters(t)' /\ y # r /\ ~(ticket'[r] < ticket'[y])
          BY <1>1, <2>1, <2>2, <4>3 DEF Waiters
        <5>3. ~locked'[t] => ~IsFirst(r, Waiters(t))'
          BY <5>1, <5>2 DEF IsFirst
        <5> QED
          BY <1>4, <4>3, <5>3
      <4> QED
        BY <4>1, <4>2, <4>3
    <3> QED
      BY <3>1, <3>2, <3>3 DEF LockMatchesTasks
  <2>4. JobInv' /\ TicketInv'
    BY <1>1, <1>4 DEF JobInv, TicketInv, InLine, Pending
  <2>5. TurnInv'
    BY <1>1, <1>4 DEF TurnInv, InLine, Pending
  <2>6. FileInv' /\ InHandOverOrder'
    BY <1>1, <1>4 DEF FileInv, InHandOverOrder
  <2> QED
    BY <2>3, <2>4, <2>5, <2>6
<1>5. PICK ok \in BOOLEAN :
         /\ task' = [task EXCEPT ![r] = IF ~ok THEN "failed"
                                        ELSE IF Free(trail[r]) THEN "writing"
                                        ELSE Queues(trail[r])]
         /\ locked' = [locked EXCEPT ![trail[r]] = @ \/ (ok /\ Free(trail[r]))]
         /\ job' = [job EXCEPT ![r] = IF ok /\ Free(trail[r]) THEN "submitted" ELSE @]
  BY DEF Start
<1>6. CASE ~ok
  BY <1>2, <1>5, <1>6
<1>7. CASE ok /\ Free(trail[r])
  BY <1>3, <1>5, <1>7
<1>8. CASE ok /\ ~Free(trail[r])
  <2>1. UNCHANGED <<job, locked>>
    BY <1>5, <1>8
  <2>2. \/ task' = [task EXCEPT ![r] = "failed"]
        \/ task' = [task EXCEPT ![r] = "waiting"]
    BY <1>5, <1>8 DEF Queues
  <2> QED
    BY <1>2, <1>4, <1>8, <2>1, <2>2
<1> QED
  BY <1>6, <1>7, <1>8

(* A woken task was the first of its queue.                                *)
LEMMA ResumeInv ==
    ASSUME AuditInv, TypeOK', NEW r \in Records, Resume(r)
    PROVE  AuditInv'
<1> USE DEF AuditInv, TypeOK, Resume
<1>1. job[r] = "none"
  BY DEF JobInv, InLine
<1>2. r \in Waiters(trail[r]) /\ ~locked[trail[r]] /\ IsFirst(r, Waiters(trail[r]))
  BY DEF LockMatchesTasks, Waiters
<1>3. \A t \in Trails : Waiters(t)' = Waiters(t) \ {r}
  BY DEF Waiters
<1>4. LockMatchesTasks'
  BY <1>2, <1>3 DEF LockMatchesTasks, IsFirst, Waiters
<1>5. JobInv' /\ TicketInv'
  BY <1>1 DEF JobInv, TicketInv, InLine
<1>6. TurnInv'
  BY <1>2 DEF TurnInv, InLine, Pending, IsFirst, Waiters
<1>7. FileInv' /\ InHandOverOrder'
  BY <1>1 DEF FileInv, InHandOverOrder
<1> QED
  BY <1>4, <1>5, <1>6, <1>7

(* A thread that takes a write, or fails, moves no task.                   *)
LEMMA JobMoveInv ==
    ASSUME AuditInv, TypeOK', NEW r \in Records, Pick(r) \/ WriteFails(r)
    PROVE  AuditInv'
<1> USE DEF AuditInv, TypeOK, Pick, WriteFails
<1>1. LockMatchesTasks' /\ TicketInv' /\ TurnInv'
  BY DEF LockMatchesTasks, TicketInv, TurnInv, Waiters, IsFirst
<1>2. JobInv'
  BY DEF JobInv, InLine
<1>3. FileInv' /\ InHandOverOrder'
  BY DEF FileInv, InHandOverOrder
<1> QED
  BY <1>1, <1>2, <1>3

(* Of two positions the smaller one is not the new last one.               *)
LEMMA NotTheLast ==
    ASSUME NEW L \in Nat, NEW m, NEW n, m \in 1 .. L \/ m = L + 1, n \in 1 .. L \/ n = L + 1, m < n
    PROVE  m \in 1 .. L
OBVIOUS

(* The line of the writer is behind those of all that are done, and no     *)
(* other task of the trail writes.                                         *)
LEMMA WriteInv ==
    ASSUME AuditInv, TypeOK', NEW r \in Records, Write(r)
    PROVE  AuditInv'
<1> USE DEF AuditInv, TypeOK
<1> DEFINE F == PathOf[trail[r]]
<1>0. F \in Files
  BY AuditAssumption
<1>1. /\ job[r] = "running" /\ job' = [job EXCEPT ![r] = "written"]
      /\ file' = [file EXCEPT ![F] = Append(file[F], r)]
      /\ UNCHANGED <<trail, ticket, tickets, task, locked>>
  BY DEF Write, Appended
<1>2. LockMatchesTasks' /\ TicketInv' /\ TurnInv'
  BY <1>1 DEF LockMatchesTasks, TicketInv, TurnInv, Waiters, IsFirst
<1>3. JobInv'
  BY <1>1 DEF JobInv, InLine
<1>4. /\ \A f \in Files \ {F} : file'[f] = file[f]
      /\ DOMAIN file'[F] = DOMAIN file[F] \cup {Len(file[F]) + 1}
      /\ \A n \in DOMAIN file[F] : file'[F][n] = file[F][n] /\ n <= Len(file[F])
      /\ file'[F][Len(file[F]) + 1] = r
      /\ DOMAIN file[F] = 1 .. Len(file[F]) /\ Len(file[F]) \in Nat
  BY <1>0, <1>1
<1>5. FileInv'
  BY <1>0, <1>1, <1>4 DEF FileInv
<1>6. ASSUME NEW n \in DOMAIN file[F], trail[file[F][n]] = trail[r],
             task[file[F][n]] # "cancelled", task[r] # "cancelled"
      PROVE  ticket[file[F][n]] < ticket[r]
  <2> DEFINE x == file[F][n]
  <2>1. x \in Records /\ trail[x] = trail[r] /\ job[x] = "written" /\ x # r
    BY <1>0, <1>1, <1>6 DEF FileInv
  <2>2. task[r] = "writing"
    BY <1>1, <1>6, WritersTask
  <2>3. task[x] = "done"
    BY <1>6, <2>1, <2>2, WritersTask, OneWriter
  <2> QED
    BY <2>1, <2>2, <2>3 DEF TurnInv, Pending
<1>7. InHandOverOrder'
  <2> SUFFICES ASSUME NEW f \in Files, NEW m \in DOMAIN file'[f], NEW n \in DOMAIN file'[f],
                      m < n, trail'[file'[f][m]] = trail'[file'[f][n]],
                      "cancelled" \notin {task'[file'[f][m]], task'[file'[f][n]]}
               PROVE  ticket'[file'[f][m]] < ticket'[file'[f][n]]
    BY DEF InHandOverOrder
  <2>0. /\ trail[file'[f][m]] = trail[file'[f][n]]
        /\ task[file'[f][m]] # "cancelled" /\ task[file'[f][n]] # "cancelled"
        /\ ticket' = ticket
    BY <1>1
  <2>1. CASE f # F
    BY <1>4, <2>0, <2>1 DEF InHandOverOrder
  <2>4. ASSUME f = F PROVE m \in DOMAIN file[F]
    <3>1. \A k \in DOMAIN file'[f] : k \in 1 .. Len(file[F]) \/ k = Len(file[F]) + 1
      BY <1>4, <2>4
    <3>2. Len(file[F]) \in Nat /\ DOMAIN file[F] = 1 .. Len(file[F])
      BY <1>4
    <3>3. /\ m \in 1 .. Len(file[F]) \/ m = Len(file[F]) + 1
          /\ n \in 1 .. Len(file[F]) \/ n = Len(file[F]) + 1
      BY <3>1
    <3>4. m \in 1 .. Len(file[F])
      BY <3>2, <3>3, NotTheLast
    <3> QED
      BY <3>2, <3>4
  <2>2. CASE f = F /\ n \in DOMAIN file[F]
    <3>1. file'[f][m] = file[F][m] /\ file'[f][n] = file[F][n] /\ m \in DOMAIN file[F]
      BY <1>4, <2>2, <2>4
    <3> QED
      BY <1>0, <2>0, <2>2, <3>1 DEF InHandOverOrder
  <2>3. CASE f = F /\ n = Len(file[F]) + 1
    BY <1>4, <1>6, <2>0, <2>3, <2>4
  <2> QED
    BY <1>4, <2>1, <2>2, <2>3
<1> QED
  BY <1>2, <1>3, <1>5, <1>7

(* Whoever leaves the lock, the first of the queue is told exactly when    *)
(* the lock is free.                                                       *)
LEMMA LeaveInv ==
    ASSUME AuditInv, TypeOK', NEW r \in Records, NEW end \in {"done", "cancelled"},
           Leave(r, end), task[r] \in InLine \cup {"writing"},
           end = "done" => task[r] = "writing" /\ job[r] \in {"written", "oserror"},
           job' = [job EXCEPT ![r] = Revoked(r)],
           UNCHANGED <<trail, ticket, tickets, file>>
    PROVE  AuditInv'
<1> USE DEF AuditInv, TypeOK
<1> DEFINE T == trail[r]
           free == task[r] = "writing" \/ ~locked[T]
<1>1. /\ task'[r] = end
      /\ locked' = [locked EXCEPT ![T] = ~free]
      /\ \A x \in Records \ {r} :
            task'[x] = IF free /\ IsFirst(x, Waiters(T) \ {r}) THEN "woken" ELSE task[x]
  BY DEF Leave
<1>2. \A x \in Records \ {r} :
         \/ task'[x] = task[x]
         \/ trail[x] = T /\ task[x] \in InLine /\ task'[x] = "woken"
  BY <1>1 DEF IsFirst, Waiters, InLine
<1>3. \A t \in Trails : Waiters(t)' = Waiters(t) \ {r}
  BY <1>1, <1>2 DEF Waiters, InLine
<1>4. \A x \in Records : task'[x] = "writing" <=> task[x] = "writing" /\ x # r
  BY <1>1, <1>2 DEF InLine
<1>5. LockMatchesTasks'
  <2>1. ASSUME NEW t \in Trails
        PROVE  locked'[t] <=> \E x \in Records : trail'[x] = t /\ task'[x] = "writing"
    <3>1. CASE t # T
      BY <1>1, <1>4, <3>1 DEF LockMatchesTasks
    <3>2. CASE t = T /\ task[r] = "writing"
      BY <1>1, <1>4, <3>2, OneWriter
    <3>3. CASE t = T /\ task[r] # "writing"
      BY <1>1, <1>4, <3>3 DEF LockMatchesTasks
    <3> QED
      BY <3>1, <3>2, <3>3
  <2>2. \A t \in Trails : \A x, y \in Records :
           trail'[x] = t /\ task'[x] = "writing" /\ trail'[y] = t /\ task'[y] = "writing" => x = y
    BY <1>4 DEF LockMatchesTasks
  <2>3. ASSUME NEW t \in Trails, NEW x \in Waiters(t)'
        PROVE  task'[x] = "woken" <=> ~locked'[t] /\ IsFirst(x, Waiters(t))'
    <3>1. x # r /\ x \in Waiters(t) /\ x \in Records /\ trail[x] = t
      BY <1>3, <2>3 DEF Waiters
    <3>2. IsFirst(x, Waiters(t))' <=> IsFirst(x, Waiters(t) \ {r})
      BY <1>3 DEF IsFirst
    <3>3. task[x] = "woken" <=> ~locked[t] /\ IsFirst(x, Waiters(t))
      BY <3>1 DEF LockMatchesTasks
    <3>4. CASE t # T
      BY <1>1, <1>2, <3>1, <3>2, <3>3, <3>4 DEF IsFirst, Waiters
    <3>5. CASE t = T /\ free
      <4>1. task[x] = "woken" => IsFirst(x, Waiters(T) \ {r})
        BY <3>1, <3>3, <3>5 DEF IsFirst
      <4>2. task'[x] = "woken" <=> IsFirst(x, Waiters(T) \ {r})
        BY <1>1, <3>1, <3>5, <4>1
      <4>3. ~locked'[t]
        BY <1>1, <3>5
      <4> QED
        BY <3>2, <3>5, <4>2, <4>3
    <3>6. CASE t = T /\ ~free
      BY <1>1, <3>1, <3>2, <3>3, <3>6
    <3> QED
      BY <3>4, <3>5, <3>6
  <2> QED
    BY <2>1, <2>2, <2>3 DEF LockMatchesTasks
<1>6. JobInv'
  BY <1>1, <1>2 DEF JobInv, InLine, Revoked
<1>7. TurnInv'
  <2>1. \A x \in Records :
           /\ task'[x] = "ready" => task[x] = "ready"
           /\ task'[x] \in InLine => task[x] \in InLine
           /\ task'[x] \in Pending => task[x] \in Pending /\ x # r
           /\ task'[x] = "done" => task[x] = "done" \/ (x = r /\ task[r] = "writing")
    BY <1>1, <1>2 DEF InLine, Pending
  <2>2. \A x \in Records : task[x] \in Pending \ (InLine \cup {"ready"}) => task[x] = "writing"
    BY DEF InLine, Pending
  <2> SUFFICES ASSUME NEW x \in Records, NEW y \in Records PROVE
        /\ task'[x] \in InLine \cup {"writing"} /\ task'[y] = "ready" => ticket[x] < ticket[y]
        /\ trail[x] = trail[y] /\ task'[x] = "writing" /\ task'[y] \in InLine
              => ticket[x] < ticket[y]
        /\ trail[x] = trail[y] /\ task'[x] = "done" /\ task'[y] \in Pending
              => ticket[x] < ticket[y]
    BY DEF TurnInv
  <2>3. trail[r] = trail[y] /\ task[r] = "writing" /\ task'[y] \in Pending => ticket[r] < ticket[y]
    BY <2>1, <2>2, OneWriter DEF TurnInv
  <2> QED
    BY <1>4, <2>1, <2>3 DEF TurnInv
<1>8. TicketInv'
  BY DEF TicketInv
<1>9. FileInv'
  BY DEF FileInv, Revoked
<1>10. InHandOverOrder'
  <2>1. \A x \in Records : task'[x] # "cancelled" /\ job[x] = "written" => task[x] # "cancelled"
    BY <1>1, <1>2 DEF InLine
  <2> QED
    BY <2>1 DEF InHandOverOrder, FileInv
<1> QED
  BY <1>5, <1>6, <1>7, <1>8, <1>9, <1>10

(* The writer has ended and leaves the lock to the queue.                  *)
LEMMA FinishInv ==
    ASSUME AuditInv, TypeOK', NEW r \in Records, Finish(r)
    PROVE  AuditInv'
<1>1. job' = [job EXCEPT ![r] = Revoked(r)]
  BY DEF Finish, Revoked, AuditInv, TypeOK
<1> QED
  BY <1>1, LeaveInv DEF Finish

(* A cancelled task leaves the lock or the queue, or never starts.         *)
LEMMA CancelInv ==
    ASSUME AuditInv, TypeOK', NEW r \in Records, Cancel(r)
    PROVE  AuditInv'
<1>1. CASE task[r] # "ready"
  BY <1>1, LeaveInv DEF Cancel, Pending, InLine
<1>2. CASE task[r] = "ready"
  <2> USE DEF AuditInv, TypeOK
  <2>1. /\ task' = [task EXCEPT ![r] = "cancelled"] /\ job[r] = "none" /\ job' = job
        /\ UNCHANGED <<trail, ticket, tickets, file, locked>>
    BY <1>2 DEF Cancel, JobInv, Revoked
  <2>2. \A t \in Trails : Waiters(t)' = Waiters(t)
    BY <1>2, <2>1 DEF Waiters
  <2>3. LockMatchesTasks'
    BY <1>2, <2>1, <2>2 DEF LockMatchesTasks, IsFirst, Waiters
  <2>4. JobInv' /\ TurnInv' /\ TicketInv'
    BY <1>2, <2>1 DEF JobInv, TurnInv, TicketInv, InLine, Pending
  <2>5. FileInv' /\ InHandOverOrder'
    BY <1>2, <2>1 DEF FileInv, InHandOverOrder
  <2> QED
    BY <2>3, <2>4, <2>5
<1> QED
  BY <1>1, <1>2

(* A shutdown empties every queue.                                         *)
LEMMA ShutdownInv ==
    ASSUME AuditInv, TypeOK', Shutdown
    PROVE  AuditInv'
<1> USE DEF AuditInv, TypeOK, Shutdown
<1>1. \A r \in Records : task'[r] \notin Pending
  BY DEF Pending
<1>2. \A t \in Trails : Waiters(t)' = {}
  BY <1>1 DEF Waiters, Pending
<1>3. LockMatchesTasks'
  BY <1>1, <1>2 DEF LockMatchesTasks, Pending
<1>4. JobInv'
  BY DEF JobInv, InLine, Pending, Revoked
<1>5. TurnInv' /\ TicketInv'
  BY <1>1 DEF TurnInv, TicketInv, Pending, InLine
<1>6. FileInv' /\ InHandOverOrder'
  BY DEF FileInv, InHandOverOrder, Revoked
<1> QED
  BY <1>3, <1>4, <1>5, <1>6

(* The invariant is inductive.                                             *)
LEMMA AuditNext == AuditInv /\ [Next]_vars => AuditInv'
<1> SUFFICES ASSUME AuditInv, [Next]_vars PROVE AuditInv'
  OBVIOUS
<1>1. TypeOK'
  BY TypeStep DEF AuditInv
<1>2. ASSUME NEW r \in Records, RecordStep(r) PROVE AuditInv'
  BY <1>1, <1>2, HandOverInv, StartInv, ResumeInv, JobMoveInv, WriteInv, FinishInv, CancelInv
     DEF RecordStep
<1>3. CASE Shutdown
  BY <1>1, <1>3, ShutdownInv
<1>4. CASE UNCHANGED <<trail, ticket, tickets, task, job, locked, file>>
  BY <1>1, <1>4 DEF AuditInv, JobInv, TicketInv, TurnInv, LockMatchesTasks, FileInv,
                    InHandOverOrder, Waiters, IsFirst
<1> QED
  BY <1>2, <1>3, <1>4 DEF Next, SetDefault, Restart, vars

(* Every reachable state satisfies the inductive invariant.                *)
THEOREM AuditInvariance == Spec => []AuditInv
<1>1. Init => AuditInv
  <2> SUFFICES ASSUME Init PROVE AuditInv
    OBVIOUS
  <2>1. TypeOK
    BY DEF Init, TypeOK, Tasks, Jobs, Pending
  <2> QED
    BY <2>1 DEF Init, AuditInv, JobInv, TicketInv, TurnInv, LockMatchesTasks, FileInv,
                InHandOverOrder, Waiters, IsFirst, InLine, Pending
<1> QED
  BY <1>1, AuditNext, PTL DEF Spec

(* The lock is taken exactly while one task writes, and a free lock has    *)
(* told its first waiter and no other.                                     *)
THEOREM LockTheorem == Spec => []LockMatchesTasks
BY AuditInvariance, PTL DEF AuditInv

(* The lines one trail wrote for entries that were not cancelled stand in  *)
(* its file in the order of their hand-over.                               *)
THEOREM OrderTheorem == Spec => []InHandOverOrder
BY AuditInvariance, PTL DEF AuditInv

(* Two threads write for one trail only when one of the tasks was cancelled. *)
THEOREM OverlapTheorem == Spec => []OverlapOnlyAfterCancel
<1>1. AuditInv => OverlapOnlyAfterCancel
  BY WritersTask, OneWriter DEF OverlapOnlyAfterCancel
<1> QED
  BY <1>1, AuditInvariance, PTL

-----------------------------------------------------------------------------
(* The trails implement the abstract log.                                  *)

fates == [r \in Records |-> Fate(r)]

(* The fate of an entry follows from its task and its write.               *)
FateFits(r) ==
    /\ Fate(r) = "none" <=> task[r] = "none"
    /\ Fate(r) = "kept" <=> job[r] = "written"
    /\ Fate(r) = "lost" <=> Lost(r)
    /\ Fate(r) \in {"none", "open", "kept", "lost"}

LEMMA FatesFit ==
    ASSUME AuditInv, AuditInv', NEW r \in Records
    PROVE  FateFits(r) /\ FateFits(r)'
<1>1. FateFits(r)
  BY DEF FateFits, Fate, Lost, AuditInv, TypeOK, JobInv, InLine, Tasks, Pending, Jobs
<1>2. FateFits(r)'
  BY DEF FateFits, Fate, Lost, AuditInv, TypeOK, JobInv, InLine, Tasks, Pending, Jobs
<1> QED
  BY <1>1, <1>2

(* An entry whose write has not moved and that was neither handed over nor *)
(* given up keeps its fate.                                                *)
LEMMA SameFate ==
    ASSUME AuditInv, AuditInv', NEW r \in Records, job'[r] = job[r],
           \/ task'[r] = task[r]
           \/ task[r] \in Pending /\ task'[r] \in Pending
           \/ job[r] # "none"
    PROVE  Fate(r)' = Fate(r)
<1>1. FateFits(r) /\ FateFits(r)'
  BY FatesFit
<1>2. (task'[r] = "none") <=> (task[r] = "none")
  BY DEF AuditInv, JobInv, Pending
<1>3. job[r] = "none" =>
         (task'[r] \in {"failed", "cancelled"} <=> task[r] \in {"failed", "cancelled"})
  BY DEF Pending
<1> QED
  BY <1>1, <1>2, <1>3 DEF Lost, FateFits

(* Nothing is settled and no line is written by a step that changes no     *)
(* fate.                                                                   *)
LEMMA LogStutters ==
    ASSUME AuditInv, AuditInv', UNCHANGED file, \A r \in Records : Fate(r)' = Fate(r)
    PROVE  UNCHANGED <<fates, file>>
BY DEF fates

(* A step that loses the open entries of a set and does nothing else.      *)
LEMMA LogLoses ==
    ASSUME AuditInv, AuditInv', NEW S \in SUBSET Records, UNCHANGED file,
           \A r \in Records \ S : Fate(r)' = Fate(r),
           \A r \in S : Fate(r) = "open" /\ Fate(r)' = "lost"
    PROVE  Log!Lose(S)
BY DEF Log!Lose, fates

(* Every step of the trails hands over, keeps or loses entries of the log, *)
(* or leaves it alone.                                                     *)
LEMMA LogStep ==
    ASSUME AuditInv, AuditInv', [Next]_vars
    PROVE  [Log!Next]_<<fates, file>>
<1> USE DEF AuditInv, TypeOK
<1>1. ASSUME NEW r \in Records, HandOver(r) PROVE Log!HandOver(r)
  <2>1. Fate(r) = "none" /\ Fate(r)' = "open"
    BY <1>1 DEF HandOver, Fate, Lost, JobInv, InLine
  <2>2. \A x \in Records \ {r} : Fate(x)' = Fate(x)
    BY <1>1, SameFate DEF HandOver
  <2> QED
    BY <1>1, <2>1, <2>2 DEF HandOver, Log!HandOver
<1>2. ASSUME NEW r \in Records, Start(r), task'[r] # "failed"
      PROVE  UNCHANGED <<fates, file>>
  <2>1. /\ task[r] = "ready" /\ task'[r] \in {"writing", "waiting"} /\ job[r] = "none"
        /\ job'[r] \in {"none", "submitted"}
        /\ \A x \in Records \ {r} : task'[x] = task[x] /\ job'[x] = job[x]
        /\ UNCHANGED file
    BY <1>2 DEF Start, Queues, IsFirst, JobInv
  <2>2. Fate(r) = "open" /\ Fate(r)' = "open"
    BY <2>1 DEF Lost, Fate
  <2> QED
    BY <2>1, <2>2, SameFate, LogStutters
<1>3. ASSUME NEW r \in Records, Start(r), task'[r] = "failed"
      PROVE  Log!Lose({r})
  <2>1. /\ task[r] = "ready" /\ job[r] = "none" /\ job'[r] = "none"
        /\ \A x \in Records \ {r} : task'[x] = task[x] /\ job'[x] = job[x]
        /\ UNCHANGED file
    BY <1>3 DEF Start, Queues, IsFirst, JobInv
  <2>2. Fate(r) = "open" /\ Fate(r)' = "lost"
    BY <1>3, <2>1 DEF Lost, Fate
  <2> QED
    BY <2>1, <2>2, SameFate, LogLoses
<1>4. ASSUME NEW r \in Records, Resume(r) PROVE UNCHANGED <<fates, file>>
  <2>1. Fate(r) = "open" /\ Fate(r)' = "open"
    BY <1>4 DEF Resume, Fate, Lost, JobInv, InLine
  <2>2. \A x \in Records \ {r} : Fate(x)' = Fate(x)
    BY <1>4, SameFate DEF Resume
  <2> QED
    BY <1>4, <2>1, <2>2, LogStutters DEF Resume
<1>5. ASSUME NEW r \in Records, Pick(r) PROVE UNCHANGED <<fates, file>>
  <2>1. Fate(r) = "open" /\ Fate(r)' = "open"
    <3>1. /\ job[r] = "submitted" /\ job'[r] = "running" /\ task'[r] = task[r]
          /\ task[r] \in {"writing", "done", "cancelled"}
      BY <1>5 DEF Pick, JobInv, InLine, Tasks, Pending
    <3> QED
      BY <3>1 DEF Fate, Lost
  <2>2. \A x \in Records \ {r} : Fate(x)' = Fate(x)
    BY <1>5, SameFate DEF Pick
  <2> QED
    BY <1>5, <2>1, <2>2, LogStutters DEF Pick
<1>6. ASSUME NEW r \in Records, Write(r) PROVE Log!Keep(r, PathOf[trail[r]])
  <2>1. Fate(r) = "open" /\ Fate(r)' = "kept"
    <3>1. /\ job[r] = "running" /\ job'[r] = "written" /\ task'[r] = task[r]
          /\ task[r] \in {"writing", "done", "cancelled"}
      BY <1>6 DEF Write, JobInv, InLine, Tasks, Pending
    <3> QED
      BY <3>1 DEF Fate, Lost
  <2>2. \A x \in Records \ {r} : Fate(x)' = Fate(x)
    BY <1>6, SameFate DEF Write
  <2> QED
    BY <1>6, <2>1, <2>2 DEF Write, Appended, Log!Keep
<1>7. ASSUME NEW r \in Records, WriteFails(r) PROVE Log!Lose({r})
  <2>1. Fate(r) = "open" /\ Fate(r)' = "lost"
    <3>1. /\ job[r] = "running" /\ job'[r] = "oserror" /\ task'[r] = task[r]
          /\ task[r] \in {"writing", "done", "cancelled"}
      BY <1>7 DEF WriteFails, JobInv, InLine, Tasks, Pending
    <3> QED
      BY <3>1 DEF Fate, Lost
  <2>2. \A x \in Records \ {r} : Fate(x)' = Fate(x)
    BY <1>7, SameFate DEF WriteFails
  <2> QED
    BY <1>7, <2>1, <2>2, LogLoses DEF WriteFails
<1>8. ASSUME NEW r \in Records, Finish(r) PROVE UNCHANGED <<fates, file>>
  <2>1. \A x \in Records : Fate(x)' = Fate(x)
    BY <1>8, SameFate DEF Finish, Leave, IsFirst, Waiters, Pending
  <2> QED
    BY <1>8, <2>1, LogStutters DEF Finish
<1>9. ASSUME NEW r \in Records, Cancel(r)
      PROVE  Log!Lose({r}) \/ UNCHANGED <<fates, file>>
  <2>1. /\ task[r] \in Pending /\ task'[r] = "cancelled" /\ job' = [job EXCEPT ![r] = Revoked(r)]
        /\ UNCHANGED file
    BY <1>9 DEF Cancel, Leave
  <2>2. \A x \in Records \ {r} :
           task'[x] = task[x] \/ (task[x] \in Pending /\ task'[x] \in Pending)
    BY <1>9 DEF Cancel, Leave, IsFirst, Waiters, Pending
  <2>3. \A x \in Records \ {r} : Fate(x)' = Fate(x)
    BY <2>1, <2>2, SameFate
  <2>4. CASE job[r] \in {"none", "submitted"}
    <3>1. Fate(r) = "open" /\ Fate(r)' = "lost"
      BY <2>1, <2>4, FatesFit DEF Lost, FateFits, Revoked, Pending
    <3> QED
      BY <2>1, <2>3, <3>1, LogLoses
  <2>5. CASE job[r] \notin {"none", "submitted"}
    <3>1. Fate(r)' = Fate(r)
      BY <2>1, <2>5, SameFate DEF Revoked
    <3> QED
      BY <2>1, <2>3, <3>1, LogStutters
  <2> QED
    BY <2>4, <2>5
<1>10. ASSUME Shutdown PROVE \E S \in SUBSET Records : Log!Lose(S)
  <2> DEFINE S == {r \in Records : task[r] \in Pending /\ job[r] \in {"none", "submitted"}}
  <2>1. ASSUME NEW r \in S PROVE Fate(r) = "open" /\ Fate(r)' = "lost"
    BY <1>10, FatesFit DEF Lost, FateFits, Shutdown, Revoked, Pending
  <2>2. ASSUME NEW r \in Records \ S PROVE Fate(r)' = Fate(r)
    <3>1. job'[r] = job[r]
      BY <1>10, <2>2 DEF Shutdown, Revoked, JobInv, Pending, Tasks, InLine
    <3>2. task'[r] = task[r] \/ job[r] # "none"
      BY <1>10, <2>2 DEF Shutdown
    <3> QED
      BY <3>1, <3>2, SameFate
  <2> QED
    BY <1>10, <2>1, <2>2, LogLoses DEF Shutdown
<1>11. ASSUME UNCHANGED <<task, job, file>> PROVE UNCHANGED <<fates, file>>
  BY <1>11 DEF fates, Fate, Lost
<1>12. ASSUME NEW r \in Records, RecordStep(r)
       PROVE  Log!Next \/ UNCHANGED <<fates, file>>
  <2>1. PathOf[trail[r]] \in Files /\ {r} \in SUBSET Records
    BY AuditAssumption
  <2>2. CASE HandOver(r)
    BY <1>1, <2>2 DEF Log!Next
  <2>3. CASE Write(r)
    BY <1>6, <2>1, <2>3 DEF Log!Next
  <2>4. CASE (Start(r) /\ task'[r] = "failed") \/ WriteFails(r)
    BY <1>3, <1>7, <2>1, <2>4 DEF Log!Next
  <2>5. CASE Cancel(r)
    BY <1>9, <2>1, <2>5 DEF Log!Next
  <2>6. CASE \/ Start(r) /\ task'[r] # "failed"
             \/ Resume(r) \/ Pick(r) \/ Finish(r)
    BY <1>2, <1>4, <1>5, <1>8, <2>6
  <2> QED
    BY <1>12, <2>2, <2>3, <2>4, <2>5, <2>6 DEF RecordStep
<1> QED
  BY <1>10, <1>11, <1>12 DEF Next, SetDefault, Restart, vars, Log!Next

(* Every entry handed over is settled at most once, as a line at the end   *)
(* of its file or as a loss, and no line is ever changed.                  *)
THEOREM Refinement == Spec => ImplementsLog
<1>1. Init => Log!Init
  BY DEF Init, Log!Init, Fate, Lost
<1>2. AuditInv /\ AuditInv' /\ [Next]_vars => [Log!Next]_(Log!logVars)
  BY LogStep DEF Log!logVars, fates
<1> QED
  BY <1>1, <1>2, AuditInvariance, PTL DEF Spec, ImplementsLog, Log!Spec
=============================================================================
