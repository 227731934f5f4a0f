------------------------- MODULE JobExecutionProofs -------------------------
(***************************************************************************)
(* Machine-checked proofs about JobExecution for every number of outputs   *)
(* and tasks, however outputs share them.                                  *)
(***************************************************************************)
EXTENDS JobExecution, FiniteSetTheorems, NaturalsInduction, TLAPS

LEMMA FirstOf ==
    ASSUME NEW S, S \subseteq Nat, S # {}
    PROVE  First(S) \in S
  <1> DEFINE R == OpToRel(<, Nat)
  <1>1. IsWellFoundedOn(R, Nat)
    BY NatLessThanWellFounded
  <1>2. PICK s \in S : \A r \in S : <<r, s>> \notin R
    <2> HIDE DEF R
    <2> QED  BY <1>1, WFMin
  <1>3. \A r \in S : s <= r
    <2> SUFFICES ASSUME NEW r \in S PROVE ~ (r < s)
      OBVIOUS
    <2>1. r \in Nat /\ s \in Nat /\ <<r, s>> \notin R
      BY <1>2
    <2>2. QED
      BY <2>1 DEF OpToRel
  <1>4. QED
    BY <1>3 DEF First

\* The outputs of O that need t.
Users(O, t) == {o \in O : t \in Needs[o]}

LEMMA UsersFinite ==
    ASSUME NEW O, O \subseteq Outputs, NEW t
    PROVE  IsFiniteSet(Users(O, t)) /\ Demand(O, t) \in Nat /\ Demand(O, t) = Cardinality(Users(O, t))
  BY ExecutionAssumption, FS_Subset, FS_CardinalityType DEF ExecutionAssumption, Users, Demand

LEMMA NoDemand ==
    ASSUME NEW O, O \subseteq Outputs, NEW t
    PROVE  Demand(O, t) = 0 <=> \A o \in O : t \notin Needs[o]
  <1>1. Cardinality(Users(O, t)) = 0 <=> Users(O, t) = {}
    BY UsersFinite, FS_EmptySet
  <1>2. QED
    BY <1>1, UsersFinite DEF Users

\* One output less: the demand of its tasks falls by one, that of the others stays.
LEMMA DemandFalls ==
    ASSUME NEW O, O \subseteq Outputs, NEW o \in O, NEW t
    PROVE  Demand(O \ {o}, t) = IF t \in Needs[o] THEN Demand(O, t) - 1 ELSE Demand(O, t)
  <1>1. CASE t \in Needs[o]
    <2>1. Users(O \ {o}, t) = Users(O, t) \ {o} /\ o \in Users(O, t)
      BY <1>1 DEF Users
    <2>2. Cardinality(Users(O, t) \ {o}) = Cardinality(Users(O, t)) - 1
      BY <2>1, UsersFinite, FS_RemoveElement
    <2>3. O \ {o} \subseteq Outputs
      OBVIOUS
    <2>4. QED
      BY <1>1, <2>1, <2>2, <2>3, UsersFinite
  <1>2. CASE t \notin Needs[o]
    <2>1. Users(O \ {o}, t) = Users(O, t)
      BY <1>2 DEF Users
    <2>2. O \ {o} \subseteq Outputs
      OBVIOUS
    <2>3. QED
      BY <1>2, <2>1, <2>2, UsersFinite
  <1>3. QED
    BY <1>1, <1>2

\* A demand of at most one means one output at most.
LEMMA OneUser ==
    ASSUME NEW O, O \subseteq Outputs, NEW t, ~(Demand(O, t) > 1),
           NEW o \in O, NEW p \in O, t \in Needs[o], t \in Needs[p]
    PROVE  o = p
  <1>1. SUFFICES ASSUME o # p PROVE FALSE
    OBVIOUS
  <1>2. /\ Demand(O \ {o}, t) = Demand(O, t) - 1
        /\ Demand(O, t) \in Nat /\ Demand(O \ {o}, t) \in Nat
    BY DemandFalls, UsersFinite
  <1>3. Demand(O \ {o}, t) # 0
    BY <1>1, NoDemand
  <1>4. QED
    BY <1>2, <1>3

-----------------------------------------------------------------------------
\* Only results worth keeping are kept.
ResultsAreShared == results \subseteq shared /\ shared \subseteq Tasks \ Provisional

\* A final task that is not shared has one output still to come at most.
PrivateTasks ==
    \A t \in Tasks \ (Provisional \cup shared) : \A o, p \in ahead :
        (t \in Needs[o] /\ t \in Needs[p]) => o = p

VisitsItsOwn == stage = "tasks" => left \subseteq Needs[cur]

\* A task that was fetched is at hand for every output that needs it, or none does any more; a
\* private one is behind its only output.
Spent(t) ==
    /\ t \in shared => t \in results \/ \A o \in ahead : t \notin Needs[o]
    /\ t \notin shared => \A o \in ahead : t \in Needs[o] =>
           o = cur /\ stage \in {"tasks", "emit", "progress"} /\ (stage = "tasks" => t \notin left)

FetchedAndSpent ==
    \A t \in Tasks \ Provisional : fetches[t] = 0 \/ (fetches[t] = 1 /\ Spent(t))

ExecInv ==
    /\ ExecTypeOK /\ PendingIsDemand /\ ResultsAreShared /\ PrivateTasks
    /\ VisitsItsOwn /\ FetchedAndSpent /\ HeldWhileNeeded

LEMMA InitExec == ExecInit => ExecInv
  <1> SUFFICES ASSUME ExecInit PROVE ExecInv
    OBVIOUS
  <1> USE ExecutionAssumption DEF ExecutionAssumption
  <1>1. PICK Reused \in SUBSET Outputs :
           /\ ahead = Outputs \ Reused
           /\ made \in SUBSET Reused
           /\ attempted = Reused /\ failed = Reused \ made
    BY DEF ExecInit
  <1>2. \A t \in Tasks : Demand(ahead, t) \in Nat
    BY <1>1, UsersFinite
  <1>3. blamed \subseteq Tasks
    BY <1>1 DEF ExecInit
  <1>4. ExecTypeOK
    <2>1. ahead \in SUBSET Outputs /\ made \in SUBSET Outputs
          /\ attempted \in SUBSET Outputs /\ failed \in SUBSET Outputs
      BY <1>1
    <2>2. faulted \in SUBSET Outputs
      BY <2>1 DEF ExecInit
    <2>3. shared \in SUBSET Tasks
      BY DEF ExecInit, Shared
    <2>4. pending \in [Tasks -> Nat] /\ fetches \in [Tasks -> Nat]
      BY <1>2 DEF ExecInit
    <2>5. QED
      BY <1>3, <2>1, <2>2, <2>3, <2>4 DEF ExecInit, ExecTypeOK, ExecPhases, Statuses
  <1>5. PendingIsDemand /\ VisitsItsOwn /\ FetchedAndSpent /\ HeldWhileNeeded
    <2>1. PendingIsDemand
      BY DEF ExecInit, PendingIsDemand
    <2>2. VisitsItsOwn /\ FetchedAndSpent
      BY DEF ExecInit, VisitsItsOwn, FetchedAndSpent
    <2>3. HeldWhileNeeded
      BY DEF ExecInit, HeldWhileNeeded
    <2>4. QED
      BY <2>1, <2>2, <2>3
  <1>6. ResultsAreShared
    BY DEF ExecInit, ResultsAreShared, Shared
  <1>7. PrivateTasks
    <2> SUFFICES ASSUME NEW t \in Tasks \ (Provisional \cup shared), NEW o \in ahead, NEW p \in ahead,
                        t \in Needs[o], t \in Needs[p]
                 PROVE  o = p
      BY DEF PrivateTasks
    <2>1. ~(Demand(ahead, t) > 1)
      BY DEF ExecInit, Shared
    <2>2. QED
      BY <1>1, <2>1, OneUser
  <1>8. QED
    BY <1>4, <1>5, <1>6, <1>7 DEF ExecInv

\* Steps that neither fetch, nor finish an output, nor take up a new one.
LEMMA Quiet ==
    ASSUME ExecInv, ExecTypeOK', UNCHANGED <<loopVars, fetches>>,
           \/ UNCHANGED <<cur, left>> /\ (stage' = stage \/ (stage' \in {"emit", "progress"} /\ stage \in {"tasks", "emit"}))
           \/ UNCHANGED cur /\ stage = "tasks" /\ stage' \in {"tasks", "emit"} /\ left' \subseteq left
           \/ UNCHANGED <<cur, left>> /\ stage \in {"next", "finish"} /\ stage' \in {"finish", "done"}
    PROVE  ExecInv'
  <1>1. PendingIsDemand' /\ ResultsAreShared' /\ PrivateTasks' /\ HeldWhileNeeded'
    BY DEF ExecInv, loopVars, PendingIsDemand, ResultsAreShared, PrivateTasks, HeldWhileNeeded
  <1>2. VisitsItsOwn'
    BY DEF ExecInv, VisitsItsOwn
  <1>3. FetchedAndSpent'
    BY DEF ExecInv, loopVars, FetchedAndSpent, Spent
  <1>4. QED
    BY <1>1, <1>2, <1>3 DEF ExecInv

LEMMA ExecStep == ExecInv /\ [ExecNext]_execAllVars => ExecInv'
  <1> SUFFICES ASSUME ExecInv, [ExecNext]_execAllVars PROVE ExecInv'
    OBVIOUS
  <1> USE ExecutionAssumption DEF ExecutionAssumption
  <1>1. /\ ExecTypeOK /\ PendingIsDemand /\ ResultsAreShared /\ PrivateTasks
        /\ VisitsItsOwn /\ FetchedAndSpent /\ HeldWhileNeeded
    BY DEF ExecInv
  <1>2. CASE Cancel
    <2>1. ExecTypeOK'
      BY <1>1, <1>2 DEF Cancel, loopVars, execVars, issueVars, pastVars, ExecTypeOK
    <2>2. UNCHANGED <<loopVars, fetches, cur, left, stage>>
      BY <1>2 DEF Cancel, execVars, pastVars
    <2>3. QED
      BY <2>1, <2>2, Quiet
  <1>3. CASE Pick
    <2>1. First(ahead) \in ahead
      BY <1>1, <1>3, FirstOf DEF Pick, ExecTypeOK
    <2>2. ExecTypeOK'
      BY <1>1, <1>3, <2>1 DEF Pick, loopVars, issueVars, ExecTypeOK, ExecPhases
    <2>3. VisitsItsOwn'
      BY <1>3 DEF Pick, VisitsItsOwn
    <2>4. FetchedAndSpent'
      BY <1>1, <1>3 DEF Pick, loopVars, FetchedAndSpent, Spent
    <2>5. PendingIsDemand' /\ ResultsAreShared' /\ PrivateTasks' /\ HeldWhileNeeded'
      BY <1>1, <1>3 DEF Pick, loopVars, PendingIsDemand, ResultsAreShared, PrivateTasks,
                        HeldWhileNeeded
    <2>6. QED
      BY <2>2, <2>3, <2>4, <2>5 DEF ExecInv
  <1>4. CASE Leave
    <2>1. ExecTypeOK'
      BY <1>1, <1>4 DEF Leave, loopVars, execVars, issueVars, pastVars, ExecTypeOK, ExecPhases
    <2>2. QED
      BY <1>4, <2>1, Quiet DEF Leave, execVars, pastVars
  <1>5. CASE CutShort
    <2>1. ExecTypeOK'
      BY <1>1, <1>5 DEF CutShort, loopVars, pastVars, ExecTypeOK, ExecPhases
    <2>2. QED
      BY <1>5, <2>1, Quiet DEF CutShort, pastVars
  <1>6. ASSUME NEW t \in Tasks, Reuse(t)
        PROVE  ExecInv'
    <2>1. ExecTypeOK'
      BY <1>1, <1>6 DEF Reuse, Visit, ExecTypeOK, ExecPhases
    <2>2. QED
      BY <1>6, <2>1, Quiet DEF Reuse, Visit, loopVars
  <1>7. ASSUME NEW t \in Tasks, Fetch(t)
        PROVE  ExecInv'
    <2>1. t \in left /\ t \in Needs[cur] /\ cur \in ahead /\ stage = "tasks"
      <3>1. First(left) \in left
        BY <1>1, <1>7, FirstOf DEF Fetch, Visit, ExecTypeOK
      <3>2. QED
        BY <1>1, <1>7, <3>1 DEF Fetch, Visit, VisitsItsOwn, ExecTypeOK
    <2>2. t \notin Provisional => fetches[t] = 0
      BY <1>1, <1>7, <2>1 DEF Fetch, FetchedAndSpent, Spent
    <2>3. ExecTypeOK'
      <3>1. results' \in SUBSET Tasks /\ got' \in SUBSET Tasks /\ left' \in SUBSET Tasks
        BY <1>1, <1>7 DEF Fetch, Visit, ExecTypeOK
      <3>2. fetches' \in [Tasks -> Nat]
        BY <1>1, <1>7 DEF Fetch, ExecTypeOK
      <3>3. stage' \in {"tasks", "emit"}
        BY <1>7 DEF Fetch, Visit
      <3>4. QED
        BY <1>1, <1>7, <2>1, <3>1, <3>2, <3>3 DEF Fetch, Visit, ExecTypeOK, ExecPhases
    <2>4. FetchedAndSpent'
      <3> SUFFICES ASSUME NEW u \in Tasks \ Provisional
                   PROVE  (fetches[u] = 0 \/ (fetches[u] = 1 /\ Spent(u)))'
        BY DEF FetchedAndSpent
      <3>1. CASE u = t
        <4>1. fetches'[t] = 1
          BY <1>1, <1>7, <2>2, <3>1 DEF Fetch, ExecTypeOK
        <4>2. t \in shared => t \in results'
          BY <1>7 DEF Fetch
        <4>3. t \notin shared => \A o \in ahead : t \in Needs[o] => o = cur
          BY <1>1, <2>1, <3>1 DEF PrivateTasks
        <4>4. Spent(t)'
          BY <1>7, <2>1, <4>2, <4>3 DEF Fetch, Visit, Spent
        <4>5. QED
          BY <3>1, <4>1, <4>4
      <3>2. CASE u # t
        BY <1>1, <1>7, <2>1, <3>2 DEF Fetch, Visit, FetchedAndSpent, Spent, ExecTypeOK
      <3>3. QED
        BY <3>1, <3>2
    <2>5. PendingIsDemand' /\ PrivateTasks'
      BY <1>1, <1>7 DEF Fetch, Visit, PendingIsDemand, PrivateTasks
    <2>6. ResultsAreShared' /\ VisitsItsOwn' /\ HeldWhileNeeded'
      BY <1>1, <1>7, <2>1 DEF Fetch, Visit, ResultsAreShared, VisitsItsOwn, HeldWhileNeeded
    <2>7. QED
      BY <2>3, <2>4, <2>5, <2>6 DEF ExecInv
  <1>8. ASSUME NEW t \in Tasks, FetchFails(t)
        PROVE  ExecInv'
    <2>1. cur \in Outputs
      BY <1>1, <1>8 DEF FetchFails, Visit, ExecTypeOK
    <2>2. ExecTypeOK'
      BY <1>1, <1>8, <2>1 DEF FetchFails, Visit, ExecTypeOK, ExecPhases
    <2>3. QED
      BY <1>8, <2>2, Quiet DEF FetchFails, Visit, loopVars
  <1>9. CASE Raises \/ EmitFails
    <2>1. cur \in Outputs
      BY <1>1, <1>9 DEF Raises, EmitFails, ExecTypeOK
    <2>2. ExecTypeOK'
      BY <1>1, <1>9, <2>1 DEF Raises, EmitFails, loopVars, execVars, ExecTypeOK, ExecPhases
    <2>3. QED
      BY <1>9, <2>2, Quiet DEF Raises, EmitFails, execVars
  <1>10. CASE Emit
    <2>1. cur \in Outputs
      BY <1>1, <1>10 DEF Emit, ExecTypeOK
    <2>2. ExecTypeOK'
      BY <1>1, <1>10, <2>1 DEF Emit, loopVars, execVars, pastVars, ExecTypeOK, ExecPhases
    <2>3. QED
      BY <1>10, <2>2, Quiet DEF Emit, execVars, pastVars
  <1>11. CASE Omit
    <2>1. ExecTypeOK'
      BY <1>1, <1>11 DEF Omit, loopVars, execVars, issueVars, pastVars, ExecTypeOK, ExecPhases
    <2>2. QED
      BY <1>11, <2>1, Quiet DEF Omit, execVars, pastVars
  <1>12. CASE Progress
    <2>1. cur \in ahead /\ ahead \subseteq Outputs
      BY <1>1, <1>12 DEF Progress, ExecTypeOK
    <2>2. \A t \in Tasks : Freed[t] = Demand(ahead', t) /\ Demand(ahead', t) \in Nat
      <3> SUFFICES ASSUME NEW t \in Tasks
                   PROVE  Freed[t] = Demand(ahead', t) /\ Demand(ahead', t) \in Nat
        OBVIOUS
      <3>1. ahead' = ahead \ {cur} /\ pending[t] = Demand(ahead, t)
        BY <1>1, <1>12 DEF Progress, PendingIsDemand
      <3>2. Demand(ahead \ {cur}, t) = IF t \in Needs[cur] THEN Demand(ahead, t) - 1 ELSE Demand(ahead, t)
        BY <2>1, DemandFalls
      <3>3. Demand(ahead \ {cur}, t) \in Nat
        BY <2>1, UsersFinite
      <3>4. QED
        BY <3>1, <3>2, <3>3 DEF Freed
    <2>3. PendingIsDemand'
      BY <1>12, <2>2 DEF Progress, PendingIsDemand
    <2>4. ExecTypeOK'
      <3>1. pending' \in [Tasks -> Nat]
        BY <1>12, <2>2 DEF Progress, Freed
      <3>2. ahead' \in SUBSET Outputs /\ cur' = NoOutput /\ results' \in SUBSET Tasks /\ stage' = "next"
        BY <1>1, <1>12 DEF Progress, ExecTypeOK
      <3>3. QED
        BY <1>1, <1>12, <3>1, <3>2 DEF Progress, issueVars, pastVars, ExecTypeOK, ExecPhases
    <2>5. \A t \in Tasks : t \in results /\ t \notin results' => \A o \in ahead' : t \notin Needs[o]
      <3> SUFFICES ASSUME NEW t \in Tasks, t \in results, t \notin results'
                   PROVE  \A o \in ahead' : t \notin Needs[o]
        OBVIOUS
      <3>1. ~(Freed[t] > 0)
        BY <1>12 DEF Progress
      <3>2. Demand(ahead', t) = 0
        BY <2>2, <3>1
      <3>3. ahead' \subseteq Outputs
        BY <1>12, <2>1 DEF Progress
      <3>4. QED
        BY <3>2, <3>3, NoDemand
    <2>6. HeldWhileNeeded'
      <3> SUFFICES ASSUME NEW t \in results' PROVE \E o \in ahead' : t \in Needs[o]
        BY DEF HeldWhileNeeded
      <3>1. t \in Tasks /\ t \in results /\ (t \in Needs[cur] => Freed[t] > 0)
        BY <1>1, <1>12 DEF Progress, ExecTypeOK
      <3>2. CASE t \in Needs[cur]
        <4>1. ahead' \subseteq Outputs
          BY <1>12, <2>1 DEF Progress
        <4>2. Freed[t] = Demand(ahead', t) /\ Freed[t] > 0
          BY <2>2, <3>1, <3>2
        <4>3. Demand(ahead', t) # 0
          BY <4>2
        <4>4. QED
          BY <4>1, <4>3, NoDemand
      <3>3. CASE t \notin Needs[cur]
        BY <1>1, <1>12, <3>1, <3>3 DEF Progress, HeldWhileNeeded
      <3>4. QED
        BY <3>2, <3>3
    <2>7. FetchedAndSpent'
      BY <1>1, <1>12, <2>5 DEF Progress, pastVars, FetchedAndSpent, Spent, ExecTypeOK
    <2>8. ResultsAreShared' /\ PrivateTasks' /\ VisitsItsOwn'
      BY <1>1, <1>12 DEF Progress, ResultsAreShared, PrivateTasks, VisitsItsOwn
    <2>9. QED
      BY <2>3, <2>4, <2>6, <2>7, <2>8 DEF ExecInv
  <1>13. CASE Finish
    <2>1. ExecTypeOK'
      BY <1>1, <1>13 DEF Finish, Row, loopVars, execVars, pastVars, ExecTypeOK, ExecPhases, Statuses
    <2>2. QED
      BY <1>13, <2>1, Quiet DEF Finish, execVars, pastVars
  <1>14. CASE UNCHANGED execAllVars
    <2>1. ExecTypeOK'
      BY <1>1, <1>14 DEF execAllVars, loopVars, execVars, issueVars, pastVars, ExecTypeOK
    <2>2. UNCHANGED <<loopVars, fetches, cur, left, stage>>
      BY <1>14 DEF execAllVars, execVars, pastVars
    <2>3. QED
      BY <2>1, <2>2, Quiet
  <1>15. QED
    BY <1>2, <1>3, <1>4, <1>5, <1>6, <1>7, <1>8, <1>9, <1>10, <1>11, <1>12, <1>13, <1>14 DEF ExecNext

\* The inductive invariant holds in every reachable state.
THEOREM ExecutionIsSound == ExecSpec => []ExecInv
  BY InitExec, ExecStep, PTL DEF ExecSpec

\* A run asks a final source at most once for a result it got, whatever outputs share it, fail
\* or are cancelled, and keeps no result longer than an output needs it.
THEOREM SharedTasksAreFetchedOnce == ExecSpec => [](FetchedOnce /\ HeldWhileNeeded)
  <1>1. ExecInv => FetchedOnce /\ HeldWhileNeeded
    BY DEF ExecInv, ExecTypeOK, FetchedAndSpent, FetchedOnce
  <1>2. QED
    BY <1>1, ExecutionIsSound, PTL

-----------------------------------------------------------------------------
\* The issues of an output that failed on its own name it or one of its tasks, whatever is
\* fetched, made or cancelled later, so that its row is related to them.
FailuresAreRelated == \A o \in failed \ made : Related(o)

FailInv == FailuresAreRelated /\ FailuresAreShown

\* A row without weather whose output is related to an issue says "failed".
LEMMA RelatedRow ==
    ASSUME NEW o, o \notin made, Related(o), NEW wasCut
    PROVE  Row(o, wasCut) = "failed"
  BY DEF Row

LEMMA FailStep == ExecInv /\ FailInv /\ [ExecNext]_execAllVars => FailInv'
  <1> SUFFICES ASSUME ExecInv, FailInv, [ExecNext]_execAllVars PROVE FailInv'
    OBVIOUS
  <1>1. ExecTypeOK /\ VisitsItsOwn /\ FailuresAreRelated /\ FailuresAreShown
    BY DEF ExecInv, FailInv
  <1>2. CASE Cancel \/ Pick \/ Leave \/ CutShort \/ Omit \/ Progress
    BY <1>1, <1>2 DEF Cancel, Pick, Leave, CutShort, Omit, Progress, issueVars, pastVars,
                      FailInv, FailuresAreRelated, FailuresAreShown, Related
  <1>3. ASSUME NEW t \in Tasks, Reuse(t) \/ Fetch(t)
        PROVE  FailInv'
    BY <1>1, <1>3 DEF Reuse, Fetch, Visit, FailInv, FailuresAreRelated, FailuresAreShown, Related
  <1>4. ASSUME NEW t \in Tasks, FetchFails(t)
        PROVE  FailInv'
    <2>1. t \in Needs[cur]
      <3>1. First(left) \in left
        BY <1>1, <1>4, FirstOf, ExecutionAssumption DEF FetchFails, Visit, ExecTypeOK, ExecutionAssumption
      <3>2. QED
        BY <1>1, <1>4, <3>1 DEF FetchFails, Visit, VisitsItsOwn
    <2>2. FailuresAreRelated'
      BY <1>1, <1>4, <2>1 DEF FetchFails, Visit, FailuresAreRelated, Related
    <2>3. FailuresAreShown'
      BY <1>4 DEF FetchFails, Visit, FailuresAreShown
    <2>4. QED
      BY <2>2, <2>3 DEF FailInv
  <1>5. CASE Raises \/ EmitFails
    <2>1. FailuresAreRelated'
      BY <1>1, <1>5 DEF Raises, EmitFails, FailuresAreRelated, Related
    <2>2. FailuresAreShown'
      BY <1>5 DEF Raises, EmitFails, FailuresAreShown
    <2>3. QED
      BY <2>1, <2>2 DEF FailInv
  <1>6. CASE Emit
    BY <1>1, <1>6 DEF Emit, pastVars, FailInv, FailuresAreRelated, FailuresAreShown, Related
  <1>7. CASE Finish
    <2>1. FailuresAreRelated'
      BY <1>1, <1>7 DEF Finish, pastVars, FailuresAreRelated, Related
    <2>2. FailuresAreShown'
      <3> SUFFICES ASSUME NEW o \in failed \ made PROVE rows'[o] = "failed"
        BY <1>7 DEF Finish, pastVars, FailuresAreShown
      <3>1. o \in Outputs /\ Row(o, cut') = "failed"
        BY <1>1, RelatedRow DEF FailuresAreRelated, ExecTypeOK
      <3>2. QED
        BY <1>7, <3>1 DEF Finish
    <2>3. QED
      BY <2>1, <2>2 DEF FailInv
  <1>8. CASE UNCHANGED execAllVars
    BY <1>1, <1>8 DEF execAllVars, issueVars, pastVars, FailInv, FailuresAreRelated, FailuresAreShown, Related
  <1>9. QED
    BY <1>2, <1>3, <1>4, <1>5, <1>6, <1>7, <1>8 DEF ExecNext

\* An output that failed on its own is reported as failed in a finished job, also when the job
\* was resumed, or cancelled after the failure (finalize_batch_rows).
THEOREM FailuresAreAlwaysShown == ExecSpec => []FailuresAreShown
  <1>1. ExecInit => FailInv
    BY DEF ExecInit, FailInv, FailuresAreRelated, FailuresAreShown, Related
  <1>2. FailInv => FailuresAreShown
    BY DEF FailInv
  <1>3. QED
    BY <1>1, <1>2, FailStep, ExecutionIsSound, PTL DEF ExecSpec
=============================================================================
