------------------------- MODULE OrganisationProofs -------------------------
(***************************************************************************)
(* Proofs about the two ways an organisation is governed: by its            *)
(* administrators, who stop and resume it and approve what it may execute   *)
(* (module Governance), and by the rules its own missions run under (module *)
(* Mission).  The two specifications share no variable; what they share     *)
(* here is the module, so each carries its name on Init, Next and Spec.     *)
(*                                                                         *)
(* The first part is for any number of organisations, approvals,            *)
(* administrators and overlapping calls, the second for any roster, policy  *)
(* profiles, proposals, budgets and number of missions.                     *)
(***************************************************************************)
EXTENDS Governance, Mission, SumTheorems

(***************************************************************************)
(* Types                                                                   *)
(***************************************************************************)

\* A record that pause and resume append has the type of a record.
LEMMA RecordType ==
    ASSUME NEW o \in Orgs, NEW q \in SUBSET Approvals, NEW t \in Nat,
           NEW b \in States, NEW f \in States
    PROVE  Record(o, q, t, b, f) \in Records
  BY DEF Record, Records

\* Every step of circuit_breaker.py and of the approval managers keeps the types.
LEMMA TypeStep == GovernanceTypeOK /\ [GovernanceNext]_governanceVars => GovernanceTypeOK'
  <1> SUFFICES ASSUME GovernanceTypeOK, [GovernanceNext]_governanceVars PROVE GovernanceTypeOK'
    OBVIOUS
  <1> USE DEF GovernanceTypeOK, BreakerTypeOK, CallTypeOK, ExecTypeOK, breakerVars, clockVars, adminVars,
              resumeVars, pauseVars, execVars
  <1>1. ASSUME NEW a \in Approvals, CreateApproval(a) PROVE GovernanceTypeOK'
    BY <1>1 DEF CreateApproval
  <1>2. ASSUME NEW a \in Approvals \cup ExecApprovals, Expire(a) PROVE GovernanceTypeOK'
    BY <1>2 DEF Expire
  <1>3. ASSUME NEW r \in ResumeCalls, NEW o \in Orgs, NEW q \in Quorums[o], ResumeStart(r, o, q)
        PROVE  GovernanceTypeOK'
    <2>1. q \in SUBSET Approvals
      BY DEF Quorums
    <2> QED BY <1>3, <2>1 DEF ResumeStart
  <1>4. ASSUME NEW r \in ResumeCalls, ResumeVerify(r) PROVE GovernanceTypeOK'
    BY <1>4 DEF ResumeVerify
  <1>5. ASSUME NEW r \in ResumeCalls, ResumeRejected(r) PROVE GovernanceTypeOK'
    BY <1>5 DEF ResumeRejected, ResumeReturn, States
  <1>6. ASSUME NEW r \in ResumeCalls, ResumeConsume(r) PROVE GovernanceTypeOK'
    BY <1>6 DEF ResumeConsume
  <1>7. ASSUME NEW r \in ResumeCalls, ResumeStamp(r) PROVE GovernanceTypeOK'
    BY <1>7 DEF ResumeStamp, Stamp
  <1>8. ASSUME NEW r \in ResumeCalls, ResumeRead(r) PROVE GovernanceTypeOK'
    BY <1>8 DEF ResumeRead
  <1>9. ASSUME NEW r \in ResumeCalls, ResumeWrite(r) PROVE GovernanceTypeOK'
    <2> DEFINE rec == Record(rorg[r], rquorum[r], rat[r], rbefore[r], "NORMAL")
    <2>1. rec \in Records
      BY <1>9, RecordType DEF ResumeWrite, States
    <2> HIDE DEF rec
    <2>2. audit' \in Seq(Records)
      BY <1>9, <2>1 DEF ResumeWrite, rec
    <2> QED BY <1>9, <2>2 DEF ResumeWrite, ResumeReturn, States
  <1>10. ASSUME NEW r \in ResumeCalls, ResumeCrash(r) PROVE GovernanceTypeOK'
    BY <1>10 DEF ResumeCrash, ResumeReturn, States
  <1>11. ASSUME NEW p \in PauseCalls, NEW o \in Orgs, PauseStart(p, o) PROVE GovernanceTypeOK'
    BY <1>11 DEF PauseStart, Stamp
  <1>12. ASSUME NEW p \in PauseCalls, PauseRead(p) PROVE GovernanceTypeOK'
    BY <1>12 DEF PauseRead
  <1>13. ASSUME NEW p \in PauseCalls, PauseWrite(p) PROVE GovernanceTypeOK'
    <2> DEFINE rec == Record(porg[p], {}, pat[p], pbefore[p], "PAUSED")
    <2>1. rec \in Records
      BY <1>13, RecordType DEF PauseWrite, States
    <2> HIDE DEF rec
    <2>2. audit' \in Seq(Records)
      BY <1>13, <2>1 DEF PauseWrite, rec
    <2> QED BY <1>13, <2>2 DEF PauseWrite, PauseReturn, States
  <1>14. ASSUME NEW e \in ExecApprovals, Issue(e) PROVE GovernanceTypeOK'
    BY <1>14 DEF Issue
  <1>15. ASSUME NEW c \in ConsumeCalls, NEW e \in ExecApprovals, NEW i \in Intents, CheckApproval(c, e, i)
         PROVE  GovernanceTypeOK'
    BY <1>15 DEF CheckApproval
  <1>16. ASSUME NEW c \in ConsumeCalls, ConsumeApproval(c) PROVE GovernanceTypeOK'
    BY <1>16 DEF ConsumeApproval
  <1>17. CASE UNCHANGED governanceVars
    BY <1>17 DEF governanceVars
  <1> QED
    BY <1>1, <1>2, <1>3, <1>4, <1>5, <1>6, <1>8, <1>9, <1>10, <1>12, <1>13, <1>14,
       <1>15, <1>16, <1>17, <1>7, <1>11 DEF GovernanceNext

\* The initial state has the types.
LEMMA TypeInit == GovernanceInit => GovernanceTypeOK
  BY DEF GovernanceInit, GovernanceTypeOK, BreakerTypeOK, CallTypeOK, ExecTypeOK, States

\* The breaker's rows, the approvals and every running call keep their types,
\* for all values of the constants.
THEOREM GovernanceTypeInvariant == GovernanceSpec => []GovernanceTypeOK
  BY TypeInit, TypeStep, PTL DEF GovernanceSpec

(***************************************************************************)
(* Execution approvals                                                     *)
(***************************************************************************)

\* Only the conditional UPDATE grants, and it grants an unconsumed row.
LEMMA SingleUseStep ==
    GovernanceTypeOK /\ ExecutionApprovalSingleUse /\ [GovernanceNext]_governanceVars
        => ExecutionApprovalSingleUse'
  <1> SUFFICES ASSUME GovernanceTypeOK, ExecutionApprovalSingleUse, [GovernanceNext]_governanceVars
               PROVE  ExecutionApprovalSingleUse'
    OBVIOUS
  <1>1. ASSUME NEW c \in ConsumeCalls, ConsumeApproval(c) PROVE ExecutionApprovalSingleUse'
    <2>1. /\ carg[c] \in ExecApprovals
          /\ granted \in [ExecApprovals -> Nat]
      BY <1>1 DEF GovernanceTypeOK, ExecTypeOK, ConsumeApproval
    <2>2. SUFFICES ASSUME NEW e \in ExecApprovals
                   PROVE  granted'[e] <= 1 /\ (granted'[e] = 1 <=> e \in used')
      BY DEF ExecutionApprovalSingleUse
    <2>3. CASE e = carg[c]
      BY <1>1, <2>1, <2>3 DEF ExecutionApprovalSingleUse, ConsumeApproval
    <2>4. CASE e # carg[c]
      BY <1>1, <2>1, <2>4 DEF ExecutionApprovalSingleUse, ConsumeApproval
    <2> QED BY <2>3, <2>4
  <1>2. CASE UNCHANGED <<used, granted>>
    BY <1>2 DEF ExecutionApprovalSingleUse
  <1>3. (\E c \in ConsumeCalls : ConsumeApproval(c)) \/ UNCHANGED <<used, granted>>
    BY DEF GovernanceNext, governanceVars, CreateApproval, Expire, ResumeStart, ResumeVerify, ResumeRejected,
           ResumeConsume, ResumeStamp, ResumeRead, ResumeWrite, ResumeCrash, PauseStart, PauseRead,
           PauseWrite, Issue, CheckApproval, execVars
  <1> QED BY <1>1, <1>2, <1>3

\* An execution approval authorises one execution, however many callers check it
\* before one of them consumes it.
THEOREM ExecutionApprovalsAreSingleUse == GovernanceSpec => []ExecutionApprovalSingleUse
  <1>1. GovernanceInit => ExecutionApprovalSingleUse
    BY DEF GovernanceInit, ExecutionApprovalSingleUse
  <1> QED BY <1>1, SingleUseStep, GovernanceTypeInvariant, PTL DEF GovernanceSpec

(***************************************************************************)
(* The audit trail.  The calls that write about an uncontested organisation *)
(* do it one after another: the stamp of the one that runs is later than    *)
(* every record, and what it has read is still the state.                   *)
(***************************************************************************)

PauseWrites(p, o) == ppc[p] # "idle" /\ porg[p] = o
ResumeWrites(r, o) == rpc[r] \in {"read", "write"} /\ rorg[r] = o

Alone(o) ==
    /\ \A p, q \in PauseCalls : PauseWrites(p, o) /\ PauseWrites(q, o) => p = q
    /\ \A r, s \in ResumeCalls : ResumeWrites(r, o) /\ ResumeWrites(s, o) => r = s
    /\ \A p \in PauseCalls, r \in ResumeCalls : ~(PauseWrites(p, o) /\ ResumeWrites(r, o))

PauseLater(o) ==
    \A p \in PauseCalls : PauseWrites(p, o) =>
        /\ \A i \in Trail(o) : audit[i].at < pat[p]
        /\ ppc[p] = "write" => pbefore[p] = breaker[o]

ResumeLater(o) ==
    \A r \in ResumeCalls : ResumeWrites(r, o) =>
        /\ \A i \in Trail(o) : audit[i].at < rat[r]
        /\ rpc[r] = "write" => rbefore[r] = breaker[o]

StampsPast ==
    /\ \A i \in DOMAIN audit : audit[i].at <= clock
    /\ \A p \in PauseCalls : pat[p] <= clock
    /\ \A r \in ResumeCalls : rat[r] <= clock

Orderly(o) == Alone(o) /\ PauseLater(o) /\ ResumeLater(o) /\ TellsState(o)

TrailInv == StampsPast /\ \A o \in Orgs \ contested : Orderly(o)

\* What appending a record does to the trail.
LEMMA TrailGrows ==
    ASSUME audit \in Seq(Records), NEW rec \in Records, audit' = Append(audit, rec)
    PROVE  /\ Len(audit) \in Nat
           /\ DOMAIN audit = 1 .. Len(audit)
           /\ DOMAIN audit' = 1 .. Len(audit) + 1
           /\ audit'[Len(audit) + 1] = rec
           /\ \A i \in 1 .. Len(audit) : audit'[i] = audit[i]
  OBVIOUS

\* The same, of the records of one organisation.
LEMMA TrailAppends ==
    ASSUME audit \in Seq(Records), NEW rec \in Records, audit' = Append(audit, rec)
    PROVE  \E k :
             /\ k \notin DOMAIN audit
             /\ DOMAIN audit' = DOMAIN audit \cup {k}
             /\ audit'[k] = rec
             /\ \A i \in DOMAIN audit : audit'[i] = audit[i]
             /\ \A o : Trail(o)' = IF rec.org = o THEN Trail(o) \cup {k} ELSE Trail(o)
  <1> DEFINE n == Len(audit)
  <1>1. /\ n \in Nat
        /\ DOMAIN audit = 1 .. n
        /\ DOMAIN audit' = 1 .. n + 1
        /\ audit'[n + 1] = rec
        /\ \A i \in 1 .. n : audit'[i] = audit[i]
    BY TrailGrows
  <1> HIDE DEF n
  <1>2. /\ n + 1 \notin DOMAIN audit
        /\ DOMAIN audit' = DOMAIN audit \cup {n + 1}
        /\ \A i \in DOMAIN audit : audit'[i] = audit[i]
    BY <1>1
  <1>3. ASSUME NEW o PROVE Trail(o)' = IF rec.org = o THEN Trail(o) \cup {n + 1} ELSE Trail(o)
    BY <1>1, <1>2 DEF Trail
  <1> QED BY <1>1, <1>2, <1>3

\* Records have stamps.
LEMMA StampTypes ==
    ASSUME GovernanceTypeOK
    PROVE  /\ \A i \in DOMAIN audit : audit[i].at \in Nat /\ audit[i].org \in Orgs
           /\ clock \in Nat
           /\ \A p \in PauseCalls : pat[p] \in Nat
           /\ \A r \in ResumeCalls : rat[r] \in Nat
  <1>1. \A i \in DOMAIN audit : audit[i] \in Records
    BY DEF GovernanceTypeOK, BreakerTypeOK
  <1>2. \A rec \in Records : rec.at \in Nat /\ rec.org \in Orgs
    BY DEF Records
  <1> QED BY <1>1, <1>2 DEF GovernanceTypeOK, BreakerTypeOK, CallTypeOK

\* A record that begins in the state of the row and has a later stamp than the
\* records of its organisation keeps the trail in order.
LEMMA AppendTells ==
    ASSUME GovernanceTypeOK, NEW o \in Orgs, TellsState(o), NEW rec \in Records,
           audit' = Append(audit, rec), breaker' = [breaker EXCEPT ![rec.org] = rec.after],
           rec.org = o => /\ rec.before = breaker[o]
                          /\ \A i \in Trail(o) : audit[i].at < rec.at
    PROVE  TellsState(o)'
  <1>1. PICK k :
          /\ k \notin DOMAIN audit
          /\ DOMAIN audit' = DOMAIN audit \cup {k}
          /\ audit'[k] = rec
          /\ \A i \in DOMAIN audit : audit'[i] = audit[i]
          /\ \A oo : Trail(oo)' = IF rec.org = oo THEN Trail(oo) \cup {k} ELSE Trail(oo)
    BY TrailAppends DEF GovernanceTypeOK, BreakerTypeOK
  <1>2. breaker \in [Orgs -> States] /\ rec.org \in Orgs
    BY DEF GovernanceTypeOK, BreakerTypeOK, Records
  <1>3. Trail(o) \subseteq DOMAIN audit
    BY DEF Trail
  <1> DEFINE T == Trail(o)
             U == Trail(o)'
             At(i) == audit[i].at
             AtNow(i) == audit'[i].at
  <1>4. /\ \A i : Newest(o, i) <=> i \in T /\ \A j \in T : At(j) <= At(i)
        /\ \A i : Newest(o, i)' <=> i \in U /\ \A j \in U : AtNow(j) <= AtNow(i)
        /\ \A i : Oldest(o, i) <=> i \in T /\ \A j \in T : At(i) <= At(j)
        /\ \A i : Oldest(o, i)' <=> i \in U /\ \A j \in U : AtNow(i) <= AtNow(j)
    BY DEF Newest, Oldest
  <1>5. /\ \A i, j : Follows(o, i, j) <=> /\ {i, j} \subseteq T
                                         /\ At(i) < At(j)
                                         /\ \A l \in T : ~(At(i) < At(l) /\ At(l) < At(j))
        /\ \A i, j : Follows(o, i, j)' <=> /\ {i, j} \subseteq U
                                          /\ AtNow(i) < AtNow(j)
                                          /\ \A l \in U : ~(AtNow(i) < AtNow(l) /\ AtNow(l) < AtNow(j))
    BY DEF Follows
  <1>6. /\ T = {} => breaker[o] = "NORMAL"
        /\ \A i \in T : Newest(o, i) => audit[i].after = breaker[o]
        /\ \A i \in T : Oldest(o, i) => audit[i].before = "NORMAL"
        /\ \A i, j \in T : Follows(o, i, j) => audit[j].before = audit[i].after
    BY DEF TellsState
  <1>7. \A i \in T : /\ At(i) \in Nat
                    /\ AtNow(i) = At(i)
                    /\ audit'[i].before = audit[i].before
                    /\ audit'[i].after = audit[i].after
    BY <1>1, <1>3, StampTypes
  <1>8. SUFFICES /\ U = {} => breaker'[o] = "NORMAL"
                 /\ \A i \in U : Newest(o, i)' => audit'[i].after = breaker'[o]
                 /\ \A i \in U : Oldest(o, i)' => audit'[i].before = "NORMAL"
                 /\ \A i, j \in U : Follows(o, i, j)' => audit'[j].before = audit'[i].after
    BY DEF TellsState
  <1>9. CASE rec.org # o
    <2>1. U = T /\ breaker'[o] = breaker[o]
      BY <1>1, <1>2, <1>9
    <2> HIDE DEF T, U, At, AtNow
    <2>2. ASSUME NEW i \in U, Newest(o, i)' PROVE audit'[i].after = breaker'[o]
      <3>1. Newest(o, i)
        BY <1>4, <1>7, <2>1, <2>2
      <3> QED BY <1>6, <1>7, <2>1, <3>1
    <2>3. ASSUME NEW i \in U, Oldest(o, i)' PROVE audit'[i].before = "NORMAL"
      <3>1. Oldest(o, i)
        BY <1>4, <1>7, <2>1, <2>3
      <3> QED BY <1>6, <1>7, <2>1, <3>1
    <2>4. ASSUME NEW i \in U, NEW j \in U, Follows(o, i, j)' PROVE audit'[j].before = audit'[i].after
      <3>1. Follows(o, i, j)
        BY <1>5, <1>7, <2>1, <2>4
      <3> QED BY <1>6, <1>7, <2>1, <3>1
    <2> QED BY <1>6, <2>1, <2>2, <2>3, <2>4
  <1>10. CASE rec.org = o
    <2>1. /\ U = T \cup {k}
          /\ breaker'[o] = rec.after
          /\ k \notin T
      BY <1>1, <1>2, <1>3, <1>10
    <2>2. /\ AtNow(k) \in Nat
          /\ audit'[k].before = breaker[o]
          /\ audit'[k].after = rec.after
          /\ \A i \in T : AtNow(i) < AtNow(k)
      BY <1>1, <1>7, <1>10 DEF Records
    <2> HIDE DEF T, U, At, AtNow
    <2>3. ASSUME NEW i \in U, Newest(o, i)' PROVE audit'[i].after = breaker'[o]
      <3>1. AtNow(k) <= AtNow(i)
        BY <1>4, <2>1, <2>3
      <3>2. i \notin T
        BY <1>7, <2>2, <3>1
      <3> QED BY <2>1, <2>2, <3>2
    <2>4. ASSUME NEW i \in U, Oldest(o, i)' PROVE audit'[i].before = "NORMAL"
      <3>1. i \in U /\ \A l \in U : AtNow(i) <= AtNow(l)
        BY <1>4, <2>4
      <3>2. CASE i = k
        <4>1. T = {}
          BY <1>7, <2>1, <2>2, <3>1, <3>2
        <4> QED BY <1>6, <2>2, <3>2, <4>1
      <3>3. CASE i # k
        <4>1. i \in T /\ \A l \in T : At(i) <= At(l)
          BY <1>7, <2>1, <3>1, <3>3
        <4> QED BY <1>4, <1>6, <1>7, <4>1
      <3> QED BY <3>2, <3>3
    <2>5. ASSUME NEW i \in U, NEW j \in U, Follows(o, i, j)' PROVE audit'[j].before = audit'[i].after
      <3>1. /\ AtNow(i) < AtNow(j)
            /\ \A l \in U : ~(AtNow(i) < AtNow(l) /\ AtNow(l) < AtNow(j))
        BY <1>5, <2>5
      <3>2. i \in T
        BY <1>7, <2>1, <2>2, <3>1
      <3>3. CASE j = k
        <4>1. \A l \in T : At(l) <= At(i)
          BY <1>7, <2>1, <2>2, <3>1, <3>2, <3>3
        <4>2. audit[i].after = breaker[o]
          BY <1>4, <1>6, <3>2, <4>1
        <4> QED BY <1>7, <2>2, <3>2, <3>3, <4>2
      <3>4. CASE j # k
        <4>1. j \in T
          BY <2>1, <3>4
        <4>2. /\ At(i) < At(j)
              /\ \A l \in T : ~(At(i) < At(l) /\ At(l) < At(j))
          BY <1>7, <2>1, <3>1, <3>2, <4>1
        <4>3. Follows(o, i, j)
          BY <1>5, <3>2, <4>1, <4>2
        <4> QED BY <1>6, <1>7, <3>2, <4>1, <4>3
      <3> QED BY <3>3, <3>4
    <2>6. U # {}
      BY <2>1
    <2> QED BY <2>3, <2>4, <2>5, <2>6
  <1> QED BY <1>9, <1>10

\* What an organisation's order depends on.
LEMMA OrderlyFrame ==
    ASSUME NEW o, Orderly(o), UNCHANGED <<breaker, audit>>,
           \A p \in PauseCalls : PauseWrites(p, o)' =>
               /\ PauseWrites(p, o)
               /\ pat'[p] = pat[p]
               /\ ppc'[p] = "write" => \/ pbefore'[p] = breaker[o]
                                       \/ ppc[p] = "write" /\ pbefore'[p] = pbefore[p],
           \A r \in ResumeCalls : ResumeWrites(r, o)' =>
               /\ ResumeWrites(r, o)
               /\ rat'[r] = rat[r]
               /\ rpc'[r] = "write" => \/ rbefore'[r] = breaker[o]
                                       \/ rpc[r] = "write" /\ rbefore'[r] = rbefore[r]
    PROVE  Orderly(o)'
  <1>1. Trail(o)' = Trail(o)
    BY DEF Trail
  <1>2. Alone(o)'
    BY DEF Orderly, Alone
  <1>3. PauseLater(o)'
    BY <1>1 DEF Orderly, PauseLater
  <1>4. ResumeLater(o)'
    BY <1>1 DEF Orderly, ResumeLater
  <1>5. TellsState(o)'
    BY <1>1 DEF Orderly, TellsState, Newest, Oldest, Follows
  <1> QED BY <1>2, <1>3, <1>4, <1>5 DEF Orderly

\* A commit of the one call that writes about an organisation, or of a call that
\* writes about another.
LEMMA OrderlyCommit ==
    ASSUME GovernanceTypeOK, NEW o \in Orgs, Orderly(o), NEW rec \in Records,
           audit' = Append(audit, rec), breaker' = [breaker EXCEPT ![rec.org] = rec.after],
           rec.org = o => /\ rec.before = breaker[o]
                          /\ \A i \in Trail(o) : audit[i].at < rec.at
                          /\ \A p \in PauseCalls : ~PauseWrites(p, o)'
                          /\ \A r \in ResumeCalls : ~ResumeWrites(r, o)',
           \A p \in PauseCalls : PauseWrites(p, o)' =>
               /\ PauseWrites(p, o)
               /\ UNCHANGED <<pat[p], ppc[p], pbefore[p]>>,
           \A r \in ResumeCalls : ResumeWrites(r, o)' =>
               /\ ResumeWrites(r, o)
               /\ UNCHANGED <<rat[r], rpc[r], rbefore[r]>>
    PROVE  Orderly(o)'
  <1>1. TellsState(o)'
    BY AppendTells DEF Orderly
  <1>2. Alone(o)'
    BY DEF Orderly, Alone
  <1>3. CASE rec.org = o
    BY <1>1, <1>2, <1>3 DEF Orderly, PauseLater, ResumeLater
  <1>4. CASE rec.org # o
    <2>1. Trail(o)' = Trail(o) /\ \A i \in Trail(o) : audit'[i] = audit[i]
      <3>1. Trail(o) \subseteq DOMAIN audit
        BY DEF Trail
      <3> QED BY <1>4, <3>1, TrailAppends DEF GovernanceTypeOK, BreakerTypeOK
    <2>2. breaker'[o] = breaker[o]
      BY <1>4 DEF GovernanceTypeOK, BreakerTypeOK, Records
    <2> QED BY <1>1, <1>2, <2>1, <2>2 DEF Orderly, PauseLater, ResumeLater
  <1> QED BY <1>3, <1>4

\* Commits keep the stamps of the records in the past.
LEMMA StampsCommit ==
    ASSUME GovernanceTypeOK, StampsPast, NEW rec \in Records, audit' = Append(audit, rec),
           rec.at <= clock, UNCHANGED clock,
           \A p \in PauseCalls : pat'[p] \in {0, pat[p]},
           \A r \in ResumeCalls : rat'[r] \in {0, rat[r]}
    PROVE  StampsPast'
  <1>1. \A i \in DOMAIN audit' : audit'[i].at <= clock
    BY TrailAppends DEF GovernanceTypeOK, BreakerTypeOK, StampsPast
  <1>2. clock \in Nat
    BY StampTypes
  <1> QED BY <1>1, <1>2 DEF StampsPast

\* A call that takes its stamp writes about its organisation alone, or contests it.
LEMMA StampAlone ==
    ASSUME GovernanceTypeOK, NEW o, Stamp(o), o \notin contested'
    PROVE  /\ \A p \in PauseCalls : ~PauseWrites(p, o)
           /\ \A r \in ResumeCalls : ~ResumeWrites(r, o)
           /\ o \notin contested
  BY DEF Stamp, Writing, PauseWrites, ResumeWrites

\* Reads, verifications, refusals and deaths leave every trail in order.
LEMMA QuietKeepsOrder ==
    ASSUME GovernanceTypeOK, TrailInv, UNCHANGED <<breaker, audit, clock, contested, ppc, porg, pat>>,
           \A p \in PauseCalls : pbefore'[p] = pbefore[p],
           \A r \in ResumeCalls :
               /\ rat'[r] \in {0, rat[r]}
               /\ rpc'[r] \in {"read", "write"} =>
                      /\ rpc[r] \in {"read", "write"}
                      /\ rorg'[r] = rorg[r]
                      /\ rat'[r] = rat[r]
                      /\ rpc'[r] = "write" => \/ rbefore'[r] = breaker[rorg[r]]
                                              \/ rpc[r] = "write" /\ rbefore'[r] = rbefore[r]
    PROVE  TrailInv'
  <1>1. StampsPast'
    <2>1. clock \in Nat
      BY StampTypes
    <2> QED BY <2>1 DEF TrailInv, StampsPast
  <1>2. ASSUME NEW o \in Orgs \ contested' PROVE Orderly(o)'
    <2>1. Orderly(o)
      BY <1>2 DEF TrailInv
    <2>2. \A r \in ResumeCalls : ResumeWrites(r, o)' =>
               /\ ResumeWrites(r, o)
               /\ rat'[r] = rat[r]
               /\ rpc'[r] = "write" => \/ rbefore'[r] = breaker[o]
                                       \/ rpc[r] = "write" /\ rbefore'[r] = rbefore[r]
      BY DEF ResumeWrites
    <2>3. \A p \in PauseCalls : PauseWrites(p, o)' =>
               /\ PauseWrites(p, o)
               /\ pat'[p] = pat[p]
               /\ ppc'[p] = "write" => \/ pbefore'[p] = breaker[o]
                                       \/ ppc[p] = "write" /\ pbefore'[p] = pbefore[p]
      BY DEF PauseWrites
    <2> QED BY <2>1, <2>2, <2>3, OrderlyFrame
  <1> QED BY <1>1, <1>2 DEF TrailInv

\* Every step keeps the stamps in the past and every uncontested trail in order.
LEMMA TrailStep == GovernanceTypeOK /\ TrailInv /\ [GovernanceNext]_governanceVars => TrailInv'
  <1> SUFFICES ASSUME GovernanceTypeOK, TrailInv, [GovernanceNext]_governanceVars PROVE TrailInv'
    OBVIOUS
  <1> USE DEF breakerVars, clockVars, resumeVars, pauseVars
  <1>1. ASSUME NEW r \in ResumeCalls, ResumeStamp(r) PROVE TrailInv'
    <2>1. /\ rpc[r] = "stamp" /\ rpc'[r] = "read" /\ rat'[r] = clock' /\ rorg'[r] = rorg[r]
          /\ \A s \in ResumeCalls : s # r => /\ rpc'[s] = rpc[s]
                                             /\ rat'[s] = rat[s]
          /\ UNCHANGED <<breaker, audit, rorg, rbefore, ppc, porg, pat, pbefore>>
          /\ Stamp(rorg[r])
      BY <1>1 DEF ResumeStamp, Stamp, GovernanceTypeOK, CallTypeOK
    <2>2. clock \in Nat /\ clock' = clock + 1 /\ contested \subseteq contested'
      BY <2>1, StampTypes DEF Stamp
    <2>3. StampsPast'
      <3>1. \A i \in DOMAIN audit : audit[i].at \in Nat
        BY StampTypes
      <3> QED BY <2>1, <2>2, <3>1, StampTypes DEF TrailInv, StampsPast
    <2>4. ASSUME NEW o \in Orgs \ contested' PROVE Orderly(o)'
      <3>1. Orderly(o)
        BY <2>2, <2>4 DEF TrailInv
      <3>2. Trail(o)' = Trail(o) /\ TellsState(o)'
        BY <2>1, <3>1 DEF Orderly, Trail, TellsState, Newest, Oldest, Follows
      <3>3. CASE o = rorg[r]
        <4>1. /\ \A p \in PauseCalls : ~PauseWrites(p, o)
              /\ \A s \in ResumeCalls : ~ResumeWrites(s, o)
          BY <2>1, <2>4, <3>3, StampAlone
        <4>2. /\ \A p \in PauseCalls : ~PauseWrites(p, o)'
              /\ \A s \in ResumeCalls : ResumeWrites(s, o)' => s = r
          BY <2>1, <4>1 DEF PauseWrites, ResumeWrites
        <4>3. \A i \in Trail(o) : audit[i].at < clock'
          <5>1. \A i \in Trail(o) : audit[i].at \in Nat /\ audit[i].at <= clock
            BY StampTypes DEF Trail, TrailInv, StampsPast
          <5> QED BY <2>2, <5>1
        <4>4. Alone(o)' /\ PauseLater(o)'
          BY <4>2 DEF Alone, PauseLater
        <4>5. ResumeLater(o)'
          BY <2>1, <3>2, <4>2, <4>3 DEF ResumeLater
        <4> QED BY <3>2, <4>4, <4>5 DEF Orderly
      <3>4. CASE o # rorg[r]
        <4>1. \A s \in ResumeCalls : ResumeWrites(s, o)' =>
                   /\ ResumeWrites(s, o)
                   /\ rat'[s] = rat[s]
                   /\ rpc'[s] = "write" => rpc[s] = "write" /\ rbefore'[s] = rbefore[s]
          BY <2>1, <3>4 DEF ResumeWrites
        <4>2. \A p \in PauseCalls : PauseWrites(p, o)' =>
                   /\ PauseWrites(p, o)
                   /\ pat'[p] = pat[p]
                   /\ ppc'[p] = "write" => ppc[p] = "write" /\ pbefore'[p] = pbefore[p]
          BY <2>1 DEF PauseWrites
        <4> QED BY <2>1, <3>1, <4>1, <4>2, OrderlyFrame
      <3> QED BY <3>3, <3>4
    <2> QED BY <2>3, <2>4 DEF TrailInv
  <1>2. ASSUME NEW p \in PauseCalls, NEW a \in Orgs, PauseStart(p, a) PROVE TrailInv'
    <2>1. /\ ppc[p] = "idle" /\ ppc'[p] = "read" /\ pat'[p] = clock' /\ porg'[p] = a
          /\ \A q \in PauseCalls : q # p => /\ ppc'[q] = ppc[q]
                                            /\ porg'[q] = porg[q]
                                            /\ pat'[q] = pat[q]
          /\ UNCHANGED <<breaker, audit, rpc, rorg, rat, rbefore, pbefore>>
          /\ Stamp(a)
      BY <1>2 DEF PauseStart, Stamp, GovernanceTypeOK, CallTypeOK
    <2>2. clock \in Nat /\ clock' = clock + 1 /\ contested \subseteq contested'
      BY <2>1, StampTypes DEF Stamp
    <2>3. StampsPast'
      <3>1. \A i \in DOMAIN audit : audit[i].at \in Nat
        BY StampTypes
      <3> QED BY <2>1, <2>2, <3>1, StampTypes DEF TrailInv, StampsPast
    <2>4. ASSUME NEW o \in Orgs \ contested' PROVE Orderly(o)'
      <3>1. Orderly(o)
        BY <2>2, <2>4 DEF TrailInv
      <3>2. Trail(o)' = Trail(o) /\ TellsState(o)'
        BY <2>1, <3>1 DEF Orderly, Trail, TellsState, Newest, Oldest, Follows
      <3>3. CASE o = a
        <4>1. /\ \A q \in PauseCalls : ~PauseWrites(q, o)
              /\ \A s \in ResumeCalls : ~ResumeWrites(s, o)
          BY <2>1, <2>4, <3>3, StampAlone
        <4>2. /\ \A s \in ResumeCalls : ~ResumeWrites(s, o)'
              /\ \A q \in PauseCalls : PauseWrites(q, o)' => q = p
          BY <2>1, <4>1 DEF PauseWrites, ResumeWrites
        <4>3. \A i \in Trail(o) : audit[i].at < clock'
          <5>1. \A i \in Trail(o) : audit[i].at \in Nat /\ audit[i].at <= clock
            BY StampTypes DEF Trail, TrailInv, StampsPast
          <5> QED BY <2>2, <5>1
        <4>4. Alone(o)' /\ ResumeLater(o)'
          BY <4>2 DEF Alone, ResumeLater
        <4>5. PauseLater(o)'
          BY <2>1, <3>2, <4>2, <4>3 DEF PauseLater
        <4> QED BY <3>2, <4>4, <4>5 DEF Orderly
      <3>4. CASE o # a
        <4>1. \A s \in ResumeCalls : ResumeWrites(s, o)' =>
                   /\ ResumeWrites(s, o)
                   /\ rat'[s] = rat[s]
                   /\ rpc'[s] = "write" => rpc[s] = "write" /\ rbefore'[s] = rbefore[s]
          BY <2>1 DEF ResumeWrites
        <4>2. \A q \in PauseCalls : PauseWrites(q, o)' =>
                   /\ PauseWrites(q, o)
                   /\ pat'[q] = pat[q]
                   /\ ppc'[q] = "write" => ppc[q] = "write" /\ pbefore'[q] = pbefore[q]
          BY <2>1, <3>4 DEF PauseWrites
        <4> QED BY <2>1, <3>1, <4>1, <4>2, OrderlyFrame
      <3> QED BY <3>3, <3>4
    <2> QED BY <2>3, <2>4 DEF TrailInv
  <1>3. ASSUME NEW r \in ResumeCalls, ResumeWrite(r) PROVE TrailInv'
    <2> DEFINE rec == Record(rorg[r], rquorum[r], rat[r], rbefore[r], "NORMAL")
    <2>1. rec \in Records
      BY <1>3, RecordType DEF ResumeWrite, GovernanceTypeOK, CallTypeOK, States
    <2>2. /\ rec.org = rorg[r] /\ rec.at = rat[r] /\ rec.before = rbefore[r]
          /\ rec.after = "NORMAL"
      BY DEF Record
    <2>3. /\ rpc[r] = "write" /\ rpc'[r] = "idle" /\ rat'[r] = 0
          /\ \A s \in ResumeCalls : s # r => /\ rpc'[s] = rpc[s]
                                             /\ rorg'[s] = rorg[s]
                                             /\ rat'[s] = rat[s]
                                             /\ rbefore'[s] = rbefore[s]
          /\ audit' = Append(audit, rec)
          /\ breaker' = [breaker EXCEPT ![rorg[r]] = "NORMAL"]
          /\ UNCHANGED <<clock, contested, ppc, porg, pat, pbefore>>
      BY <1>3 DEF ResumeWrite, ResumeReturn, GovernanceTypeOK, CallTypeOK
    <2> HIDE DEF rec
    <2>4. StampsPast'
      <3>1. /\ rat[r] <= clock
            /\ \A s \in ResumeCalls : rat'[s] \in {0, rat[s]}
            /\ \A p \in PauseCalls : pat'[p] \in {0, pat[p]}
        BY <2>3 DEF TrailInv, StampsPast
      <3> QED BY <2>1, <2>2, <2>3, <3>1, StampsCommit DEF TrailInv
    <2>5. ASSUME NEW o \in Orgs \ contested' PROVE Orderly(o)'
      <3>1. Orderly(o)
        BY <2>3, <2>5 DEF TrailInv
      <3>2. rec.org = o => ResumeWrites(r, o)
        BY <2>2, <2>3 DEF ResumeWrites
      <3>3. rec.org = o => /\ rec.before = breaker[o]
                           /\ \A i \in Trail(o) : audit[i].at < rec.at
                           /\ \A p \in PauseCalls : ~PauseWrites(p, o)
                           /\ \A s \in ResumeCalls : s # r => ~ResumeWrites(s, o)
        BY <2>2, <2>3, <3>1, <3>2 DEF Orderly, Alone, ResumeLater
      <3>4. /\ \A p \in PauseCalls : PauseWrites(p, o)' =>
                   /\ PauseWrites(p, o)
                   /\ UNCHANGED <<pat[p], ppc[p], pbefore[p]>>
            /\ \A s \in ResumeCalls : ResumeWrites(s, o)' =>
                   /\ s # r
                   /\ ResumeWrites(s, o)
                   /\ UNCHANGED <<rat[s], rpc[s], rbefore[s]>>
        BY <2>3 DEF PauseWrites, ResumeWrites
      <3>5. breaker' = [breaker EXCEPT ![rec.org] = rec.after]
        BY <2>2, <2>3
      <3> QED BY <2>1, <2>3, <3>1, <3>3, <3>4, <3>5, OrderlyCommit
    <2> QED BY <2>4, <2>5 DEF TrailInv
  <1>4. ASSUME NEW p \in PauseCalls, PauseWrite(p) PROVE TrailInv'
    <2> DEFINE rec == Record(porg[p], {}, pat[p], pbefore[p], "PAUSED")
    <2>1. rec \in Records
      BY <1>4, RecordType DEF PauseWrite, GovernanceTypeOK, CallTypeOK, States
    <2>2. /\ rec.org = porg[p] /\ rec.at = pat[p] /\ rec.before = pbefore[p]
          /\ rec.after = "PAUSED"
      BY DEF Record
    <2>3. /\ ppc[p] = "write" /\ ppc'[p] = "idle" /\ pat'[p] = 0
          /\ \A q \in PauseCalls : q # p => /\ ppc'[q] = ppc[q]
                                            /\ porg'[q] = porg[q]
                                            /\ pat'[q] = pat[q]
                                            /\ pbefore'[q] = pbefore[q]
          /\ audit' = Append(audit, rec)
          /\ breaker' = [breaker EXCEPT ![porg[p]] = "PAUSED"]
          /\ UNCHANGED <<clock, contested, rpc, rorg, rat, rbefore>>
      BY <1>4 DEF PauseWrite, PauseReturn, GovernanceTypeOK, CallTypeOK
    <2> HIDE DEF rec
    <2>4. StampsPast'
      <3>1. /\ pat[p] <= clock
            /\ \A s \in ResumeCalls : rat'[s] \in {0, rat[s]}
            /\ \A q \in PauseCalls : pat'[q] \in {0, pat[q]}
        BY <2>3 DEF TrailInv, StampsPast
      <3> QED BY <2>1, <2>2, <2>3, <3>1, StampsCommit DEF TrailInv
    <2>5. ASSUME NEW o \in Orgs \ contested' PROVE Orderly(o)'
      <3>1. Orderly(o)
        BY <2>3, <2>5 DEF TrailInv
      <3>2. rec.org = o => PauseWrites(p, o)
        BY <2>2, <2>3 DEF PauseWrites
      <3>3. rec.org = o => /\ rec.before = breaker[o]
                           /\ \A i \in Trail(o) : audit[i].at < rec.at
                           /\ \A q \in PauseCalls : q # p => ~PauseWrites(q, o)
                           /\ \A s \in ResumeCalls : ~ResumeWrites(s, o)
        BY <2>2, <2>3, <3>1, <3>2 DEF Orderly, Alone, PauseLater
      <3>4. /\ \A q \in PauseCalls : PauseWrites(q, o)' =>
                   /\ q # p
                   /\ PauseWrites(q, o)
                   /\ UNCHANGED <<pat[q], ppc[q], pbefore[q]>>
            /\ \A s \in ResumeCalls : ResumeWrites(s, o)' =>
                   /\ ResumeWrites(s, o)
                   /\ UNCHANGED <<rat[s], rpc[s], rbefore[s]>>
        BY <2>3 DEF PauseWrites, ResumeWrites
      <3>5. breaker' = [breaker EXCEPT ![rec.org] = rec.after]
        BY <2>2, <2>3
      <3> QED BY <2>1, <2>3, <3>1, <3>3, <3>4, <3>5, OrderlyCommit
    <2> QED BY <2>4, <2>5 DEF TrailInv
  <1>5. ASSUME NEW p \in PauseCalls, PauseRead(p) PROVE TrailInv'
    <2>1. /\ ppc'[p] = "write" /\ pbefore'[p] = breaker[porg[p]]
          /\ \A q \in PauseCalls : q # p => ppc'[q] = ppc[q] /\ pbefore'[q] = pbefore[q]
          /\ ppc[p] = "read"
          /\ UNCHANGED <<breaker, audit, clock, contested, rpc, rorg, rat, rbefore, porg, pat>>
      BY <1>5 DEF PauseRead, GovernanceTypeOK, CallTypeOK
    <2>2. StampsPast'
      BY <2>1 DEF TrailInv, StampsPast
    <2>3. ASSUME NEW o \in Orgs \ contested' PROVE Orderly(o)'
      <3>1. Orderly(o)
        BY <2>1, <2>3 DEF TrailInv
      <3>2. \A s \in ResumeCalls : ResumeWrites(s, o)' =>
                 /\ ResumeWrites(s, o)
                 /\ rat'[s] = rat[s]
                 /\ rpc'[s] = "write" => rpc[s] = "write" /\ rbefore'[s] = rbefore[s]
        BY <2>1 DEF ResumeWrites
      <3>3. \A q \in PauseCalls : PauseWrites(q, o)' =>
                 /\ PauseWrites(q, o)
                 /\ pat'[q] = pat[q]
                 /\ ppc'[q] = "write" => \/ pbefore'[q] = breaker[o]
                                         \/ ppc[q] = "write" /\ pbefore'[q] = pbefore[q]
        BY <2>1 DEF PauseWrites
      <3> QED BY <2>1, <3>1, <3>2, <3>3, OrderlyFrame
    <2> QED BY <2>2, <2>3 DEF TrailInv
  <1>6. ASSUME NEW r \in ResumeCalls, ResumeRead(r) PROVE TrailInv'
    BY <1>6, QuietKeepsOrder DEF ResumeRead, GovernanceTypeOK, CallTypeOK
  <1>7. ASSUME NEW r \in ResumeCalls, ResumeReturn(r),
               UNCHANGED <<breaker, audit, clock, contested, ppc, porg, pat, pbefore>>
        PROVE  TrailInv'
    BY <1>7, QuietKeepsOrder DEF ResumeReturn, GovernanceTypeOK, CallTypeOK
  <1>8. ASSUME NEW r \in ResumeCalls,
               ResumeVerify(r) \/ ResumeConsume(r) \/ \E o \in Orgs : \E q \in Quorums[o] : ResumeStart(r, o, q)
        PROVE  TrailInv'
    <2>1. /\ UNCHANGED <<breaker, audit, clock, contested, ppc, porg, pat, pbefore, rat, rbefore>>
          /\ rpc'[r] \notin {"read", "write"}
          /\ \A s \in ResumeCalls : s # r => rpc'[s] = rpc[s] /\ rorg'[s] = rorg[s]
      BY <1>8 DEF ResumeVerify, ResumeConsume, ResumeStart, GovernanceTypeOK, CallTypeOK
    <2> QED BY <2>1, QuietKeepsOrder
  <1>9. ASSUME UNCHANGED <<breaker, audit, clock, contested, rpc, rorg, rat, rbefore, ppc, porg, pat, pbefore>>
        PROVE  TrailInv'
    BY <1>9, QuietKeepsOrder
  <1> QED
    BY <1>1, <1>2, <1>3, <1>4, <1>5, <1>6, <1>7, <1>8, <1>9
       DEF GovernanceNext, governanceVars, CreateApproval, Expire, ResumeRejected, ResumeCrash, Issue,
           CheckApproval, ConsumeApproval

\* The initial state satisfies the invariant of the trail.
LEMMA TrailInit == GovernanceInit => TrailInv
  BY DEF GovernanceInit, TrailInv, StampsPast, Orderly, Alone, PauseLater, ResumeLater, TellsState,
         PauseWrites, ResumeWrites, Trail, Newest, Oldest, Follows

\* Whatever calls die and whatever approvals they spend, the newest record by
\* created_at tells the state of an organisation that no two calls wrote about at
\* once, and the records follow one from another.
THEOREM AuditTrailTellsState == GovernanceSpec => []TrailTellsState
  <1>1. TrailInv => TrailTellsState
    BY DEF TrailInv, Orderly, TrailTellsState
  <1> QED BY <1>1, TrailInit, TrailStep, GovernanceTypeInvariant, PTL DEF GovernanceSpec

(***************************************************************************)
(* The quorum.  A call holds a quorum of its organisation to its end; what  *)
(* it and the records spend is consumed; and the resumptions of an approval *)
(* together with the calls that have found it unconsumed are no more than   *)
(* the calls there are: none of them found it so after another's commit.    *)
(***************************************************************************)

HoldsQuorum ==
    \A r \in ResumeCalls : rpc[r] # "idle" =>
        /\ rquorum[r] \in Quorums[rorg[r]]
        /\ rpc[r] # "verify" => rleft[r] = {}
        /\ rpc[r] \in {"stamp", "read", "write"} => rquorum[r] \subseteq consumed

RecordsConsumed == \A i \in DOMAIN audit : audit[i].quorum \subseteq consumed

\* Calls that found a unconsumed and have not returned.
Holders(a) == {r \in ResumeCalls : rpc[r] # "idle" /\ a \in rquorum[r] \ rleft[r]}

SpentByHolders ==
    \A a \in Approvals :
        Cardinality(Resumptions(a)) + Cardinality(Holders(a)) <= Cardinality(ResumeCalls)

QuorumInv == HoldsQuorum /\ RecordsConsumed /\ SpentByHolders

\* The sets that are counted are finite.
LEMMA CountTypes ==
    ASSUME GovernanceTypeOK, NEW a
    PROVE  /\ IsFiniteSet(Resumptions(a)) /\ Cardinality(Resumptions(a)) \in Nat
           /\ IsFiniteSet(Holders(a)) /\ Cardinality(Holders(a)) \in Nat
           /\ Cardinality(Holders(a)) <= Cardinality(ResumeCalls)
           /\ Cardinality(ResumeCalls) \in Nat
  <1>1. DOMAIN audit = 1 .. Len(audit) /\ Len(audit) \in Nat
    BY DEF GovernanceTypeOK, BreakerTypeOK
  <1>2. IsFiniteSet(DOMAIN audit)
    BY <1>1, FS_Interval
  <1>3. Resumptions(a) \subseteq DOMAIN audit /\ Holders(a) \subseteq ResumeCalls
    BY DEF Resumptions, Holders
  <1> QED BY <1>2, <1>3, FS_Subset, FS_CardinalityType, ConstantsOK DEF ConstantsOK

\* The same, after a step.
LEMMA CountTypesNext ==
    ASSUME GovernanceTypeOK', NEW a
    PROVE  /\ IsFiniteSet(Resumptions(a)') /\ Cardinality(Resumptions(a)') \in Nat
           /\ IsFiniteSet(Holders(a)') /\ Cardinality(Holders(a)') \in Nat
           /\ Cardinality(Holders(a)') <= Cardinality(ResumeCalls)
  <1>1. DOMAIN audit' = 1 .. Len(audit') /\ Len(audit') \in Nat
    BY DEF GovernanceTypeOK, BreakerTypeOK
  <1>2. IsFiniteSet(DOMAIN audit')
    BY <1>1, FS_Interval
  <1>3. Resumptions(a)' \subseteq DOMAIN audit' /\ Holders(a)' \subseteq ResumeCalls
    BY DEF Resumptions, Holders
  <1> QED BY <1>2, <1>3, FS_Subset, FS_CardinalityType, ConstantsOK DEF ConstantsOK

\* A record adds a resumption of each approval of its quorum.
LEMMA ResumptionsGrow ==
    ASSUME GovernanceTypeOK, NEW rec \in Records, audit' = Append(audit, rec), NEW a
    PROVE  Cardinality(Resumptions(a)') =
               IF a \in rec.quorum THEN Cardinality(Resumptions(a)) + 1 ELSE Cardinality(Resumptions(a))
  <1>1. PICK k :
          /\ k \notin DOMAIN audit
          /\ DOMAIN audit' = DOMAIN audit \cup {k}
          /\ audit'[k] = rec
          /\ \A i \in DOMAIN audit : audit'[i] = audit[i]
    BY TrailAppends DEF GovernanceTypeOK, BreakerTypeOK
  <1>2. CASE a \in rec.quorum
    <2>1. Resumptions(a)' = Resumptions(a) \cup {k} /\ k \notin Resumptions(a)
      BY <1>1, <1>2 DEF Resumptions
    <2> QED BY <1>2, <2>1, CountTypes, FS_AddElement
  <1>3. CASE a \notin rec.quorum
    <2>1. Resumptions(a)' = Resumptions(a)
      BY <1>1, <1>3 DEF Resumptions
    <2> QED BY <1>3, <2>1
  <1> QED BY <1>2, <1>3

\* Calls that return, die, read, or leave the quorums alone.
LEMMA QuorumQuiet ==
    ASSUME GovernanceTypeOK, GovernanceTypeOK', QuorumInv, audit' = audit, consumed \subseteq consumed',
           \A r \in ResumeCalls : rpc'[r] # "idle" =>
               /\ rpc[r] # "idle"
               /\ UNCHANGED <<rquorum[r], rorg[r], rleft[r]>>
               /\ rpc'[r] # "verify" => rpc[r] # "verify"
               /\ rpc'[r] \in {"stamp", "read", "write"} =>
                      \/ rpc[r] \in {"stamp", "read", "write"}
                      \/ rquorum[r] \subseteq consumed'
    PROVE  QuorumInv'
  <1>1. HoldsQuorum' /\ RecordsConsumed'
    BY DEF QuorumInv, HoldsQuorum, RecordsConsumed
  <1>2. ASSUME NEW a \in Approvals
        PROVE  Cardinality(Resumptions(a)') + Cardinality(Holders(a)') <= Cardinality(ResumeCalls)
    <2>1. Holders(a)' \subseteq Holders(a) /\ Resumptions(a)' = Resumptions(a)
      BY DEF Holders, Resumptions
    <2>2. Cardinality(Holders(a)') <= Cardinality(Holders(a))
      BY <2>1, CountTypes, FS_Subset
    <2> QED BY <2>1, <2>2, CountTypes, CountTypesNext DEF QuorumInv, SpentByHolders
  <1> QED BY <1>1, <1>2 DEF QuorumInv, SpentByHolders

\* Every step keeps the quorum invariant, however resumptions overlap.
LEMMA QuorumStep ==
    GovernanceTypeOK /\ GovernanceTypeOK' /\ QuorumInv /\ [GovernanceNext]_governanceVars => QuorumInv'
  <1> SUFFICES ASSUME GovernanceTypeOK, GovernanceTypeOK', QuorumInv, [GovernanceNext]_governanceVars
               PROVE  QuorumInv'
    OBVIOUS
  <1> USE DEF breakerVars, adminVars, resumeVars
  <1>1. ASSUME NEW r \in ResumeCalls, NEW o \in Orgs, NEW q \in Quorums[o], ResumeStart(r, o, q)
        PROVE  QuorumInv'
    <2>1. /\ rpc[r] = "idle" /\ rpc'[r] = "verify" /\ rorg'[r] = o /\ rquorum'[r] = q /\ rleft'[r] = q
          /\ \A s \in ResumeCalls : s # r => /\ rpc'[s] = rpc[s]
                                             /\ rorg'[s] = rorg[s]
                                             /\ rquorum'[s] = rquorum[s]
                                             /\ rleft'[s] = rleft[s]
          /\ UNCHANGED <<audit, consumed>>
      BY <1>1 DEF ResumeStart, GovernanceTypeOK, CallTypeOK
    <2>2. HoldsQuorum' /\ RecordsConsumed'
      BY <2>1 DEF QuorumInv, HoldsQuorum, RecordsConsumed
    <2>3. \A a : Holders(a)' = Holders(a) /\ Resumptions(a)' = Resumptions(a)
      BY <2>1 DEF Holders, Resumptions
    <2> QED BY <2>2, <2>3 DEF QuorumInv, SpentByHolders
  <1>2. ASSUME NEW r \in ResumeCalls, ResumeVerify(r) PROVE QuorumInv'
    <2>1. PICK b \in rleft[r] :
            /\ b \notin consumed
            /\ rleft' = [rleft EXCEPT ![r] = @ \ {b}]
            /\ rpc' = [rpc EXCEPT ![r] = IF rleft[r] = {b} THEN "consume" ELSE "verify"]
      BY <1>2 DEF ResumeVerify, Fresh
    <2>2. /\ rpc[r] = "verify" /\ rleft'[r] = rleft[r] \ {b}
          /\ rpc'[r] \in {"verify", "consume"}
          /\ rpc'[r] # "verify" => rleft'[r] = {}
          /\ \A s \in ResumeCalls : s # r => /\ rpc'[s] = rpc[s]
                                             /\ rleft'[s] = rleft[s]
          /\ UNCHANGED <<audit, consumed, rorg, rquorum>>
      BY <1>2, <2>1 DEF ResumeVerify, GovernanceTypeOK, CallTypeOK
    <2>3. HoldsQuorum' /\ RecordsConsumed'
      BY <2>2 DEF QuorumInv, HoldsQuorum, RecordsConsumed
    <2>4. ASSUME NEW a \in Approvals
          PROVE  Cardinality(Resumptions(a)') + Cardinality(Holders(a)') <= Cardinality(ResumeCalls)
      <3>1. Resumptions(a)' = Resumptions(a)
        BY <2>2 DEF Resumptions
      <3>2. CASE a = b
        <4>1. Resumptions(a) = {}
          BY <2>1, <3>2 DEF Resumptions, QuorumInv, RecordsConsumed
        <4>2. Cardinality(Resumptions(a)') = 0
          BY <3>1, <4>1, FS_EmptySet
        <4> QED BY <4>2, CountTypes, CountTypesNext
      <3>3. CASE a # b
        <4>1. Holders(a)' = Holders(a)
          BY <2>2, <3>3 DEF Holders
        <4> QED BY <3>1, <4>1 DEF QuorumInv, SpentByHolders
      <3> QED BY <3>2, <3>3
    <2> QED BY <2>3, <2>4 DEF QuorumInv, SpentByHolders
  <1>3. ASSUME NEW r \in ResumeCalls, ResumeReturn(r), UNCHANGED <<audit, consumed>> PROVE QuorumInv'
    <2>1. /\ rpc'[r] = "idle"
          /\ \A s \in ResumeCalls : s # r => /\ rpc'[s] = rpc[s]
                                             /\ rorg'[s] = rorg[s]
                                             /\ rquorum'[s] = rquorum[s]
                                             /\ rleft'[s] = rleft[s]
      BY <1>3 DEF ResumeReturn, GovernanceTypeOK, CallTypeOK
    <2> QED BY <1>3, <2>1, QuorumQuiet
  <1>4. ASSUME NEW r \in ResumeCalls, ResumeConsume(r) PROVE QuorumInv'
    <2>1. /\ rpc[r] = "consume" /\ rpc'[r] = "stamp"
          /\ consumed' = consumed \cup rquorum[r]
          /\ \A s \in ResumeCalls : s # r => rpc'[s] = rpc[s]
          /\ UNCHANGED <<audit, rorg, rquorum, rleft>>
      BY <1>4 DEF ResumeConsume, GovernanceTypeOK, CallTypeOK
    <2> QED BY <2>1, QuorumQuiet
  <1>5. ASSUME NEW r \in ResumeCalls, ResumeStamp(r) \/ ResumeRead(r) PROVE QuorumInv'
    <2>1. /\ rpc[r] \in {"stamp", "read"} /\ rpc'[r] \in {"read", "write"}
          /\ \A s \in ResumeCalls : s # r => rpc'[s] = rpc[s]
          /\ UNCHANGED <<audit, consumed, rorg, rquorum, rleft>>
      BY <1>5 DEF ResumeStamp, ResumeRead, GovernanceTypeOK, CallTypeOK
    <2> QED BY <2>1, QuorumQuiet
  <1>6. ASSUME NEW r \in ResumeCalls, ResumeWrite(r) PROVE QuorumInv'
    <2> DEFINE rec == Record(rorg[r], rquorum[r], rat[r], rbefore[r], "NORMAL")
    <2>1. rec \in Records /\ rec.quorum = rquorum[r]
      BY <1>6, RecordType DEF ResumeWrite, GovernanceTypeOK, CallTypeOK, States, Record
    <2>2. /\ rpc[r] = "write" /\ rpc'[r] = "idle"
          /\ \A s \in ResumeCalls : s # r => /\ rpc'[s] = rpc[s]
                                             /\ rorg'[s] = rorg[s]
                                             /\ rquorum'[s] = rquorum[s]
                                             /\ rleft'[s] = rleft[s]
          /\ audit' = Append(audit, rec)
          /\ UNCHANGED consumed
      BY <1>6 DEF ResumeWrite, ResumeReturn, GovernanceTypeOK, CallTypeOK
    <2> HIDE DEF rec
    <2>3. rquorum[r] \subseteq consumed /\ rleft[r] = {}
      BY <2>2 DEF QuorumInv, HoldsQuorum
    <2>4. HoldsQuorum'
      BY <2>2 DEF QuorumInv, HoldsQuorum
    <2>5. RecordsConsumed'
      BY <2>1, <2>2, <2>3, TrailAppends DEF QuorumInv, RecordsConsumed, GovernanceTypeOK, BreakerTypeOK
    <2>6. ASSUME NEW a \in Approvals
          PROVE  Cardinality(Resumptions(a)') + Cardinality(Holders(a)') <= Cardinality(ResumeCalls)
      <3>1. Holders(a)' = Holders(a) \ {r} /\ (a \in rquorum[r] => r \in Holders(a))
        BY <2>2, <2>3 DEF Holders
      <3>2. CASE a \in rquorum[r]
        <4>1. Cardinality(Holders(a)') = Cardinality(Holders(a)) - 1
          BY <3>1, <3>2, CountTypes, FS_RemoveElement
        <4>2. Cardinality(Resumptions(a)') = Cardinality(Resumptions(a)) + 1
          BY <2>1, <2>2, <3>2, ResumptionsGrow
        <4> QED BY <4>1, <4>2, CountTypes DEF QuorumInv, SpentByHolders
      <3>3. CASE a \notin rquorum[r]
        <4>1. Holders(a)' = Holders(a)
          BY <3>1, <3>3, <2>2 DEF Holders
        <4>2. Cardinality(Resumptions(a)') = Cardinality(Resumptions(a))
          BY <2>1, <2>2, <3>3, ResumptionsGrow
        <4> QED BY <4>1, <4>2 DEF QuorumInv, SpentByHolders
      <3> QED BY <3>2, <3>3
    <2> QED BY <2>4, <2>5, <2>6 DEF QuorumInv, SpentByHolders
  <1>7. ASSUME NEW p \in PauseCalls, PauseWrite(p) PROVE QuorumInv'
    <2> DEFINE rec == Record(porg[p], {}, pat[p], pbefore[p], "PAUSED")
    <2>1. rec \in Records /\ rec.quorum = {}
      BY <1>7, RecordType DEF PauseWrite, GovernanceTypeOK, CallTypeOK, States, Record
    <2>2. audit' = Append(audit, rec) /\ UNCHANGED <<consumed, rpc, rorg, rquorum, rleft>>
      BY <1>7 DEF PauseWrite
    <2> HIDE DEF rec
    <2>3. HoldsQuorum'
      BY <2>2 DEF QuorumInv, HoldsQuorum
    <2>4. RecordsConsumed'
      BY <2>1, <2>2, TrailAppends DEF QuorumInv, RecordsConsumed, GovernanceTypeOK, BreakerTypeOK
    <2>5. ASSUME NEW a \in Approvals
          PROVE  Cardinality(Resumptions(a)') + Cardinality(Holders(a)') <= Cardinality(ResumeCalls)
      <3>1. Holders(a)' = Holders(a)
        BY <2>2 DEF Holders
      <3>2. Cardinality(Resumptions(a)') = Cardinality(Resumptions(a))
        BY <2>1, <2>2, ResumptionsGrow
      <3> QED BY <3>1, <3>2 DEF QuorumInv, SpentByHolders
    <2> QED BY <2>3, <2>4, <2>5 DEF QuorumInv, SpentByHolders
  <1>8. ASSUME UNCHANGED <<audit, consumed, rpc, rorg, rquorum, rleft>> PROVE QuorumInv'
    BY <1>8, QuorumQuiet
  <1> QED
    BY <1>1, <1>2, <1>3, <1>4, <1>5, <1>6, <1>7, <1>8
       DEF GovernanceNext, governanceVars, CreateApproval, Expire, ResumeRejected, ResumeCrash, PauseStart,
           PauseRead, Issue, CheckApproval, ConsumeApproval

\* The initial state satisfies the quorum invariant.
LEMMA QuorumInit == GovernanceInit => QuorumInv
  <1> SUFFICES ASSUME GovernanceInit PROVE QuorumInv
    OBVIOUS
  <1>1. HoldsQuorum /\ RecordsConsumed
    BY DEF GovernanceInit, HoldsQuorum, RecordsConsumed
  <1>2. \A a : Resumptions(a) = {} /\ Holders(a) = {}
    BY DEF GovernanceInit, Resumptions, Holders
  <1>3. Cardinality({}) = 0 /\ Cardinality(ResumeCalls) \in Nat
    BY FS_EmptySet, FS_CardinalityType, ConstantsOK DEF ConstantsOK
  <1> QED BY <1>1, <1>2, <1>3 DEF QuorumInv, SpentByHolders

(***************************************************************************)
(* The breaker implements QuorumBreaker                                    *)
(***************************************************************************)

Spent == [a \in Approvals |-> Cardinality(Resumptions(a))]

\* A step of the breaker is a committed pause or a committed resumption.
LEMMA BreakerSteps ==
    [GovernanceNext]_governanceVars => \/ \E r \in ResumeCalls : ResumeWrite(r)
                                       \/ \E p \in PauseCalls : PauseWrite(p)
                                       \/ UNCHANGED breakerVars
  BY SMTT(30) DEF GovernanceNext, governanceVars, CreateApproval, Expire, ResumeStart, ResumeVerify,
         ResumeRejected, ResumeConsume, ResumeStamp, ResumeRead, ResumeCrash, PauseStart, PauseRead,
         Issue, CheckApproval, ConsumeApproval, breakerVars

\* Every step of the three files is a step of the promise or leaves it alone.
LEMMA PromiseStep ==
    GovernanceTypeOK /\ QuorumInv /\ [GovernanceNext]_governanceVars => [Promise!Next]_<<breaker, Spent>>
  <1> SUFFICES ASSUME GovernanceTypeOK, QuorumInv, [GovernanceNext]_governanceVars
               PROVE  Promise!Next \/ UNCHANGED <<breaker, Spent>>
    OBVIOUS
  <1>1. ASSUME NEW r \in ResumeCalls, ResumeWrite(r) PROVE Promise!Next
    <2> DEFINE rec == Record(rorg[r], rquorum[r], rat[r], rbefore[r], "NORMAL")
    <2>1. rec \in Records /\ rec.quorum = rquorum[r]
      BY <1>1, RecordType DEF ResumeWrite, GovernanceTypeOK, CallTypeOK, States, Record
    <2>2. audit' = Append(audit, rec) /\ breaker' = [breaker EXCEPT ![rorg[r]] = "NORMAL"]
      BY <1>1 DEF ResumeWrite
    <2> HIDE DEF rec
    <2>3. Spent' = [a \in Approvals |-> IF a \in rquorum[r] THEN Spent[a] + 1 ELSE Spent[a]]
      BY <2>1, <2>2, ResumptionsGrow DEF Spent
    <2>4. rorg[r] \in Orgs /\ rquorum[r] \in Quorums[rorg[r]] /\ rleft[r] = {}
      BY <1>1 DEF ResumeWrite, QuorumInv, HoldsQuorum, GovernanceTypeOK, CallTypeOK
    <2>5. rquorum[r] \subseteq Approvals
      BY DEF GovernanceTypeOK, CallTypeOK
    <2>6. ASSUME NEW a \in rquorum[r] PROVE Spent[a] < Cardinality(ResumeCalls)
      <3>1. r \in Holders(a) /\ a \in Approvals
        BY <1>1, <2>4, <2>5 DEF ResumeWrite, Holders
      <3>2. Cardinality(Holders(a)) # 0
        BY <3>1, CountTypes, FS_EmptySet
      <3>3. Cardinality(Resumptions(a)) < Cardinality(ResumeCalls)
        BY <3>1, <3>2, CountTypes DEF QuorumInv, SpentByHolders
      <3> QED BY <3>1, <3>3 DEF Spent
    <2>7. Promise!Resume(rorg[r], rquorum[r])
      BY <2>2, <2>3, <2>6 DEF Promise!Resume, Spent
    <2> QED BY <2>4, <2>7 DEF Promise!Next
  <1>2. ASSUME NEW p \in PauseCalls, PauseWrite(p) PROVE Promise!Next
    <2> DEFINE rec == Record(porg[p], {}, pat[p], pbefore[p], "PAUSED")
    <2>1. rec \in Records /\ rec.quorum = {}
      BY <1>2, RecordType DEF PauseWrite, GovernanceTypeOK, CallTypeOK, States, Record
    <2>2. audit' = Append(audit, rec) /\ breaker' = [breaker EXCEPT ![porg[p]] = "PAUSED"]
      BY <1>2 DEF PauseWrite
    <2> HIDE DEF rec
    <2>3. Spent' = Spent
      BY <2>1, <2>2, ResumptionsGrow DEF Spent
    <2>4. porg[p] \in Orgs
      BY <1>2 DEF PauseWrite, GovernanceTypeOK, CallTypeOK
    <2>5. Promise!Pause(porg[p])
      BY <2>2, <2>3 DEF Promise!Pause, Spent
    <2> QED BY <2>4, <2>5 DEF Promise!Next
  <1>3. CASE UNCHANGED breakerVars
    BY <1>3 DEF breakerVars, Spent, Resumptions
  <1> QED BY <1>1, <1>2, <1>3, BreakerSteps

\* The breaker refines its promise, however resumptions and pauses overlap and
\* wherever a resumption dies.
THEOREM BreakerImplementsPromise == GovernanceSpec => ImplementsQuorumBreaker
  <1>1. GovernanceInit => Promise!Init
    <2> SUFFICES ASSUME GovernanceInit PROVE Promise!Init
      OBVIOUS
    <2>1. \A a : Resumptions(a) = {}
      BY DEF GovernanceInit, Resumptions
    <2> QED BY <2>1, FS_EmptySet DEF GovernanceInit, Promise!Init
  <1>2. GovernanceTypeOK /\ QuorumInv /\ [GovernanceNext]_governanceVars
          => [Promise!Next]_<<breaker, [a \in Approvals |-> Cardinality(Resumptions(a))]>>
    BY PromiseStep DEF Spent
  <1> QED BY <1>1, <1>2, QuorumInit, QuorumStep, GovernanceTypeInvariant, PTL
          DEF GovernanceSpec, ImplementsQuorumBreaker, Promise!Spec

-----------------------------------------------------------------------------
(***************************************************************************)
(* Missions: the inductive invariant                                       *)
(***************************************************************************)

Charging  == {"audit", "complete", "close"}
Executing == {"intelligence", "propose", "APPROVED", "REJECTED", "ESCALATE", "dispatch", "receipt",
              "audit"}

(* The copy of a mission, field by field. *)
Carried    == {NoProposal} \cup ProposalType
Everywhere == {"idle"} \cup Places \cup Ended

CopyType ==
    [pc : Everywhere, org : OrgStates, loaded : OrgStates,
     config : PolicyType, budget : Nat, funds : Nat, agents : [Roster -> AgentType],
     task : TaskType, assignee : SUBSET Roster, alloc : Nat, attempts : Nat, ceo : Nat,
     calls : Nat, prop : Carried]

MissionTypes ==
    /\ row \in OrgStates /\ agents \in [Roster -> AgentType] /\ perf \in [Roster -> Scores]
    /\ tasks \in [Missions -> TaskType]
    /\ treasury \in Nat /\ minted \in Nat
    /\ held \in [Missions -> Nat] /\ paid \in [Missions -> Nat]
    /\ operator \in [Operators -> {"idle", "pause", "resume"}]
    /\ receipts \subseteq Missions /\ overlap \subseteq Missions
    /\ policy \in Policies /\ corrupt \in BOOLEAN
    /\ mem \in [Missions -> CopyType]

(* What the place of a mission says of its copy: the state it carries, that   *)
(* it did not find the organisation stopped, and the decision it acts on.     *)
Decided(s) ==
    /\ s.prop.credits <= s.config.ceiling /\ s.prop.credits <= s.config.agentCeiling
    /\ s.prop.credits < s.config.threshold
    /\ s.prop.credits <= s.agents["CEO"].ceiling /\ AgentStatusRule(s)

CopyOK(s) ==
    /\ s.pc = "mint" => s.budget \in Budgets
    /\ s.pc \in {"mint", "start"} => s.org = s.loaded
    /\ s.pc \in Places \ {"mint", "start"} => s.loaded \notin Stopped
    /\ s.pc = "plan" => s.org = "PLANNING"
    /\ s.pc \in Executing => s.org = "EXECUTING"
    /\ s.pc = "complete" => s.org \in {"EXECUTING", "PAUSED"}
    /\ s.pc \in {"dispatch", "receipt", "audit"} => s.task = "APPROVED"
    /\ s.pc \in {"APPROVED", "dispatch"} => Decided(s)
    /\ s.pc = "dispatch" => s.prop.act \in ExecutorActs

CopiesOK == \A m \in Missions : CopyOK(mem[m])

(* Credits are in ESCROW during the external call, and spent from its answer  *)
(* on; the receipt follows.  An audit that passes leaves its task COMPLETED   *)
(* in the copy and in the row, and an ended mission has settled it.           *)
ReceiptOK(m) ==
    /\ mem[m].pc \notin {"dispatch", "cut"} => held[m] = 0
    /\ mem[m].pc = "dispatch" => held[m] = mem[m].prop.credits
    /\ mem[m].pc \notin {"receipt", "cut"} /\ m \notin receipts => paid[m] = 0
    /\ held[m] = 0 \/ (paid[m] = 0 /\ m \notin receipts)
    /\ m \in receipts => mem[m].pc \in Charging \cup Ended
    /\ mem[m].pc = "audit" => m \in receipts
    /\ m \in receipts /\ mem[m].pc \in {"complete", "close"} =>
           mem[m].task = "COMPLETED" /\ tasks[m] = "COMPLETED"
    /\ mem[m].task = "COMPLETED" \/ tasks[m] = "COMPLETED" => m \in receipts
    /\ m \in receipts /\ mem[m].pc \in Ended =>
           \/ tasks[m] = "COMPLETED"
           \/ tasks[m] = "FAILED" /\ corrupt
           \/ mem[m].pc = "cut"

ReceiptsOK == \A m \in Missions : ReceiptOK(m)

(* Missions that run together are known to; a mission that runs alone holds   *)
(* the stored standing of every agent, and mints into an empty treasury.      *)
SameStanding(a, b) ==
    a.status = b.status /\ a.ceiling = b.ceiling /\ a.viol = b.viol /\ a.bad = b.bad

AllSame(copies, others) == \A r \in Roster : SameStanding(copies[r], others[r])

WithinBudget(n) == \E b \in Budgets : n <= b

OverlapsKnown == \A m, k \in Live : m # k => m \in overlap
AloneCurrent  ==
    \A m \in Live \ overlap :
        /\ AllSame(mem[m].agents, agents)
        /\ mem[m].pc = "mint" => treasury = 0
        /\ overlap = {} /\ mem[m].pc = "dispatch" => WithinBudget(treasury + held[m])

(* The inductive invariant. *)
MissionInv ==
    /\ MissionTypes /\ CopiesOK /\ ReceiptsOK /\ OverlapsKnown /\ AloneCurrent /\ FundsAccounted

(* b is a later standing of the agent than a; every agent of later is one of  *)
(* the agent in earlier.                                                      *)
Remembers(a, b) ==
    /\ b.viol >= a.viol /\ b.bad >= a.bad
    /\ a.status = "RETIRED" => b.status = "RETIRED"

AllRemember(earlier, later) == \A r \in Roster : Remembers(earlier[r], later[r])

(* What a step of a mission does to what the others see: it changes its own   *)
(* copy, its own task and its own receipt; it writes agents that remember     *)
(* those of its copy and keeps the stored ones, or leaves both alone; and it  *)
(* writes a row only if it did not find the organisation stopped.             *)
Moves(m) ==
    /\ m \in Live /\ mem' = [mem EXCEPT ![m] = mem'[m]] /\ mem'[m] # mem[m]
    /\ mem'[m] \in CopyType /\ CopyOK(mem'[m]) /\ mem'[m].pc \notin {"idle", "mint"}

Writes(m) ==
    /\ row' \in OrgStates /\ agents' \in [Roster -> AgentType] /\ perf' \in [Roster -> Scores]
    /\ tasks' \in [Missions -> TaskType] /\ \A k \in Missions \ {m} : tasks'[k] = tasks[k]
    /\ \/ agents' = agents /\ (mem'[m].pc \notin Ended => mem'[m].agents = mem[m].agents)
       \/ /\ AllRemember(mem[m].agents, agents')
          /\ mem'[m].pc \notin Ended => AllSame(mem'[m].agents, agents')
    /\ row' # row => /\ mem[m].loaded \notin Stopped
                     /\ mem[m].org \in Stopped => row' \in Stopped

Accounts(m) ==
    /\ treasury' \in Nat /\ minted' \in Nat
    /\ held' \in [Missions -> Nat] /\ paid' \in [Missions -> Nat] /\ receipts' \subseteq Missions
    /\ \A k \in Missions \ {m} :
          held'[k] = held[k] /\ paid'[k] = paid[k] /\ (k \in receipts' <=> k \in receipts)
    /\ FundsAccounted' /\ ReceiptOK(m)'
    /\ overlap' = {} /\ mem'[m].pc = "dispatch" => WithinBudget(treasury' + held'[m])

Progress(m) ==
    Moves(m) /\ Writes(m) /\ Accounts(m) /\ UNCHANGED <<policy, corrupt, operator, overlap>>

(* What the copy it syncs says of the receipt of a mission. *)
Settles(m, s) ==
    /\ m \in receipts => s.pc \in Charging \cup Ended
    /\ s.pc = "audit" => m \in receipts
    /\ m \in receipts /\ s.pc \in {"complete", "close"} => s.task = "COMPLETED"
    /\ s.task = "COMPLETED" => m \in receipts
    /\ m \in receipts /\ s.pc \in Ended => s.task = "COMPLETED" \/ (s.task = "FAILED" /\ corrupt)

-----------------------------------------------------------------------------
(* Arithmetic. *)

(* The least of two numbers. *)
LEMMA MinOfTwo ==
  ASSUME NEW a \in Int, NEW b \in Int
  PROVE  Min({a, b}) = IF a <= b THEN a ELSE b
<1>1. \E x \in {a, b} : \A y \in {a, b} : x <= y
  OBVIOUS
<1>2. Min({a, b}) \in {a, b} /\ \A y \in {a, b} : Min({a, b}) <= y
  BY <1>1 DEF Min
<1> QED
  BY <1>2

(* The greatest of two numbers. *)
LEMMA MaxOfTwo ==
  ASSUME NEW a \in Int, NEW b \in Int
  PROVE  Max({a, b}) = IF a <= b THEN b ELSE a
<1>1. \E x \in {a, b} : \A y \in {a, b} : x >= y
  OBVIOUS
<1>2. Max({a, b}) \in {a, b} /\ \A y \in {a, b} : Max({a, b}) >= y
  BY <1>1 DEF Max
<1> QED
  BY <1>2

(* The least of four natural numbers is one. *)
LEMMA MinOfFour ==
  ASSUME NEW a \in Nat, NEW b \in Nat, NEW c \in Nat, NEW d \in Nat
  PROVE  Min({a, b, c, d}) \in Nat
<1>1. \E x \in {a, b, c, d} : \A y \in {a, b, c, d} : x <= y
  <2>1. \E x \in {a, b} : x <= a /\ x <= b
    OBVIOUS
  <2>2. \E x \in {c, d} : x <= c /\ x <= d
    OBVIOUS
  <2> QED
    BY <2>1, <2>2
<1>2. Min({a, b, c, d}) \in {a, b, c, d}
  BY <1>1 DEF Min
<1> QED
  BY <1>2

(* A quotient stays below a bound that its dividend keeps. *)
LEMMA QuotientBound ==
  ASSUME NEW n \in Nat, NEW d \in Nat, d # 0, NEW k \in Nat, n <= k * d
  PROVE  n \div d \in 0..k
<1> DEFINE q == n \div d
<1>1. q \in Nat /\ q * d <= n
  OBVIOUS
<1>2. ASSUME q > k PROVE FALSE
  <2>1. q - k \in Nat /\ q - k >= 1
    BY <1>1, <1>2
  <2>2. (q - k) * d >= d
    BY <2>1
  <2>3. (q - k) * d = q * d - k * d
    BY <1>1
  <2> QED
    BY <1>1, <2>2, <2>3
<1> QED
  BY <1>1, <1>2

(* A product grows with its factor. *)
LEMMA ProductMonotone ==
  ASSUME NEW c \in Nat, NEW n \in Nat, NEW d \in Nat, n <= d
  PROVE  c * n <= c * d /\ c * n \in Nat
<1>1. c * d - c * n = c * (d - n) /\ d - n \in Nat
  OBVIOUS
<1>2. c * (d - n) \in Nat /\ c * n \in Nat /\ c * d \in Nat
  BY <1>1
<1> QED
  BY <1>1, <1>2

-----------------------------------------------------------------------------
(* The standing of an agent. *)

(* The scales, as inequalities. *)
LEMMA ScaleOf ==
  /\ \A x : x \in Scores <=> x \in Nat /\ x <= 10000
  /\ \A x : x \in Points <=> x \in Nat /\ x <= 100
  /\ \A x : x \in Efficiencies <=> x \in Nat /\ x <= 200
<1>1. \A b \in Nat : \A x : x \in 0..b <=> x \in Nat /\ x <= b
  OBVIOUS
<1>2. Perfect \in Nat
  BY DEF Perfect
<1>3. \A x : x \in Scores <=> x \in Nat /\ x <= 10000
  <2>1. \A x : x \in Scores <=> x \in Nat /\ x <= Perfect
    BY <1>1, <1>2 DEF Scores
  <2>2. Perfect = 10000
    BY DEF Perfect
  <2> QED
    BY <2>1, <2>2
<1>4. \A x : x \in Points <=> x \in Nat /\ x <= 100
  BY DEF Points
<1>5. \A x : x \in Efficiencies <=> x \in Nat /\ x <= 200
  BY DEF Efficiencies
<1> QED
  BY <1>3, <1>4, <1>5

(* A compliance is on the scale of scores. *)
LEMMA ComplianceKeeps ==
  ASSUME NEW v \in Nat, NEW cost \in Nat
  PROVE  Compliance(v, cost) \in Scores
<1> DEFINE k == 10000 - cost * v
<1>1. k \in Int /\ k <= 10000
  <2>1. cost * v \in Nat
    OBVIOUS
  <2> QED
    BY <2>1
<1> HIDE DEF k
<1>2. Max({0, k}) = IF 0 <= k THEN k ELSE 0
  BY <1>1, MaxOfTwo
<1>3. Max({0, k}) \in Scores
  BY <1>1, <1>2, ScaleOf
<1> QED
  BY <1>3 DEF k, Compliance

(* A part of a score is a score. *)
LEMMA ProportionKeeps ==
  ASSUME NEW c \in Scores, NEW n \in Nat, NEW d \in Nat, n <= d, d # 0
  PROVE  Proportion(c, n, d) \in Scores
<1> DEFINE k == c * n
<1>0. c \in Nat /\ c <= 10000
  BY ScaleOf
<1>1. k \in Nat /\ k <= c * d
  BY <1>0, ProductMonotone
<1> HIDE DEF k
<1>2. k \div d \in 0..c
  BY <1>0, <1>1, QuotientBound
<1> DEFINE q == k \div d
<1>3. q \in Nat /\ q <= c
  BY <1>0, <1>2
<1> HIDE DEF q
<1>4. q \in Scores
  BY <1>0, <1>3, ScaleOf
<1> QED
  BY <1>4 DEF k, q, Proportion

(* Weighted means of scores are scores. *)
LEMMA Weighted ==
  ASSUME NEW p \in Scores, NEW q \in Scores, NEW e \in Scores, NEW c \in Scores
  PROVE  (35 * p + 25 * q + 20 * e + 20 * c) \div 100 \in Scores
<1>1. /\ p \in Nat /\ q \in Nat /\ e \in Nat /\ c \in Nat
      /\ p <= 10000 /\ q <= 10000 /\ e <= 10000 /\ c <= 10000
  BY ScaleOf
<1> DEFINE w == (35 * p + 25 * q + 20 * e + 20 * c) \div 100
<1>2. w \in Nat /\ w <= 10000
  BY <1>1
<1> HIDE DEF w
<1>3. w \in Scores
  BY <1>2, ScaleOf
<1> QED
  BY <1>3 DEF w

(* The composite score stays within its scale. *)
LEMMA CompositeScore ==
  ASSUME NEW ok \in Nat, NEW total \in Nat, ok <= total, total # 0, NEW comp \in Scores,
         NEW u \in Nat
  PROVE  Composite(ok, total, comp, u) \in Scores
<1> DEFINE p == Proportion(10000, ok, total)
           q == Proportion(comp, ok, total)
           e == Min({10000, 100 * u})
<1>1. e \in Scores
  <2> DEFINE n == 100 * u
  <2>1. n \in Nat
    OBVIOUS
  <2> HIDE DEF n
  <2>2. Min({10000, n}) = IF 10000 <= n THEN 10000 ELSE n
    BY <2>1, MinOfTwo
  <2>3. Min({10000, n}) \in Scores
    BY <2>1, <2>2, ScaleOf
  <2> QED
    BY <2>3 DEF n
<1>2. 10000 \in Scores
  BY ScaleOf
<1>3. p \in Scores /\ q \in Scores
  BY <1>2, ProportionKeeps
<1>4. Composite(ok, total, comp, u) = (35 * p + 25 * q + 20 * e + 20 * comp) \div 100
  BY DEF Composite
<1> HIDE DEF p, q, e
<1>5. (35 * p + 25 * q + 20 * e + 20 * comp) \div 100 \in Scores
  BY <1>1, <1>3, Weighted, Zenon
<1> QED
  BY <1>4, <1>5

(* An update of the metrics changes the score, within its scale. *)
LEMMA MetricsKeepType ==
  ASSUME NEW a \in AgentType
  PROVE  \E n \in Scores : UpdateMetrics(a) = [a EXCEPT !.score = n]
<1>1. a.ok \in Nat /\ a.bad \in Nat /\ a.viol \in Nat /\ a.eff \in Nat
  BY ScaleOf DEF AgentType
<1> DEFINE total == a.ok + a.bad
           comp  == Compliance(a.viol, 1000)
           score == IF total = 0 THEN 10000 ELSE Composite(a.ok, total, comp, a.eff)
<1>2. total \in Nat /\ a.ok <= total
  BY <1>1
<1>3. comp \in Scores
  <2> DEFINE cost == 1000
  <2>1. cost \in Nat
    OBVIOUS
  <2> HIDE DEF cost
  <2>2. Compliance(a.viol, cost) \in Scores
    BY <1>1, <2>1, ComplianceKeeps
  <2> QED
    BY <2>2 DEF cost
<1>4. UpdateMetrics(a) = [a EXCEPT !.score = score]
  BY DEF UpdateMetrics
<1> HIDE DEF total, comp
<1>5. 10000 \in Scores
  BY ScaleOf
<1>6. ASSUME total # 0 PROVE Composite(a.ok, total, comp, a.eff) \in Scores
  BY <1>1, <1>2, <1>3, <1>6, CompositeScore
<1>7. score \in Scores
  BY <1>5, <1>6
<1> HIDE DEF score
<1> QED
  BY <1>4, <1>7

(* A lifecycle step keeps the types and the record, and RETIRED is for ever. *)
LEMMA LifecycleKeeps ==
  ASSUME NEW a \in AgentType
  PROVE  LET b == EvaluateLifecycle(a) IN
         /\ b \in AgentType /\ b.viol = a.viol /\ b.bad = a.bad
         /\ a.status = "RETIRED" => b.status = "RETIRED"
<1> DEFINE status == Standing(a)
           b == EvaluateLifecycle(a)
<1>1. status \in Statuses /\ (a.status = "RETIRED" => status = "RETIRED")
  BY DEF Standing, Statuses, Demoted
<1> HIDE DEF status
<1>2. Ceiling(a, status) \in Nat
  <2>1. a.ceiling \in Nat
    BY DEF AgentType
  <2> QED
    BY <2>1, MinOfTwo, MaxOfTwo DEF Ceiling
<1>3. Permitted(a, status) \subseteq a.acts
  BY DEF Permitted
<1>4. b = [a EXCEPT !.status = status, !.ceiling = Ceiling(a, status), !.acts = Permitted(a, status)]
  BY DEF EvaluateLifecycle, status
<1> DEFINE c == Ceiling(a, status)
           acts == Permitted(a, status)
<1>5. c \in Nat /\ acts \subseteq UNION {Granted[r] : r \in Roster}
  BY <1>2, <1>3 DEF AgentType
<1> HIDE DEF c, acts
<1>6. [a EXCEPT !.status = status, !.ceiling = c, !.acts = acts] \in AgentType
  BY <1>1, <1>5 DEF AgentType
<1>7. b.viol = a.viol /\ b.bad = a.bad /\ b.status = status
  BY <1>4 DEF AgentType
<1> QED
  BY <1>1, <1>4, <1>6, <1>7 DEF c, acts

(* A re-evaluation of a record keeps its type and what it remembers. *)
LEMMA EvaluationKeeps ==
  ASSUME NEW a \in AgentType, NEW b \in AgentType, Remembers(a, b)
  PROVE  LET c == EvaluateLifecycle(UpdateMetrics(b)) IN c \in AgentType /\ Remembers(a, c)
<1>1. PICK n \in Scores : UpdateMetrics(b) = [b EXCEPT !.score = n]
  BY MetricsKeepType
<1> DEFINE d == [b EXCEPT !.score = n]
           c == EvaluateLifecycle(d)
<1>2. d \in AgentType /\ d.viol = b.viol /\ d.bad = b.bad /\ d.status = b.status
  BY DEF AgentType
<1> HIDE DEF d
<1>3. c \in AgentType /\ c.viol = b.viol /\ c.bad = b.bad
      /\ (b.status = "RETIRED" => c.status = "RETIRED")
  BY <1>2, LifecycleKeeps
<1> HIDE DEF c
<1>4. Remembers(a, c)
  BY <1>3 DEF Remembers
<1> QED
  BY <1>1, <1>3, <1>4 DEF c, d

(* The efficiency stays on its scale. *)
LEMMA EfficiencyKeeps ==
  ASSUME NEW a \in AgentType, NEW x \in Nat, NEW y \in Nat, NEW z \in Nat
  PROVE  Efficiency(a, x, y, z) \in Efficiencies
<1>1. a.eff \in Nat /\ a.eff <= 200
  <2>1. a.eff \in Efficiencies
    BY DEF AgentType
  <2> QED
    BY <2>1, ScaleOf
<1> DEFINE v == Max({10, z})
           u == Max({1, y})
           q == (x * v) \div u
           ratio == Min({200, q})
<1>2. v \in Nat /\ u \in Nat /\ u # 0
  BY MaxOfTwo
<1> HIDE DEF v, u
<1>3. x * v \in Nat
  BY <1>2
<1>4. q \in Nat
  BY <1>2, <1>3
<1> HIDE DEF q
<1>5. ratio \in Nat /\ ratio <= 200
  BY <1>4, MinOfTwo
<1> HIDE DEF ratio
<1> DEFINE e == (70 * a.eff + 30 * ratio) \div 100
<1>6. e \in Nat /\ e <= 200
  BY <1>1, <1>5
<1> HIDE DEF e
<1>7. e \in Efficiencies /\ a.eff \in Efficiencies
  BY <1>1, <1>6, ScaleOf
<1>8. Efficiency(a, x, y, z) = IF x > 0 THEN e ELSE a.eff
  BY DEF Efficiency, e, ratio, q, v, u
<1> QED
  BY <1>7, <1>8

(* A recorded success, failure or violation keeps the type of a record, its   *)
(* violations and failures, and its retirement.                               *)
LEMMA SuccessKeeps ==
  ASSUME NEW a \in AgentType, NEW x \in Nat, NEW y \in Nat, NEW z \in Nat
  PROVE  /\ RecordTaskSuccess(a, x, y, z) \in AgentType
         /\ Remembers(a, RecordTaskSuccess(a, x, y, z))
<1> DEFINE e == Efficiency(a, x, y, z)
           n == Min({100, a.rep + 3})
           i == a.ok + 1
           b == [a EXCEPT !.ok = i, !.streak = 0, !.rep = n, !.eff = e]
<1>1. e \in Efficiencies
  BY EfficiencyKeeps
<1>2. n \in Points
  <2>1. a.rep \in Points
    BY DEF AgentType
  <2> DEFINE k == a.rep + 3
  <2>2. k \in Nat
    BY <2>1, ScaleOf
  <2> HIDE DEF k
  <2>3. Min({100, k}) = IF 100 <= k THEN 100 ELSE k
    BY <2>2, MinOfTwo
  <2>4. Min({100, k}) \in Points
    BY <2>2, <2>3, ScaleOf
  <2> QED
    BY <2>4 DEF k
<1>3. RecordTaskSuccess(a, x, y, z) = EvaluateLifecycle(UpdateMetrics(b))
  BY DEF RecordTaskSuccess
<1> HIDE DEF e, n
<1>4. i \in Nat /\ a.viol \in Nat /\ a.bad \in Nat
  BY DEF AgentType
<1> HIDE DEF i
<1>5. b \in AgentType
  BY <1>1, <1>2, <1>4 DEF AgentType
<1>6. b.viol = a.viol /\ b.bad = a.bad /\ b.status = a.status
  BY DEF AgentType
<1>7. Remembers(a, b)
  BY <1>4, <1>6 DEF Remembers
<1> HIDE DEF b
<1> QED
  BY <1>3, <1>5, <1>7, EvaluationKeeps

(* The same of a failure. *)
LEMMA FailureKeeps ==
  ASSUME NEW a \in AgentType
  PROVE  RecordTaskFailure(a) \in AgentType /\ Remembers(a, RecordTaskFailure(a))
<1> DEFINE n == Max({0, a.rep - 5})
           i == a.bad + 1
           j == a.streak + 1
           b == [a EXCEPT !.bad = i, !.streak = j, !.rep = n]
<1>1. n \in Points
  <2>1. a.rep \in Points
    BY DEF AgentType
  <2> DEFINE k == a.rep - 5
  <2>2. k \in Int /\ k <= 100
    BY <2>1, ScaleOf
  <2> HIDE DEF k
  <2>3. Max({0, k}) = IF 0 <= k THEN k ELSE 0
    BY <2>2, MaxOfTwo
  <2>4. Max({0, k}) \in Points
    BY <2>2, <2>3, ScaleOf
  <2> QED
    BY <2>4 DEF k
<1>2. RecordTaskFailure(a) = EvaluateLifecycle(UpdateMetrics(b))
  BY DEF RecordTaskFailure
<1> HIDE DEF n
<1>3. i \in Nat /\ j \in Nat /\ i >= a.bad /\ a.viol \in Nat
  BY DEF AgentType
<1> HIDE DEF i, j
<1>4. b \in AgentType
  BY <1>1, <1>3 DEF AgentType
<1>5. b.bad = i /\ b.viol = a.viol /\ b.status = a.status
  BY DEF AgentType
<1>6. Remembers(a, b)
  BY <1>3, <1>5 DEF Remembers
<1> HIDE DEF b
<1> QED
  BY <1>2, <1>4, <1>6, EvaluationKeeps

(* And of a violation. *)
LEMMA ViolationKeeps ==
  ASSUME NEW a \in AgentType
  PROVE  RecordPolicyViolation(a) \in AgentType /\ Remembers(a, RecordPolicyViolation(a))
<1> DEFINE n == Max({0, a.rep - 10})
           i == a.viol + 1
           j == a.streak + 1
           b == [a EXCEPT !.viol = i, !.streak = j, !.rep = n]
<1>1. n \in Points
  <2>1. a.rep \in Points
    BY DEF AgentType
  <2> DEFINE k == a.rep - 10
  <2>2. k \in Int /\ k <= 100
    BY <2>1, ScaleOf
  <2> HIDE DEF k
  <2>3. Max({0, k}) = IF 0 <= k THEN k ELSE 0
    BY <2>2, MaxOfTwo
  <2>4. Max({0, k}) \in Points
    BY <2>2, <2>3, ScaleOf
  <2> QED
    BY <2>4 DEF k
<1>2. RecordPolicyViolation(a) = EvaluateLifecycle(UpdateMetrics(b))
  BY DEF RecordPolicyViolation
<1> HIDE DEF n
<1>3. i \in Nat /\ j \in Nat /\ i >= a.viol /\ a.bad \in Nat
  BY DEF AgentType
<1> HIDE DEF i, j
<1>4. b \in AgentType
  BY <1>1, <1>3 DEF AgentType
<1>5. b.viol = i /\ b.bad = a.bad /\ b.status = a.status
  BY DEF AgentType
<1>6. Remembers(a, b)
  BY <1>3, <1>5 DEF Remembers
<1> HIDE DEF b
<1> QED
  BY <1>2, <1>4, <1>6, EvaluationKeeps

-----------------------------------------------------------------------------
(* The agents of a mission. *)

(* The agents an organisation is created with are agents. *)
LEMMA RecruitsType == Recruits \in [Roster -> AgentType]
<1> SUFFICES ASSUME NEW r \in Roster PROVE NewAgent(Authority[r], Granted[r]) \in AgentType
  BY DEF Recruits
<1> DEFINE acts == Granted[r]
           c == Authority[r]
           all == SUBSET UNION {Granted[q] : q \in Roster}
<1>1. acts \in all /\ c \in Nat
  BY MissionAssumption
<1> DEFINE best == 10000
           full == 100
<1>2. full \in Points /\ best \in Scores /\ full \in Efficiencies /\ 0 \in Nat
  BY ScaleOf
<1>3. "ACTIVE" \in Statuses
  BY DEF Statuses
<1> DEFINE a == [status |-> "ACTIVE", rep |-> full, score |-> best, eff |-> full, streak |-> 0,
                 ok |-> 0, bad |-> 0, viol |-> 0, ceiling |-> c, acts |-> acts, credit |-> 0]
<1>4. NewAgent(c, acts) = a
  BY DEF NewAgent
<1> HIDE DEF acts, c, all, best, full
<1>5. a \in [status : Statuses, rep : Points, score : Scores, eff : Efficiencies, streak : Nat,
             ok : Nat, bad : Nat, viol : Nat, ceiling : Nat, acts : all, credit : Nat]
  BY <1>1, <1>2, <1>3
<1> HIDE DEF a
<1> QED
  BY <1>4, <1>5 DEF AgentType, acts, c, all

(* Writing the agents back keeps their types and their standing. *)
LEMMA SavingKeeps ==
  ASSUME NEW copies \in [Roster -> AgentType], agents \in [Roster -> AgentType], SaveAgents(copies)
  PROVE  agents' \in [Roster -> AgentType] /\ AllSame(copies, agents')
<1>1. agents' = [r \in Roster |-> [copies[r] EXCEPT !.acts = agents[r].acts]]
  BY DEF SaveAgents
<1>2. ASSUME NEW r \in Roster
      PROVE  /\ [copies[r] EXCEPT !.acts = agents[r].acts] \in AgentType
             /\ SameStanding(copies[r], [copies[r] EXCEPT !.acts = agents[r].acts])
  <2>1. copies[r] \in AgentType /\ agents[r] \in AgentType
    OBVIOUS
  <2> QED
    BY <2>1 DEF AgentType, SameStanding
<1> QED
  BY <1>1, <1>2 DEF AllSame

(* A change of the agents that a rule names, one by one, by records that keep *)
(* the type and remember.                                                     *)
LEMMA PiecewiseKeeps ==
  ASSUME NEW copies \in [Roster -> AgentType], NEW f,
         \A r \in Roster : f[r] \in AgentType /\ Remembers(copies[r], f[r]),
         NEW g, g = [r \in Roster |-> f[r]]
  PROVE  g \in [Roster -> AgentType] /\ AllRemember(copies, g)
BY DEF AllRemember

(* An agent remembers itself. *)
LEMMA RemembersItself == ASSUME NEW a \in AgentType PROVE Remembers(a, a)
BY DEF AgentType, Remembers

(* A rejection and a failure keep the agents. *)
LEMMA PenaltiesKeep ==
  ASSUME NEW s, s.agents \in [Roster -> AgentType]
  PROVE  /\ Violating(s) \in [Roster -> AgentType] /\ AllRemember(s.agents, Violating(s))
         /\ Failing(s) \in [Roster -> AgentType] /\ AllRemember(s.agents, Failing(s))
<1>1. ASSUME NEW r \in Roster
      PROVE  /\ s.agents[r] \in AgentType /\ Remembers(s.agents[r], s.agents[r])
             /\ RecordPolicyViolation(s.agents[r]) \in AgentType
             /\ Remembers(s.agents[r], RecordPolicyViolation(s.agents[r]))
             /\ RecordTaskFailure(s.agents[r]) \in AgentType
             /\ Remembers(s.agents[r], RecordTaskFailure(s.agents[r]))
  <2>1. s.agents[r] \in AgentType
    OBVIOUS
  <2> QED
    BY <2>1, RemembersItself, ViolationKeeps, FailureKeeps
<1> QED
  BY <1>1 DEF Violating, Failing, AllRemember

(* Remembering is transitive. *)
LEMMA RememberChain ==
  ASSUME NEW a \in [Roster -> AgentType], NEW b \in [Roster -> AgentType],
         NEW c \in [Roster -> AgentType], AllRemember(a, b), AllRemember(b, c)
  PROVE  AllRemember(a, c)
<1> SUFFICES ASSUME NEW r \in Roster PROVE Remembers(a[r], c[r])
  BY DEF AllRemember
<1>1. a[r] \in AgentType /\ b[r] \in AgentType /\ c[r] \in AgentType
  OBVIOUS
<1>2. a[r].viol \in Nat /\ b[r].viol \in Nat /\ c[r].viol \in Nat
      /\ a[r].bad \in Nat /\ b[r].bad \in Nat /\ c[r].bad \in Nat
  BY <1>1 DEF AgentType
<1>3. Remembers(a[r], b[r]) /\ Remembers(b[r], c[r])
  BY DEF AllRemember
<1> QED
  BY <1>2, <1>3 DEF Remembers

(* The same standing remembers, on either side. *)
LEMMA SameRemembers ==
  ASSUME NEW a \in [Roster -> AgentType], NEW b \in [Roster -> AgentType], AllSame(a, b)
  PROVE  AllRemember(a, b) /\ AllRemember(b, a)
<1> SUFFICES ASSUME NEW r \in Roster PROVE Remembers(a[r], b[r]) /\ Remembers(b[r], a[r])
  BY DEF AllRemember
<1>1. a[r] \in AgentType /\ b[r] \in AgentType
  OBVIOUS
<1>2. a[r].viol \in Nat /\ a[r].bad \in Nat
  BY <1>1 DEF AgentType
<1>3. SameStanding(a[r], b[r])
  BY DEF AllSame
<1> QED
  BY <1>2, <1>3 DEF Remembers, SameStanding

(* A performance score is on the scale of scores. *)
LEMMA RecordedScoreKeeps == ASSUME NEW a \in AgentType PROVE RecordedScore(a) \in Scores
<1> DEFINE total == a.ok + a.bad
           done == IF total = 0 THEN 10000 ELSE Proportion(10000, a.ok, total)
           cost == 2500
           comp == Compliance(a.viol, cost)
<1>1. a.ok \in Nat /\ a.bad \in Nat /\ a.viol \in Nat
  BY DEF AgentType
<1>2. total \in Nat /\ a.ok <= total
  BY <1>1
<1>3. cost \in Nat /\ 10000 \in Scores
  BY ScaleOf
<1>4. RecordedScore(a) = (35 * done + 45 * 10000 + 20 * comp) \div 100
  BY DEF RecordedScore
<1> HIDE DEF total, cost
<1>5. comp \in Scores
  BY <1>1, <1>3, ComplianceKeeps
<1>6. total # 0 => Proportion(10000, a.ok, total) \in Scores
  BY <1>1, <1>2, <1>3, ProportionKeeps
<1>7. done \in Scores
  BY <1>3, <1>6
<1> HIDE DEF done, comp
<1>8. done \in Nat /\ comp \in Nat /\ done <= 10000 /\ comp <= 10000
  BY <1>5, <1>7, ScaleOf
<1> DEFINE w == (35 * done + 45 * 10000 + 20 * comp) \div 100
<1>9. w \in Nat /\ w <= 10000
  BY <1>8
<1> HIDE DEF w
<1>10. w \in Scores
  BY <1>9, ScaleOf
<1> QED
  BY <1>4, <1>10 DEF w

(* Every agent weighs something. *)
LEMMA WeightPositive ==
  ASSUME NEW copies \in [Roster -> AgentType], perf \in [Roster -> Scores], NEW r \in Roster
  PROVE  Weight(copies, r) \in Nat /\ Weight(copies, r) >= 100
<1> DEFINE x == IF perf[r] = 0 THEN copies[r].score ELSE perf[r]
<1>1. copies[r] \in AgentType /\ perf[r] \in Scores
  OBVIOUS
<1>2. copies[r].score \in Scores
  BY <1>1 DEF AgentType
<1>3. x \in Scores
  BY <1>1, <1>2
<1>4. x \in Nat
  BY <1>3, ScaleOf
<1>5. Weight(copies, r) = IF copies[r].status = "RESTRICTED" THEN 500 ELSE Max({100, x})
  BY DEF Weight
<1> HIDE DEF x
<1>6. Max({100, x}) \in Nat /\ Max({100, x}) >= 100
  BY <1>4, MaxOfTwo
<1> QED
  BY <1>5, <1>6

(* An allocation changes nothing but credits. *)
LEMMA AllocationKeeps ==
  ASSUME NEW copies \in [Roster -> AgentType], perf \in [Roster -> Scores], NEW funds \in Nat
  PROVE  /\ Allocate(copies, funds) \in [Roster -> AgentType]
         /\ AllSame(copies, Allocate(copies, funds))
<1> DEFINE eligible == {r \in Roster : copies[r].status \notin Disabled}
           weights  == [r \in eligible |-> Weight(copies, r)]
           total    == SumFunction(weights)
           share(r) == Min({copies[r].ceiling, (Weight(copies, r) * funds) \div total})
           given    == [r \in Roster |-> IF r \in eligible THEN [copies[r] EXCEPT !.credit = share(r)]
                                         ELSE copies[r]]
<1>1. AllSame(copies, copies)
  BY DEF AllSame, SameStanding
<1>2. IsFiniteSet(eligible) /\ eligible \subseteq Roster
  BY MissionAssumption, FS_Subset
<1>3. Allocate(copies, funds) = IF eligible = {} \/ funds = 0 THEN copies ELSE given
  BY DEF Allocate
<1>4. ASSUME eligible # {} PROVE given \in [Roster -> AgentType] /\ AllSame(copies, given)
  <2>1. \A r \in eligible : Weight(copies, r) \in Nat /\ Weight(copies, r) >= 100
    BY <1>2, WeightPositive
  <2> HIDE DEF eligible
  <2>2. weights \in [eligible -> Nat] /\ \A r \in eligible : weights[r] >= 100
    BY <2>1
  <2> HIDE DEF weights
  <2>3. total \in Nat /\ \A r \in eligible : weights[r] <= total
    BY <1>2, <2>2, SumNat
  <2> HIDE DEF total
  <2>4. total \in Nat /\ total # 0
    <3>1. PICK r \in eligible : TRUE
      BY <1>4
    <3>2. weights[r] \in Nat /\ weights[r] >= 100 /\ weights[r] <= total
      BY <2>2, <2>3
    <3> QED
      BY <2>3, <3>2
  <2>5. ASSUME NEW r \in eligible PROVE share(r) \in Nat
    <3> DEFINE k == Weight(copies, r) * funds
               c == copies[r].ceiling
    <3>1. k \in Nat /\ c \in Nat
      <4>1. copies[r] \in AgentType /\ Weight(copies, r) \in Nat
        BY <1>2, <2>1
      <4> QED
        BY <4>1 DEF AgentType
    <3> HIDE DEF k, c
    <3> DEFINE q == k \div total
    <3>2. q \in Nat
      BY <2>4, <3>1
    <3> HIDE DEF q
    <3>3. Min({c, q}) \in Nat
      BY <3>1, <3>2, MinOfTwo
    <3> QED
      BY <3>3 DEF k, c, q
  <2> HIDE DEF share
  <2>6. ASSUME NEW r \in Roster
        PROVE  given[r] \in AgentType /\ SameStanding(copies[r], given[r])
    <3>1. copies[r] \in AgentType
      OBVIOUS
    <3>2. CASE r \in eligible
      <4>1. given[r] = [copies[r] EXCEPT !.credit = share(r)]
        BY <3>2
      <4> QED
        BY <2>5, <3>1, <3>2, <4>1 DEF AgentType, SameStanding
    <3>3. CASE r \notin eligible
      BY <3>1, <3>3 DEF SameStanding
    <3> QED
      BY <3>2, <3>3
  <2> HIDE DEF given
  <2>7. given = [r \in Roster |-> given[r]]
    BY DEF given
  <2> QED
    BY <2>6, <2>7 DEF AllSame
<1> QED
  BY <1>1, <1>3, <1>4

(* The credits of a task are a natural number. *)
LEMMA CreditsKeep ==
  ASSUME NEW a \in AgentType, NEW requested \in Nat, NEW available \in Nat
  PROVE  CreditAllocation(a, requested, available) \in Nat
<1> DEFINE c == a.ceiling
           n == a.credit
           base == IF requested > 0 THEN requested ELSE Min({c, 20})
           tier == IF a.status = "ACTIVE"
                   THEN IF a.rep >= 85 THEN c ELSE Max({5, (4 * c) \div 5})
                   ELSE IF a.status = "PROBATION" THEN Min({10, c}) ELSE 5
<1>1. c \in Nat /\ n \in Nat
  BY DEF AgentType
<1>2. CreditAllocation(a, requested, available)
        = IF available = 0 THEN 0 ELSE Min({base, tier, available, n})
  BY DEF CreditAllocation
<1> HIDE DEF c, n
<1>3. base \in Nat
  BY <1>1, MinOfTwo
<1>4. tier \in Nat
  <2> DEFINE q == (4 * c) \div 5
  <2>1. q \in Nat
    BY <1>1
  <2> HIDE DEF q
  <2>2. Max({5, q}) \in Nat /\ Min({10, c}) \in Nat
    BY <1>1, <2>1, MinOfTwo, MaxOfTwo
  <2> QED
    BY <1>1, <2>2 DEF q
<1> HIDE DEF base, tier
<1>5. Min({base, tier, available, n}) \in Nat
  BY <1>1, <1>3, <1>4, MinOfFour
<1> QED
  BY <1>2, <1>5

(* A replanned proposal is a proposal. *)
LEMMA CappedKeeps ==
  ASSUME NEW s, s.alloc \in Nat, NEW p \in ProposalType
  PROVE  Capped(s, p) \in ProposalType
<1> DEFINE c == Min({p.credits, s.alloc})
<1>1. p.credits \in Nat
  BY DEF ProposalType
<1>2. c \in Nat
  BY <1>1, MinOfTwo
<1>3. Capped(s, p) = IF s.alloc > 0 THEN [p EXCEPT !.credits = c] ELSE p
  BY DEF Capped
<1> HIDE DEF c
<1> QED
  BY <1>2, <1>3 DEF ProposalType

-----------------------------------------------------------------------------
(* The steps of a mission. *)

(* Missions are finitely many. *)
LEMMA MissionsFinite == IsFiniteSet(Missions)
BY MissionAssumption, FS_Interval DEF Missions

(* A mission that is live has a place, and one that has ended has not. *)
LEMMA PlacesOf ==
  /\ \A x : x \in Everywhere <=> x = "idle" \/ x \in Places \/ x \in Ended
  /\ \A x \in Places : x \notin Ended /\ x # "idle"
  /\ \A x \in Ended : x \notin Places /\ x # "idle"
  /\ Charging \subseteq Places
BY DEF Everywhere, Places, Ended, Charging

(* The live missions after a step of one of them. *)
LEMMA LiveAfter ==
  ASSUME NEW m, mem \in [Missions -> CopyType], Moves(m)
  PROVE  /\ Live' = IF mem'[m].pc \in Ended THEN Live \ {m} ELSE Live
         /\ m \in Missions /\ \A k \in Missions \ {m} : mem'[k] = mem[k]
         /\ mem' \in [Missions -> CopyType]
<1>1. m \in Missions /\ mem[m].pc \notin Ended \cup {"idle"}
  BY DEF Moves, Live
<1>2. \A k \in Missions \ {m} : mem'[k] = mem[k]
  BY DEF Moves
<1>3. mem'[m].pc # "idle"
  BY DEF Moves
<1>4. Live' = {k \in Missions : mem'[k].pc \notin Ended \cup {"idle"}}
  BY DEF Live, Missions, Ended
<1>5. mem' \in [Missions -> CopyType]
  BY <1>1 DEF Moves
<1> QED
  BY <1>1, <1>2, <1>3, <1>4, <1>5 DEF Live

(* Progress of one mission keeps the invariant. *)
LEMMA ProgressKeeps ==
  ASSUME NEW m, MissionInv, Progress(m)
  PROVE  MissionInv'
<1>1. mem \in [Missions -> CopyType] /\ Moves(m) /\ m \in Live /\ m \in Missions
  BY DEF MissionInv, MissionTypes, Progress, Moves, Live
<1>2. /\ Live' = IF mem'[m].pc \in Ended THEN Live \ {m} ELSE Live
      /\ \A k \in Missions \ {m} : mem'[k] = mem[k]
      /\ mem' \in [Missions -> CopyType]
  BY <1>1, LiveAfter
<1>3. policy' = policy /\ corrupt' = corrupt
      /\ operator' = operator /\ overlap' = overlap
  BY DEF Progress
<1>4. MissionTypes'
  BY <1>2, <1>3 DEF MissionInv, MissionTypes, Progress, Writes, Accounts, Missions
<1>5. CopiesOK'
  <2>1. \A k \in Missions : CopyOK(mem'[k])
    BY <1>1, <1>2 DEF MissionInv, CopiesOK, Moves
  <2> QED
    BY <2>1 DEF CopiesOK, CopyOK, Decided, AgentStatusRule, Missions
<1>6. ReceiptsOK'
  <2>1. ASSUME NEW k \in Missions \ {m} PROVE ReceiptOK(k)'
    <3>1. /\ mem'[k] = mem[k] /\ tasks'[k] = tasks[k] /\ held'[k] = held[k] /\ paid'[k] = paid[k]
          /\ (k \in receipts' <=> k \in receipts)
      BY <1>2 DEF Progress, Writes, Accounts
    <3>2. ReceiptOK(k)
      BY DEF MissionInv, ReceiptsOK
    <3> QED
      BY <1>3, <3>1, <3>2 DEF ReceiptOK
  <2>2. ReceiptOK(m)'
    BY DEF Progress, Accounts
  <2> QED
    BY <2>1, <2>2 DEF ReceiptsOK, Missions
<1>7. OverlapsKnown'
  <2>1. Live' \subseteq Live
    BY <1>2
  <2> QED
    BY <1>3, <2>1 DEF MissionInv, OverlapsKnown
<1>8. AloneCurrent'
  <2> SUFFICES ASSUME NEW k \in Live' \ overlap'
               PROVE  /\ AllSame(mem'[k].agents, agents') /\ mem'[k].pc # "mint"
                      /\ overlap' = {} /\ mem'[k].pc = "dispatch" =>
                            WithinBudget(treasury' + held'[k])
    BY DEF AloneCurrent, AllSame, SameStanding, WithinBudget
  <2>1. k \in Live \ overlap
    BY <1>2, <1>3
  <2>2. k = m
    BY <1>1, <2>1 DEF MissionInv, OverlapsKnown
  <2>3. mem'[m].pc \notin Ended
    BY <1>2, <2>2
  <2>4. AllSame(mem[m].agents, agents)
    BY <2>1, <2>2 DEF MissionInv, AloneCurrent
  <2>5. AllSame(mem'[m].agents, agents')
    BY <2>3, <2>4 DEF Progress, Writes
  <2> QED
    BY <1>1, <2>2, <2>5 DEF Moves, Progress, Accounts
<1>9. FundsAccounted'
  BY DEF Progress, Accounts
<1> QED
  BY <1>4, <1>5, <1>6, <1>7, <1>8, <1>9 DEF MissionInv

(* What a mission carries has credits and a value. *)
LEMMA CarriedType == \A p \in Carried : p.credits \in Nat /\ p.value \in Nat
<1>1. NoProposal.credits \in Nat /\ NoProposal.value \in Nat
  BY DEF NoProposal
<1>2. \A p \in ProposalType : p.credits \in Nat /\ p.value \in Nat
  BY DEF ProposalType
<1> QED
  BY <1>1, <1>2 DEF Carried

(* A request that has not begun, or has ended, keeps nothing. *)
LEMMA IdleType ==
  /\ Idle \in CopyType /\ Idle.task = "PENDING" /\ Idle.pc = "idle"
  /\ \A c \in Ended : /\ [Idle EXCEPT !.pc = c] \in CopyType /\ CopyOK([Idle EXCEPT !.pc = c])
                      /\ [Idle EXCEPT !.pc = c].pc = c /\ [Idle EXCEPT !.pc = c].task = "PENDING"
<1>1. NoPolicy \in PolicyType
  BY DEF NoPolicy, PolicyType
<1>2. NoProposal \in Carried
  BY DEF Carried
<1>3. "PENDING" \in TaskType /\ "INITIALIZING" \in OrgStates /\ "idle" \in Everywhere
  BY DEF TaskType, OrgStates, Everywhere
<1>4. Idle \in CopyType
  BY <1>1, <1>2, <1>3, RecruitsType DEF Idle, CopyType
<1>5. Idle.task = "PENDING" /\ Idle.pc = "idle"
  BY DEF Idle
<1>6. ASSUME NEW c \in Ended
      PROVE  /\ [Idle EXCEPT !.pc = c] \in CopyType /\ [Idle EXCEPT !.pc = c].pc = c
             /\ [Idle EXCEPT !.pc = c].task = "PENDING"
  <2>1. c \in Everywhere
    BY PlacesOf
  <2> QED
    BY <1>4, <1>5, <2>1 DEF CopyType
<1>7. ASSUME NEW s, s.pc \in Ended PROVE CopyOK(s)
  <2>1. s.pc \notin Places /\ s.pc \notin Executing 
      /\ s.pc \notin {"mint", "start", "plan", "complete", "dispatch", "receipt", "audit", "APPROVED"}
    BY <1>7 DEF Ended, Places, Executing
  <2> QED
    BY <2>1 DEF CopyOK
<1>8. ASSUME NEW c \in Ended PROVE CopyOK([Idle EXCEPT !.pc = c])
  BY <1>6, <1>7
<1> QED
  BY <1>4, <1>5, <1>6, <1>8

(* What a mission becomes has its place and type. *)
LEMMA Becomes ==
  ASSUME NEW m \in Missions, NEW s, mem \in [Missions -> CopyType], Become(m, s),
         s.pc \in Ended \/ (s \in CopyType /\ CopyOK(s))
  PROVE  /\ mem' = [mem EXCEPT ![m] = mem'[m]]
         /\ mem'[m] \in CopyType /\ CopyOK(mem'[m]) /\ mem'[m].pc = s.pc
         /\ s.pc \notin Ended => mem'[m] = s
         /\ s.pc \in Ended => mem'[m].task = "PENDING"
<1> DEFINE t == IF s.pc \in Ended THEN [Idle EXCEPT !.pc = s.pc] ELSE s
<1>1. mem' = [mem EXCEPT ![m] = t]
  BY DEF Become
<1>2. t \in CopyType /\ CopyOK(t) /\ t.pc = s.pc /\ (s.pc \in Ended => t.task = "PENDING")
  BY IdleType
<1>3. s.pc \notin Ended => t = s
  OBVIOUS
<1> HIDE DEF t
<1>4. mem'[m] = t
  BY <1>1
<1> QED
  BY <1>1, <1>2, <1>3, <1>4

(* The accounts of a step that moves no credits. *)
LEMMA NothingPaid ==
  ASSUME NEW m \in Missions, MissionInv, overlap' = overlap, ReceiptOK(m)',
         treasury' = treasury, minted' = minted, held' = held, paid' = paid, receipts' = receipts,
         mem'[m].pc # "dispatch"
  PROVE  Accounts(m)
<1>1. FundsAccounted'
  BY DEF MissionInv, FundsAccounted
<1> QED
  BY <1>1 DEF Accounts, MissionInv, MissionTypes

(* A step that syncs a copy of the mission, and moves no credits. *)
LEMMA SyncStep ==
  ASSUME NEW m \in Live, NEW s \in CopyType, MissionInv, SyncState(m, s), CopyOK(s), Settles(m, s),
         s.pc \notin {"idle", "mint", "dispatch", "receipt"}, s.pc # mem[m].pc,
         mem[m].pc \notin {"dispatch", "receipt"},
         AllRemember(mem[m].agents, s.agents), perf' \in [Roster -> Scores],
         mem[m].loaded \notin Stopped, mem[m].org \in Stopped => s.org \in Stopped,
         treasury' = treasury, minted' = minted, held' = held, paid' = paid, receipts' = receipts,
         policy' = policy, corrupt' = corrupt, operator' = operator, overlap' = overlap
  PROVE  Progress(m)
<1>1. m \in Missions /\ mem \in [Missions -> CopyType]
  BY DEF MissionInv, MissionTypes, Live
<1>2. /\ mem' = [mem EXCEPT ![m] = mem'[m]]
      /\ mem'[m] \in CopyType /\ CopyOK(mem'[m]) /\ mem'[m].pc = s.pc
      /\ s.pc \notin Ended => mem'[m] = s
      /\ s.pc \in Ended => mem'[m].task = "PENDING"
  BY <1>1, Becomes DEF SyncState
<1>3. Moves(m)
  BY <1>2 DEF Moves
<1>4. s.agents \in [Roster -> AgentType] /\ s.org \in OrgStates /\ s.task \in TaskType
  BY DEF CopyType
<1>5. agents' \in [Roster -> AgentType] /\ AllSame(s.agents, agents')
  BY <1>4, SavingKeeps DEF SyncState, MissionInv, MissionTypes
<1>6. mem[m].agents \in [Roster -> AgentType]
  <2>1. mem[m] \in CopyType
    BY <1>1
  <2> QED
    BY <2>1 DEF CopyType
<1>7. AllRemember(mem[m].agents, agents')
  BY <1>4, <1>5, <1>6, SameRemembers, RememberChain
<1>8. row' = s.org /\ tasks' = [tasks EXCEPT ![m] = s.task]
  BY DEF SyncState, SaveOrganisation, SaveTask
<1>9. tasks' \in [Missions -> TaskType] /\ tasks'[m] = s.task
      /\ \A k \in Missions \ {m} : tasks'[k] = tasks[k]
  <2>1. tasks \in [Missions -> TaskType]
    BY DEF MissionInv, MissionTypes
  <2> QED
    BY <1>1, <1>4, <1>8, <2>1
<1>10. Writes(m)
  BY <1>2, <1>4, <1>5, <1>7, <1>8, <1>9 DEF Writes
<1>11. ReceiptOK(m)'
  <2>1. (m \notin receipts => paid[m] = 0) /\ held[m] = 0
    <3>1. mem[m].pc # "cut"
      BY DEF Live, Ended
    <3> QED
      BY <1>1, <3>1 DEF MissionInv, ReceiptsOK, ReceiptOK
  <2>2. \A x \in {"complete", "close"} : x \notin Ended
    BY DEF Ended
  <2> QED
    BY <1>2, <1>9, <2>1, <2>2 DEF Settles, ReceiptOK, Charging, Ended
<1>12. Accounts(m)
  BY <1>1, <1>2, <1>11, NothingPaid
<1> QED
  BY <1>3, <1>10, <1>12 DEF Progress

(* A request that ends without a sync: an exception, or a cut. *)
LEMMA QuitMoves ==
  ASSUME NEW m \in Live, NEW c \in {"raised", "cut"}, MissionInv,
         Become(m, [mem[m] EXCEPT !.pc = c]), rows' = rows, perf' = perf
  PROVE  Moves(m) /\ Writes(m) /\ mem'[m].pc = c /\ mem'[m].task = "PENDING" /\ c \in Ended
<1>1. m \in Missions /\ mem \in [Missions -> CopyType] /\ mem[m].pc \notin Ended
  BY DEF MissionInv, MissionTypes, Live
<1> DEFINE s == [mem[m] EXCEPT !.pc = c]
<1>2. s.pc = c /\ c \in Ended
  <2>1. mem[m] \in CopyType
    BY <1>1
  <2> QED
    BY <2>1 DEF CopyType, Ended
<1>3. Become(m, s)
  OBVIOUS
<1> HIDE DEF s
<1>4. /\ mem' = [mem EXCEPT ![m] = mem'[m]]
      /\ mem'[m] \in CopyType /\ CopyOK(mem'[m]) /\ mem'[m].pc = c
      /\ mem'[m].task = "PENDING"
  BY <1>1, <1>2, <1>3, Becomes
<1>5. Moves(m)
  BY <1>1, <1>2, <1>4 DEF Moves
<1>6. row' = row /\ agents' = agents /\ tasks' = tasks
  BY DEF rows
<1>7. Writes(m)
  BY <1>2, <1>4, <1>6 DEF Writes, MissionInv, MissionTypes
<1> QED
  BY <1>2, <1>4, <1>5, <1>7

(* One that ends so leaves the credits where they are: from the reservation   *)
(* to the audit only a cut does.                                              *)
LEMMA QuitStep ==
  ASSUME NEW m \in Live, NEW c \in {"raised", "cut"}, MissionInv,
         Become(m, [mem[m] EXCEPT !.pc = c]), mem[m].pc \in InExecution => c = "cut",
         rows' = rows, perf' = perf,
         treasury' = treasury, minted' = minted, held' = held, paid' = paid, receipts' = receipts,
         policy' = policy, corrupt' = corrupt, operator' = operator, overlap' = overlap
  PROVE  Progress(m)
<1>1. m \in Missions
  BY DEF Live
<1>2. Moves(m) /\ Writes(m) /\ mem'[m].pc = c /\ mem'[m].task = "PENDING" /\ c \in Ended
  BY QuitMoves
<1>3. tasks' = tasks
  BY DEF rows
<1>4. ReceiptOK(m)'
  <2>1. ReceiptOK(m)
    BY <1>1 DEF MissionInv, ReceiptsOK
  <2>2. m \in receipts => mem[m].pc \in {"audit", "complete", "close"}
    <3>1. mem[m].pc \notin Ended
      BY DEF Live
    <3> QED
      BY <2>1, <3>1 DEF ReceiptOK, Charging
  <2>3. mem[m].pc # "cut"
    BY DEF Live, Ended
  <2> QED
    BY <1>2, <1>3, <2>1, <2>2, <2>3 DEF ReceiptOK, Charging, Ended, InExecution
<1>5. Accounts(m)
  BY <1>1, <1>2, <1>4, NothingPaid
<1> QED
  BY <1>2, <1>5 DEF Progress

(* A mission at one of its places is live, and what is known of its copy. *)
LEMMA InPlace ==
  ASSUME MissionInv, NEW m \in Missions, mem[m].pc \in Places
  PROVE  /\ m \in Live /\ mem[m] \in CopyType /\ CopyOK(mem[m]) /\ ReceiptOK(m)
         /\ mem[m].agents \in [Roster -> AgentType]
         /\ AllRemember(mem[m].agents, mem[m].agents)
<1>1. mem[m] \in CopyType /\ CopyOK(mem[m]) /\ ReceiptOK(m)
  BY DEF MissionInv, MissionTypes, CopiesOK, ReceiptsOK
<1>2. mem[m].agents \in [Roster -> AgentType]
  BY <1>1 DEF CopyType
<1>3. AllRemember(mem[m].agents, mem[m].agents)
  BY <1>2, RemembersItself DEF AllRemember
<1>4. m \in Live
  BY PlacesOf DEF Live
<1> QED
  BY <1>1, <1>2, <1>3, <1>4

(* A step of a mission that syncs nothing. *)
LEMMA CopyStep ==
  ASSUME NEW m \in Live, NEW t \in CopyType, MissionInv, CopyOK(t),
         mem' = [mem EXCEPT ![m] = t], t.pc \in Places \ {"mint"}, t.pc # mem[m].pc,
         t.agents = mem[m].agents, rows' = rows, perf' = perf, Accounts(m),
         policy' = policy, corrupt' = corrupt, operator' = operator, overlap' = overlap
  PROVE  Progress(m)
<1>1. m \in Missions /\ mem \in [Missions -> CopyType]
  BY DEF MissionInv, MissionTypes, Live
<1>2. mem'[m] = t
  BY <1>1
<1>3. Moves(m)
  BY <1>2, PlacesOf DEF Moves
<1>4. row' = row /\ agents' = agents /\ tasks' = tasks
  BY DEF rows
<1>5. Writes(m)
  BY <1>2, <1>4 DEF Writes, MissionInv, MissionTypes
<1> QED
  BY <1>3, <1>5 DEF Progress

(* The mint fills an empty treasury, unless another mission ran meanwhile. *)
LEMMA MintStep ==
  ASSUME MissionInv, NEW m \in Missions, Mint(m)
  PROVE  Progress(m)
<1>1. mem[m].pc = "mint" /\ mem[m].pc \in Places
  BY DEF Mint, Places
<1>2. m \in Live /\ mem[m] \in CopyType /\ CopyOK(mem[m]) /\ ReceiptOK(m)
  BY <1>1, InPlace
<1> DEFINE t == [mem[m] EXCEPT !.pc = "start"]
<1>3. mem' = [mem EXCEPT ![m] = t]
  BY DEF Mint
<1>4. t \in CopyType /\ t.pc = "start" /\ t.org = mem[m].org /\ t.loaded = mem[m].loaded
      /\ t.agents = mem[m].agents /\ t.task = mem[m].task
  BY <1>2 DEF CopyType, Everywhere, Places
<1> HIDE DEF t
<1>5. CopyOK(t)
  BY <1>1, <1>2, <1>4 DEF CopyOK, Executing
<1>6. mem[m].budget \in Budgets /\ mem[m].budget \in Nat
  BY <1>1, <1>2 DEF CopyOK, CopyType
<1>7. /\ treasury' = treasury + mem[m].budget /\ minted' = minted + mem[m].budget
      /\ rows' = rows /\ perf' = perf /\ held' = held /\ paid' = paid /\ receipts' = receipts
      /\ policy' = policy /\ corrupt' = corrupt
      /\ operator' = operator /\ overlap' = overlap
  BY DEF Mint
<1>8. /\ treasury \in Nat /\ minted \in Nat
      /\ held \in [Missions -> Nat] /\ paid \in [Missions -> Nat] /\ receipts \subseteq Missions
  BY DEF MissionInv, MissionTypes
<1>9. FundsAccounted'
  <2>1. /\ treasury + SumFunction(held) + SumFunction(paid) = minted
        /\ SumFunction(held) \in Nat /\ SumFunction(paid) \in Nat
    BY <1>8, MissionsFinite, SumNat DEF MissionInv, FundsAccounted
  <2>2. overlap = {} => treasury = 0
    BY <1>1, <1>2 DEF MissionInv, AloneCurrent
  <2>3. treasury' + SumFunction(held') + SumFunction(paid') = minted'
    BY <1>6, <1>7, <1>8, <2>1
  <2>4. overlap' = {} => \E b \in Budgets : treasury' <= b
    BY <1>6, <1>7, <2>2
  <2> QED
    BY <2>3, <2>4 DEF FundsAccounted
<1>10. ReceiptOK(m)'
  <2>1. mem'[m] = t
    BY <1>3 DEF MissionInv, MissionTypes
  <2> QED
    BY <1>1, <1>2, <1>4, <1>7, <2>1 DEF ReceiptOK, Charging, Ended, rows
<1>11. Accounts(m)
  <2>1. mem'[m].pc # "dispatch"
    BY <1>3, <1>4 DEF MissionInv, MissionTypes
  <2> QED
    BY <1>6, <1>7, <1>8, <1>9, <1>10, <2>1 DEF Accounts
<1>12. t.pc \in Places \ {"mint"}
  BY <1>4 DEF Places
<1> QED
  BY <1>1, <1>2, <1>3, <1>4, <1>5, <1>7, <1>11, <1>12, CopyStep

(* The start of a mission: it did not find the organisation stopped. *)
LEMMA StartStep ==
  ASSUME MissionInv, NEW m \in Missions, StartMission(m)
  PROVE  Progress(m)
<1>1. mem[m].pc = "start" /\ mem[m].pc \in Places
  BY DEF StartMission, Places
<1>2. /\ m \in Live /\ mem[m] \in CopyType /\ CopyOK(mem[m]) /\ ReceiptOK(m)
      /\ mem[m].agents \in [Roster -> AgentType]
  BY <1>1, InPlace
<1> DEFINE given == Allocate(mem[m].agents, treasury)
           s == [mem[m] EXCEPT !.pc = "plan", !.org = "PLANNING", !.config = policy,
                               !.funds = treasury, !.agents = given]
<1>3. given \in [Roster -> AgentType] /\ AllRemember(mem[m].agents, given)
  BY <1>2, AllocationKeeps, SameRemembers DEF MissionInv, MissionTypes
<1>4. policy \in PolicyType /\ treasury \in Nat /\ perf \in [Roster -> Scores]
  BY MissionAssumption DEF MissionInv, MissionTypes
<1>5. /\ perf' = perf /\ treasury' = treasury /\ minted' = minted /\ held' = held /\ paid' = paid
      /\ receipts' = receipts /\ policy' = policy /\ corrupt' = corrupt
      /\ operator' = operator /\ overlap' = overlap
  BY DEF StartMission, money
<1>6. CASE ~corrupt /\ (mem[m].org = "PLANNING" \/ "PLANNING" \in OrgTransitions[mem[m].org])
  <2>1. SyncState(m, s)
    BY <1>6 DEF StartMission
  <2> HIDE DEF given
  <2>2. s \in CopyType /\ s.pc = "plan" /\ s.org = "PLANNING" /\ s.loaded = mem[m].loaded
        /\ s.agents = given /\ s.task = mem[m].task
    BY <1>2, <1>3, <1>4 DEF CopyType, Everywhere, Places, OrgStates
  <2> HIDE DEF s
  <2>3. mem[m].org = mem[m].loaded /\ mem[m].org \in OrgStates
    BY <1>1, <1>2 DEF CopyOK, CopyType
  <2>4. mem[m].org \notin Stopped
    BY <1>6, <2>3 DEF OrgStates, Stopped, OrgTransitions
  <2>5. CopyOK(s)
    BY <2>2, <2>3, <2>4 DEF CopyOK, Executing
  <2>6. Settles(m, s)
    BY <1>1, <1>2, <2>2 DEF ReceiptOK, Settles, Charging, Ended
  <2> QED
    BY <1>1, <1>2, <1>3, <1>4, <1>5, <2>1, <2>2, <2>3, <2>4, <2>5, <2>6, SyncStep
<1>7. CASE ~(~corrupt /\ (mem[m].org = "PLANNING" \/ "PLANNING" \in OrgTransitions[mem[m].org]))
  <2>1. Raise(m) /\ rows' = rows
    BY <1>7 DEF StartMission
  <2> QED
    BY <1>1, <1>2, <1>5, <2>1, QuitStep DEF Raise, InExecution
<1> QED
  BY <1>6, <1>7

(* A call of the CEO counts twice in the budget, and changes nothing else. *)
LEMMA CallKeeps ==
  ASSUME NEW s \in CopyType
  PROVE  \E i, j \in Nat : CEOCalled(s) = [s EXCEPT !.ceo = i, !.calls = j]
<1> DEFINE i == s.ceo + 1
           j == s.calls + 1
<1>1. i \in Nat /\ j \in Nat
  BY DEF CopyType
<1>2. CEOCalled(s) = [s EXCEPT !.ceo = i, !.calls = j]
  BY DEF CEOCalled
<1> HIDE DEF i, j
<1> QED
  BY <1>1, <1>2

(* The plan: the organisation executes, and the third task is assigned. *)
LEMMA PlanStep ==
  ASSUME MissionInv, NEW m \in Missions, DecomposeAndPlan(m)
  PROVE  Progress(m)
<1>1. mem[m].pc = "plan" /\ mem[m].pc \in Places
  BY DEF DecomposeAndPlan, Places
<1>2. /\ m \in Live /\ mem[m] \in CopyType /\ CopyOK(mem[m]) /\ ReceiptOK(m)
      /\ mem[m].agents \in [Roster -> AgentType] /\ AllRemember(mem[m].agents, mem[m].agents)
  BY <1>1, InPlace
<1> DEFINE c        == CEOCalled(mem[m])
           analysts == SelectAgent(c.agents, "FINANCIAL_ANALYST")
           alloc    == IF analysts = {} THEN Planned
                       ELSE CreditAllocation(c.agents["FINANCIAL_ANALYST"], Planned, c.funds)
           s        == [c EXCEPT !.pc = "intelligence", !.org = "EXECUTING",
                                 !.task = "ASSIGNED", !.assignee = analysts, !.alloc = alloc]
<1>3. /\ perf' = perf /\ treasury' = treasury /\ minted' = minted /\ held' = held /\ paid' = paid
      /\ receipts' = receipts /\ policy' = policy /\ corrupt' = corrupt
      /\ operator' = operator /\ overlap' = overlap
  BY DEF DecomposeAndPlan, money
<1>4. CASE CEOMayCall(mem[m])
  <2>1. SyncState(m, s)
    BY <1>4 DEF DecomposeAndPlan
  <2>2. /\ c \in CopyType /\ c.agents = mem[m].agents /\ c.loaded = mem[m].loaded
    <3>1. PICK i, j \in Nat : c = [mem[m] EXCEPT !.ceo = i, !.calls = j]
      BY <1>2, CallKeeps
    <3> QED
      BY <1>2, <3>1 DEF CopyType
  <2> HIDE DEF c
  <2>3. analysts \subseteq Roster /\ (analysts # {} => "FINANCIAL_ANALYST" \in Roster)
    BY DEF SelectAgent
  <2> HIDE DEF analysts
  <2>4. alloc \in Nat
    <3>1. Planned \in Nat /\ c.funds \in Nat /\ c.agents \in [Roster -> AgentType]
      BY <2>2, MissionAssumption DEF CopyType
    <3>2. analysts # {} => c.agents["FINANCIAL_ANALYST"] \in AgentType
      BY <2>3, <3>1
    <3> QED
      BY <3>1, <3>2, CreditsKeep
  <2> HIDE DEF alloc
  <2>5. s \in CopyType /\ s.pc = "intelligence" /\ s.org = "EXECUTING" /\ s.loaded = mem[m].loaded
        /\ s.agents = mem[m].agents /\ s.task = "ASSIGNED"
    BY <2>2, <2>3, <2>4 DEF CopyType, Everywhere, Places, OrgStates, TaskType
  <2> HIDE DEF s
  <2>6. mem[m].loaded \notin Stopped /\ mem[m].org \notin Stopped
    BY <1>1, <1>2 DEF CopyOK, Places, Stopped
  <2>7. CopyOK(s)
    BY <2>5, <2>6 DEF CopyOK, Executing
  <2>8. Settles(m, s)
    BY <1>1, <1>2, <2>5 DEF ReceiptOK, Settles, Charging, Ended
  <2> QED
    BY <1>1, <1>2, <1>3, <2>1, <2>5, <2>6, <2>7, <2>8, SyncStep DEF MissionInv, MissionTypes
<1>5. CASE ~CEOMayCall(mem[m])
  <2>1. Raise(m) /\ rows' = rows
    BY <1>5 DEF DecomposeAndPlan
  <2> QED
    BY <1>1, <1>2, <1>3, <2>1, QuitStep DEF Raise, InExecution
<1> QED
  BY <1>4, <1>5

(* The pipeline: two agents are credited with a task, and a proposal is made. *)
LEMMA IntelligenceStep ==
  ASSUME MissionInv, NEW m \in Missions, NEW p \in Proposals, RunIntelligence(m, p)
  PROVE  Progress(m)
<1>1. mem[m].pc = "intelligence" /\ mem[m].pc \in Places
  BY DEF RunIntelligence, Places
<1>2. /\ m \in Live /\ mem[m] \in CopyType /\ CopyOK(mem[m]) /\ ReceiptOK(m)
      /\ mem[m].agents \in [Roster -> AgentType]
  BY <1>1, InPlace
<1> DEFINE credited(r) == IF r \in {"RESEARCHER", "STRATEGIST"}
                          THEN RecordTaskSuccess(mem[m].agents[r], 0, 0, 100) ELSE mem[m].agents[r]
           after == [r \in Roster |-> credited(r)]
           calls == mem[m].calls + 3
           s == [mem[m] EXCEPT !.pc = "propose", !.calls = calls, !.task = "IN_PROGRESS",
                               !.agents = after, !.prop = p]
<1>3. /\ perf' = perf /\ treasury' = treasury /\ minted' = minted /\ held' = held /\ paid' = paid
      /\ receipts' = receipts /\ policy' = policy /\ corrupt' = corrupt
      /\ operator' = operator /\ overlap' = overlap
  BY DEF RunIntelligence, money
<1>4. SyncState(m, s) \/ (Raise(m) /\ rows' = rows)
  BY DEF RunIntelligence
<1>5. after \in [Roster -> AgentType] /\ AllRemember(mem[m].agents, after)
  <2> DEFINE nil == 0
             full == 100
  <2>1. nil \in Nat /\ full \in Nat
    OBVIOUS
  <2>2. \A r \in Roster : credited(r) = IF r \in {"RESEARCHER", "STRATEGIST"}
                          THEN RecordTaskSuccess(mem[m].agents[r], nil, nil, full) ELSE mem[m].agents[r]
    OBVIOUS
  <2> HIDE DEF nil, full
  <2>3. ASSUME NEW r \in Roster
        PROVE  credited(r) \in AgentType /\ Remembers(mem[m].agents[r], credited(r))
    <3>1. mem[m].agents[r] \in AgentType
      BY <1>2
    <3>2. /\ RecordTaskSuccess(mem[m].agents[r], nil, nil, full) \in AgentType
          /\ Remembers(mem[m].agents[r], RecordTaskSuccess(mem[m].agents[r], nil, nil, full))
      BY <2>1, <3>1, SuccessKeeps
    <3> QED
      BY <2>2, <3>1, <3>2, RemembersItself
  <2> HIDE DEF credited
  <2> QED
    BY <2>3 DEF AllRemember
<1>6. CASE SyncState(m, s)
  <2> HIDE DEF after
  <2>1. calls \in Nat /\ p \in Carried
    BY <1>2, MissionAssumption DEF CopyType, Carried
  <2> HIDE DEF calls
  <2>2. s \in CopyType /\ s.pc = "propose" /\ s.org = mem[m].org /\ s.loaded = mem[m].loaded
        /\ s.agents = after /\ s.task = "IN_PROGRESS"
    BY <1>2, <1>5, <2>1 DEF CopyType, Everywhere, Places, OrgStates, TaskType
  <2>3. SyncState(m, s)
    BY <1>6
  <2> HIDE DEF s
  <2>4. mem[m].loaded \notin Stopped /\ mem[m].org = "EXECUTING" /\ mem[m].org \notin Stopped
    BY <1>1, <1>2 DEF CopyOK, Places, Stopped, Executing
  <2>5. CopyOK(s)
    BY <2>2, <2>4 DEF CopyOK, Executing
  <2>6. Settles(m, s)
    BY <1>1, <1>2, <2>2 DEF ReceiptOK, Settles, Charging, Ended
  <2> QED
    BY <1>1, <1>2, <1>3, <1>5, <2>2, <2>3, <2>4, <2>5, <2>6, SyncStep DEF MissionInv, MissionTypes
<1>7. CASE Raise(m) /\ rows' = rows
  BY <1>1, <1>2, <1>3, <1>7, QuitStep DEF Raise, InExecution
<1> QED
  BY <1>4, <1>6, <1>7

(* The policy engine approves only what the profile and the copy allow. *)
LEMMA ProposalStep ==
  ASSUME MissionInv, NEW m \in Missions, ProcessProposal(m)
  PROVE  Progress(m)
<1>1. mem[m].pc = "propose" /\ mem[m].pc \in Places
  BY DEF ProcessProposal, Places
<1>2. m \in Live /\ mem[m] \in CopyType /\ CopyOK(mem[m]) /\ ReceiptOK(m)
  BY <1>1, InPlace
<1> DEFINE d == Decision(mem[m])
           t == [mem[m] EXCEPT !.pc = d, !.task = "SUBMITTED"]
<1>3. mem' = [mem EXCEPT ![m] = t]
  BY <1>2 DEF ProcessProposal, MissionInv, MissionTypes
<1>4. d \in {"APPROVED", "REJECTED", "ESCALATE"}
  BY DEF Decision
<1>5. ASSUME d = "APPROVED" PROVE Decided(mem[m])
  <2>1. mem[m].prop.credits \in Nat /\ mem[m].config.threshold \in Nat
    <3>1. mem[m].prop \in Carried /\ mem[m].config \in PolicyType
      BY <1>2 DEF CopyType
    <3> QED
      BY <3>1, CarriedType DEF PolicyType
  <2>2. /\ ConfiguredGovernanceRule(mem[m]) /\ AgentStatusRule(mem[m]) /\ SpendLimitRule(mem[m])
        /\ ~(mem[m].prop.credits >= mem[m].config.threshold)
    BY <1>5 DEF Decision
  <2> QED
    BY <2>1, <2>2 DEF Decided, ConfiguredGovernanceRule, SpendLimitRule
<1> HIDE DEF d
<1>6. /\ t \in CopyType /\ t.pc = d /\ t.org = mem[m].org /\ t.loaded = mem[m].loaded
      /\ t.agents = mem[m].agents /\ t.task = "SUBMITTED" /\ t.prop = mem[m].prop
      /\ t.config = mem[m].config
  BY <1>2, <1>4 DEF CopyType, Everywhere, Places, TaskType
<1> HIDE DEF t
<1>7. d \in Places \ {"mint"} /\ d # "propose"
  BY <1>4 DEF Places
<1>8. CopyOK(t)
  <2>1. d = "APPROVED" => Decided(t)
    BY <1>5, <1>6 DEF Decided, AgentStatusRule
  <2>2. mem[m].loaded \notin Stopped /\ mem[m].org = "EXECUTING"
    BY <1>1, <1>2 DEF CopyOK, Places, Executing
  <2> QED
    BY <1>4, <1>6, <2>1, <2>2 DEF CopyOK, Executing
<1>9. /\ rows' = rows /\ perf' = perf /\ treasury' = treasury /\ minted' = minted /\ held' = held /\ paid' = paid
      /\ receipts' = receipts /\ policy' = policy /\ corrupt' = corrupt
      /\ operator' = operator /\ overlap' = overlap
  BY DEF ProcessProposal, money
<1>10. ReceiptOK(m)'
  <2>1. mem'[m] = t
    BY <1>3 DEF MissionInv, MissionTypes
  <2> QED
    BY <1>1, <1>2, <1>4, <1>6, <1>9, <2>1 DEF ReceiptOK, Charging, Ended, rows
<1>11. Accounts(m)
  <2>1. mem'[m].pc # "dispatch"
    BY <1>3, <1>4, <1>6 DEF MissionInv, MissionTypes
  <2> QED
    BY <1>9, <1>10, <2>1, NothingPaid
<1> QED
  BY <1>1, <1>2, <1>3, <1>6, <1>7, <1>8, <1>9, <1>11, CopyStep

(* The funds after a step that moves one mission's credits. *)
LEMMA FundsMove ==
  ASSUME MissionInv, NEW m \in Missions, held' \in [Missions -> Nat], paid' \in [Missions -> Nat],
         \A k \in Missions \ {m} : held'[k] = held[k] /\ paid'[k] = paid[k],
         treasury' \in Nat, minted' = minted,
         treasury' + held'[m] + paid'[m] = treasury + held[m] + paid[m]
  PROVE  treasury' + SumFunction(held') + SumFunction(paid') = minted'
<1>1. /\ treasury \in Nat /\ minted \in Nat
      /\ held \in [Missions -> Nat] /\ paid \in [Missions -> Nat]
      /\ treasury + SumFunction(held) + SumFunction(paid) = minted
  BY DEF MissionInv, MissionTypes, FundsAccounted
<1>2. /\ held \in [Missions -> Int] /\ held' \in [Missions -> Int]
      /\ paid \in [Missions -> Int] /\ paid' \in [Missions -> Int]
  BY <1>1
<1>3. SumFunction(held') = SumFunction(held) - held[m] + held'[m] /\ SumFunction(held) \in Int
  BY <1>2, MissionsFinite, SumChange
<1>4. SumFunction(paid') = SumFunction(paid) - paid[m] + paid'[m] /\ SumFunction(paid) \in Int
  BY <1>2, MissionsFinite, SumChange
<1>5. held[m] \in Nat /\ held'[m] \in Nat /\ paid[m] \in Nat /\ paid'[m] \in Nat
  BY <1>1
<1> QED
  BY <1>1, <1>3, <1>4, <1>5

(* The reservation: the treasury gives what the decision allows, or refuses. *)
LEMMA ReservationStep ==
  ASSUME MissionInv, NEW m \in Missions, ReserveCredits(m)
  PROVE  Progress(m)
<1>1. mem[m].pc = "APPROVED" /\ mem[m].pc \in Places
  BY DEF ReserveCredits, Places
<1>2. m \in Live /\ mem[m] \in CopyType /\ CopyOK(mem[m]) /\ ReceiptOK(m)
  BY <1>1, InPlace
<1>3. /\ rows' = rows /\ perf' = perf /\ minted' = minted /\ paid' = paid /\ receipts' = receipts
      /\ policy' = policy /\ corrupt' = corrupt /\ operator' = operator /\ overlap' = overlap
  BY DEF ReserveCredits
<1> DEFINE c == mem[m].prop.credits
           t == [mem[m] EXCEPT !.pc = "dispatch", !.task = "APPROVED"]
<1>4. CASE /\ c <= treasury /\ mem[m].prop.act \in ExecutorActs
           /\ treasury' = treasury - c /\ held' = [held EXCEPT ![m] = c]
           /\ mem' = [mem EXCEPT ![m].pc = "dispatch", ![m].task = "APPROVED"]
  <2>1. c \in Nat
    BY <1>2, CarriedType DEF CopyType
  <2>2. mem' = [mem EXCEPT ![m] = t]
    BY <1>2, <1>4 DEF MissionInv, MissionTypes
  <2>3. /\ t \in CopyType /\ t.pc = "dispatch" /\ t.org = mem[m].org /\ t.loaded = mem[m].loaded
        /\ t.agents = mem[m].agents /\ t.task = "APPROVED" /\ t.prop = mem[m].prop
        /\ t.config = mem[m].config
    BY <1>2 DEF CopyType, Everywhere, Places, TaskType
  <2> HIDE DEF t
  <2>4. CopyOK(t)
    <3>1. mem[m].loaded \notin Stopped /\ mem[m].org = "EXECUTING" /\ Decided(mem[m])
      BY <1>1, <1>2 DEF CopyOK, Places, Executing
    <3>2. Decided(t)
      BY <2>3, <3>1 DEF Decided, AgentStatusRule
    <3>3. t.prop.act \in ExecutorActs
      BY <1>4, <2>3
    <3> QED
      BY <2>3, <3>1, <3>2, <3>3 DEF CopyOK, Executing
  <2>5. mem'[m] = t
    BY <2>2 DEF MissionInv, MissionTypes
  <2>6. c = t.prop.credits
    BY <2>3
  <2> HIDE DEF c
  <2>7. /\ treasury \in Nat /\ minted \in Nat /\ receipts \subseteq Missions
        /\ held \in [Missions -> Nat] /\ paid \in [Missions -> Nat]
    BY DEF MissionInv, MissionTypes
  <2>8. m \notin receipts /\ paid[m] = 0 /\ held[m] = 0
    BY <1>1, <1>2 DEF ReceiptOK, Charging, Ended
  <2>9. /\ treasury' \in Nat /\ held' \in [Missions -> Nat] /\ held'[m] = c
        /\ \A k \in Missions \ {m} : held'[k] = held[k]
        /\ treasury' + held'[m] = treasury
    BY <1>4, <2>1, <2>7
  <2>10. FundsAccounted' /\ (overlap' = {} => WithinBudget(treasury' + held'[m]))
    <3>1. treasury' + SumFunction(held') + SumFunction(paid') = minted'
      <4>1. treasury' + held'[m] + paid'[m] = treasury + held[m] + paid[m]
        BY <1>3, <2>7, <2>8, <2>9
      <4> QED
        BY <1>3, <2>7, <2>9, <4>1, FundsMove
    <3>2. overlap' = {} => \E b \in Budgets : b \in Nat /\ treasury <= b
      BY <1>3, MissionAssumption DEF MissionInv, FundsAccounted
    <3>3. overlap' = {} => \E b \in Budgets : treasury' <= b
      BY <1>4, <2>1, <2>7, <2>9, <3>2
    <3>4. overlap' = {} => \E b \in Budgets : treasury' + held'[m] <= b
      BY <2>9, <3>2
    <3> QED
      BY <3>1, <3>3, <3>4 DEF FundsAccounted, WithinBudget
  <2>11. ReceiptOK(m)'
    BY <1>1, <1>2, <1>3, <2>3, <2>5, <2>6, <2>8, <2>9 DEF ReceiptOK, Charging, Ended, rows
  <2>12. Accounts(m)
    BY <1>3, <2>7, <2>9, <2>10, <2>11 DEF Accounts
  <2>13. t.pc \in Places \ {"mint"}
    BY <2>3 DEF Places
  <2> QED
    BY <1>1, <1>2, <1>3, <2>2, <2>3, <2>4, <2>12, <2>13, CopyStep
<1>5. CASE Raise(m) /\ treasury' = treasury /\ held' = held
  <2>1. mem[m].pc \notin InExecution
    BY <1>1 DEF InExecution
  <2> QED
    BY <1>2, <1>3, <1>5, <2>1, QuitStep DEF Raise, InExecution
<1> QED
  BY <1>4, <1>5 DEF ReserveCredits

(* The settlement: what was reserved is spent. *)
LEMMA CommitStep ==
  ASSUME MissionInv, NEW m \in Missions, CommitReservation(m)
  PROVE  Progress(m)
<1>1. mem[m].pc = "dispatch" /\ mem[m].pc \in Places
  BY DEF CommitReservation, Places
<1>2. m \in Live /\ mem[m] \in CopyType /\ CopyOK(mem[m]) /\ ReceiptOK(m)
  BY <1>1, InPlace
<1> DEFINE t == [mem[m] EXCEPT !.pc = "receipt"]
<1>3. /\ rows' = rows /\ perf' = perf /\ treasury' = treasury /\ minted' = minted
      /\ receipts' = receipts /\ policy' = policy /\ corrupt' = corrupt
      /\ operator' = operator /\ overlap' = overlap /\ mem' = [mem EXCEPT ![m] = t]
      /\ paid' = [paid EXCEPT ![m] = held[m]] /\ held' = [held EXCEPT ![m] = 0]
  BY DEF CommitReservation
<1>4. /\ t \in CopyType /\ t.pc = "receipt" /\ t.org = mem[m].org /\ t.loaded = mem[m].loaded
      /\ t.agents = mem[m].agents /\ t.task = mem[m].task
  BY <1>2 DEF CopyType, Everywhere, Places
<1> HIDE DEF t
<1>5. CopyOK(t)
  BY <1>1, <1>2, <1>4 DEF CopyOK, Places, Executing
<1>6. mem'[m] = t
  BY <1>3 DEF MissionInv, MissionTypes
<1>7. /\ treasury \in Nat /\ minted \in Nat /\ receipts \subseteq Missions
      /\ held \in [Missions -> Nat] /\ paid \in [Missions -> Nat]
  BY DEF MissionInv, MissionTypes
<1>8. m \notin receipts /\ paid[m] = 0
  BY <1>1, <1>2 DEF ReceiptOK, Charging, Ended
<1>9. /\ held' \in [Missions -> Nat] /\ paid' \in [Missions -> Nat]
      /\ held'[m] = 0 /\ paid'[m] = held[m]
      /\ \A k \in Missions \ {m} : held'[k] = held[k] /\ paid'[k] = paid[k]
  BY <1>3, <1>7
<1>10. FundsAccounted'
  <2>1. treasury' + held'[m] + paid'[m] = treasury + held[m] + paid[m]
    BY <1>3, <1>7, <1>8, <1>9
  <2>2. treasury' + SumFunction(held') + SumFunction(paid') = minted'
    BY <1>3, <1>7, <1>9, <2>1, FundsMove
  <2> QED
    BY <1>3, <2>2 DEF MissionInv, FundsAccounted
<1>11. ReceiptOK(m)'
  BY <1>1, <1>2, <1>3, <1>4, <1>6, <1>8, <1>9 DEF ReceiptOK, Charging, Ended, rows
<1>12. Accounts(m)
  BY <1>3, <1>4, <1>6, <1>7, <1>9, <1>10, <1>11 DEF Accounts
<1>13. t.pc \in Places \ {"mint"}
  BY <1>4 DEF Places
<1> QED
  BY <1>1, <1>2, <1>3, <1>4, <1>5, <1>12, <1>13, CopyStep

(* The rollback: what was reserved goes back, and the mission ends. *)
LEMMA RollbackStep ==
  ASSUME MissionInv, NEW m \in Missions, RollbackReservation(m)
  PROVE  Progress(m)
<1>1. mem[m].pc = "dispatch" /\ mem[m].pc \in Places
  BY DEF RollbackReservation, Places
<1>2. m \in Live /\ mem[m] \in CopyType /\ CopyOK(mem[m]) /\ ReceiptOK(m)
  BY <1>1, InPlace
<1>3. /\ rows' = rows /\ perf' = perf /\ minted' = minted /\ paid' = paid /\ receipts' = receipts
      /\ policy' = policy /\ corrupt' = corrupt /\ operator' = operator /\ overlap' = overlap
      /\ treasury' = treasury + held[m] /\ held' = [held EXCEPT ![m] = 0]
      /\ Become(m, [mem[m] EXCEPT !.pc = "raised"])
  BY DEF RollbackReservation, Raise
<1>4. Moves(m) /\ Writes(m) /\ mem'[m].pc = "raised" /\ mem'[m].task = "PENDING"
  BY <1>2, <1>3, QuitMoves
<1>5. /\ treasury \in Nat /\ minted \in Nat /\ receipts \subseteq Missions
      /\ held \in [Missions -> Nat] /\ paid \in [Missions -> Nat]
  BY DEF MissionInv, MissionTypes
<1>6. /\ treasury' \in Nat /\ held' \in [Missions -> Nat] /\ held'[m] = 0
      /\ \A k \in Missions \ {m} : held'[k] = held[k]
  BY <1>3, <1>5
<1>7. m \notin receipts /\ paid[m] = 0
  BY <1>1, <1>2 DEF ReceiptOK, Charging, Ended
<1>8. FundsAccounted'
  <2>1. treasury' + held'[m] + paid'[m] = treasury + held[m] + paid[m]
    BY <1>3, <1>5, <1>6
  <2>2. treasury' + SumFunction(held') + SumFunction(paid') = minted'
    BY <1>3, <1>5, <1>6, <2>1, FundsMove
  <2>3. overlap' = {} => \E b \in Budgets : treasury' <= b
    BY <1>1, <1>2, <1>3 DEF MissionInv, AloneCurrent, WithinBudget
  <2> QED
    BY <2>2, <2>3 DEF FundsAccounted
<1>9. ReceiptOK(m)'
  BY <1>1, <1>2, <1>3, <1>4, <1>6, <1>7 DEF ReceiptOK, Charging, Ended, rows
<1>10. Accounts(m)
  BY <1>3, <1>4, <1>5, <1>6, <1>8, <1>9 DEF Accounts
<1> QED
  BY <1>3, <1>4, <1>10 DEF Progress

(* The receipt is stored, and the audit begins. *)
LEMMA ReceiptStep ==
  ASSUME MissionInv, NEW m \in Missions, SaveReceipt(m)
  PROVE  Progress(m)
<1>1. mem[m].pc = "receipt" /\ mem[m].pc \in Places
  BY DEF SaveReceipt, Places
<1>2. m \in Live /\ mem[m] \in CopyType /\ CopyOK(mem[m]) /\ ReceiptOK(m)
  BY <1>1, InPlace
<1> DEFINE t == [mem[m] EXCEPT !.pc = "audit"]
<1>3. /\ rows' = rows /\ perf' = perf /\ treasury' = treasury /\ minted' = minted
      /\ held' = held /\ paid' = paid /\ policy' = policy /\ corrupt' = corrupt
      /\ operator' = operator /\ overlap' = overlap /\ mem' = [mem EXCEPT ![m] = t]
      /\ receipts' = receipts \cup {m}
  BY DEF SaveReceipt
<1>4. /\ t \in CopyType /\ t.pc = "audit" /\ t.org = mem[m].org /\ t.loaded = mem[m].loaded
      /\ t.agents = mem[m].agents /\ t.task = mem[m].task
  BY <1>2 DEF CopyType, Everywhere, Places
<1> HIDE DEF t
<1>5. CopyOK(t)
  BY <1>1, <1>2, <1>4 DEF CopyOK, Places, Executing
<1>6. mem'[m] = t
  BY <1>3 DEF MissionInv, MissionTypes
<1>7. FundsAccounted'
  BY <1>3 DEF MissionInv, FundsAccounted
<1>8. ReceiptOK(m)'
  BY <1>1, <1>2, <1>3, <1>4, <1>6 DEF ReceiptOK, Charging, Ended, rows
<1>9. Accounts(m)
  BY <1>3, <1>4, <1>6, <1>7, <1>8 DEF Accounts, MissionInv, MissionTypes
<1>10. t.pc \in Places \ {"mint"}
  BY <1>4 DEF Places
<1> QED
  BY <1>1, <1>2, <1>3, <1>4, <1>5, <1>9, <1>10, CopyStep

(* The audit settles the receipt with the task. *)
LEMMA AuditStepKeeps ==
  ASSUME MissionInv, NEW m \in Missions, AuditExecution(m)
  PROVE  Progress(m)
<1>1. mem[m].pc = "audit" /\ mem[m].pc \in Places
  BY DEF AuditExecution, Places
<1>2. /\ m \in Live /\ mem[m] \in CopyType /\ CopyOK(mem[m]) /\ ReceiptOK(m)
      /\ mem[m].agents \in [Roster -> AgentType] /\ AllRemember(mem[m].agents, mem[m].agents)
  BY <1>1, InPlace
<1>3. /\ perf' = perf /\ treasury' = treasury /\ minted' = minted /\ held' = held /\ paid' = paid
      /\ receipts' = receipts /\ policy' = policy /\ corrupt' = corrupt
      /\ operator' = operator /\ overlap' = overlap
  BY DEF AuditExecution, money
<1>4. /\ mem[m].loaded \notin Stopped /\ mem[m].org = "EXECUTING" /\ mem[m].org \notin Stopped
      /\ mem[m].task = "APPROVED" /\ m \in receipts
  BY <1>1, <1>2 DEF CopyOK, ReceiptOK, Places, Stopped, Executing
<1> DEFINE rewarded(r) == IF r \in Answerable(mem[m])
                          THEN RecordTaskSuccess(mem[m].agents[r], mem[m].alloc, mem[m].prop.credits,
                                                 mem[m].prop.value)
                          ELSE mem[m].agents[r]
           after == [r \in Roster |-> rewarded(r)]
<1>5. CASE VerifyExecution(mem[m])
  <2> DEFINE s == [mem[m] EXCEPT !.pc = "complete", !.task = "COMPLETED", !.agents = after]
  <2>1. SyncState(m, s)
    BY <1>5 DEF AuditExecution
  <2>2. after \in [Roster -> AgentType] /\ AllRemember(mem[m].agents, after)
    <3>1. mem[m].alloc \in Nat /\ mem[m].prop.credits \in Nat /\ mem[m].prop.value \in Nat
      BY <1>2, CarriedType DEF CopyType
    <3>2. ASSUME NEW r \in Roster
          PROVE  rewarded(r) \in AgentType /\ Remembers(mem[m].agents[r], rewarded(r))
      <4>1. mem[m].agents[r] \in AgentType
        BY <1>2
      <4> QED
        BY <3>1, <4>1, SuccessKeeps, RemembersItself
    <3> HIDE DEF rewarded
    <3> QED
      BY <3>2 DEF AllRemember
  <2> HIDE DEF after
  <2>3. s \in CopyType /\ s.pc = "complete" /\ s.org = mem[m].org /\ s.loaded = mem[m].loaded
        /\ s.agents = after /\ s.task = "COMPLETED"
    BY <1>2, <2>2 DEF CopyType, Everywhere, Places, TaskType
  <2> HIDE DEF s
  <2>4. CopyOK(s)
    BY <1>4, <2>3 DEF CopyOK, Executing
  <2>5. Settles(m, s)
    BY <1>4, <2>3 DEF Settles, Charging, Ended
  <2> QED
    BY <1>1, <1>2, <1>3, <1>4, <2>1, <2>2, <2>3, <2>4, <2>5, SyncStep DEF MissionInv, MissionTypes
<1>6. CASE ~VerifyExecution(mem[m])
  <2> DEFINE s == [mem[m] EXCEPT !.pc = "raised", !.task = "FAILED", !.org = "FAILED"]
  <2>1. SyncState(m, s)
    BY <1>6 DEF AuditExecution
  <2>2. s \in CopyType /\ s.pc = "raised" /\ s.org = "FAILED" /\ s.loaded = mem[m].loaded
        /\ s.agents = mem[m].agents /\ s.task = "FAILED"
    BY <1>2 DEF CopyType, Everywhere, Ended, TaskType, OrgStates
  <2> HIDE DEF s
  <2>3. CopyOK(s)
    BY <2>2 DEF CopyOK, Executing, Places
  <2>4. corrupt
    BY <1>4, <1>6 DEF VerifyExecution, VerifyAuthorizationToken
  <2>5. Settles(m, s)
    BY <1>4, <2>2, <2>4 DEF Settles, Charging, Ended
  <2> QED
    BY <1>1, <1>2, <1>3, <1>4, <2>1, <2>2, <2>3, <2>5, SyncStep DEF MissionInv, MissionTypes
<1> QED
  BY <1>5, <1>6

(* A rejection costs the answerable agents; the mission replans or fails. *)
LEMMA ReplanStep ==
  ASSUME MissionInv, NEW m \in Missions, NEW p \in Proposals, Replan(m, p)
  PROVE  Progress(m)
<1>1. mem[m].pc = "REJECTED" /\ mem[m].pc \in Places
  BY DEF Replan, Places
<1>2. /\ m \in Live /\ mem[m] \in CopyType /\ CopyOK(mem[m]) /\ ReceiptOK(m)
      /\ mem[m].agents \in [Roster -> AgentType]
  BY <1>1, InPlace
<1>3. /\ perf' = perf /\ treasury' = treasury /\ minted' = minted /\ held' = held /\ paid' = paid
      /\ receipts' = receipts /\ policy' = policy /\ corrupt' = corrupt
      /\ operator' = operator /\ overlap' = overlap
  BY DEF Replan, money
<1>4. /\ mem[m].loaded \notin Stopped /\ mem[m].org = "EXECUTING" /\ mem[m].org \notin Stopped
      /\ m \notin receipts
  BY <1>1, <1>2 DEF CopyOK, ReceiptOK, Places, Stopped, Executing, Charging, Ended
<1> DEFINE worse == Violating(mem[m])
           i == mem[m].attempts + 1
           s == [mem[m] EXCEPT !.agents = worse, !.attempts = i]
<1>5. \/ SyncState(m, [s EXCEPT !.pc = "raised", !.task = "FAILED", !.org = "FAILED",
                                 !.agents = Failing(s)])
      \/ SyncState(m, [CEOCalled(s) EXCEPT !.pc = "propose", !.task = "IN_PROGRESS",
                                           !.prop = Capped(s, p)])
      \/ Raise(m) /\ rows' = rows
  BY DEF Replan
<1>6. worse \in [Roster -> AgentType] /\ AllRemember(mem[m].agents, worse)
  BY <1>2, PenaltiesKeep
<1>7. i \in Nat
  BY <1>2 DEF CopyType
<1> HIDE DEF worse, i
<1>8. s \in CopyType /\ s.org = mem[m].org /\ s.loaded = mem[m].loaded /\ s.agents = worse
      /\ s.alloc \in Nat
  BY <1>2, <1>6, <1>7 DEF CopyType
<1> HIDE DEF s
<1>9. CASE SyncState(m, [s EXCEPT !.pc = "raised", !.task = "FAILED", !.org = "FAILED",
                                  !.agents = Failing(s)])
  <2> DEFINE fallen == Failing(s)
             u == [s EXCEPT !.pc = "raised", !.task = "FAILED", !.org = "FAILED", !.agents = fallen]
  <2>1. fallen \in [Roster -> AgentType] /\ AllRemember(worse, fallen)
    BY <1>6, <1>8, PenaltiesKeep
  <2>2. AllRemember(mem[m].agents, fallen)
    BY <1>2, <1>6, <2>1, RememberChain
  <2>3. SyncState(m, u)
    BY <1>9
  <2> HIDE DEF fallen
  <2>4. u \in CopyType /\ u.pc = "raised" /\ u.org = "FAILED" /\ u.agents = fallen /\ u.task = "FAILED"
    BY <1>8, <2>1 DEF CopyType, Everywhere, Ended, TaskType, OrgStates
  <2> HIDE DEF u
  <2>5. CopyOK(u)
    BY <2>4 DEF CopyOK, Executing, Places
  <2>6. Settles(m, u)
    BY <1>4, <2>4 DEF Settles, Charging, Ended
  <2> QED
    BY <1>1, <1>2, <1>3, <1>4, <2>2, <2>3, <2>4, <2>5, <2>6, SyncStep DEF MissionInv, MissionTypes
<1>10. CASE SyncState(m, [CEOCalled(s) EXCEPT !.pc = "propose", !.task = "IN_PROGRESS",
                                              !.prop = Capped(s, p)])
  <2> DEFINE capped == Capped(s, p)
  <2>1. PICK j, k \in Nat : CEOCalled(s) = [s EXCEPT !.ceo = j, !.calls = k]
    BY <1>8, CallKeeps
  <2> DEFINE c == CEOCalled(s)
             u == [c EXCEPT !.pc = "propose", !.task = "IN_PROGRESS", !.prop = capped]
  <2>2. c \in CopyType /\ c.org = s.org /\ c.loaded = s.loaded /\ c.agents = s.agents
    BY <1>8, <2>1 DEF CopyType
  <2>3. SyncState(m, u)
    BY <1>10
  <2>4. capped \in Carried
    BY <1>8, CappedKeeps, MissionAssumption DEF Carried
  <2> HIDE DEF c, capped
  <2>5. u \in CopyType /\ u.pc = "propose" /\ u.org = c.org /\ u.loaded = c.loaded
        /\ u.agents = c.agents /\ u.task = "IN_PROGRESS"
    BY <2>2, <2>4 DEF CopyType, Everywhere, Places, TaskType
  <2> HIDE DEF u
  <2>6. CopyOK(u)
    BY <1>4, <1>8, <2>2, <2>5 DEF CopyOK, Executing
  <2>7. Settles(m, u)
    BY <1>4, <2>5 DEF Settles, Charging, Ended
  <2> QED
    BY <1>1, <1>2, <1>3, <1>4, <1>6, <1>8, <2>2, <2>3, <2>5, <2>6, <2>7, SyncStep
       DEF MissionInv, MissionTypes
<1>11. CASE Raise(m) /\ rows' = rows
  BY <1>1, <1>2, <1>3, <1>11, QuitStep DEF Raise, InExecution
<1> QED
  BY <1>5, <1>9, <1>10, <1>11

(* An escalation stops the organisation it was working for. *)
LEMMA EscalationStep ==
  ASSUME MissionInv, NEW m \in Missions, Escalate(m)
  PROVE  Progress(m)
<1>1. mem[m].pc = "ESCALATE" /\ mem[m].pc \in Places
  BY DEF Escalate, Places
<1>2. /\ m \in Live /\ mem[m] \in CopyType /\ CopyOK(mem[m]) /\ ReceiptOK(m)
      /\ AllRemember(mem[m].agents, mem[m].agents)
  BY <1>1, InPlace
<1> DEFINE s == [mem[m] EXCEPT !.pc = "complete", !.org = "PAUSED"]
<1>3. /\ SyncState(m, s)
      /\ perf' = perf /\ treasury' = treasury /\ minted' = minted /\ held' = held /\ paid' = paid
      /\ receipts' = receipts /\ policy' = policy /\ corrupt' = corrupt
      /\ operator' = operator /\ overlap' = overlap
  BY DEF Escalate, money
<1>4. s \in CopyType /\ s.pc = "complete" /\ s.org = "PAUSED" /\ s.loaded = mem[m].loaded
      /\ s.agents = mem[m].agents /\ s.task = mem[m].task
  BY <1>2 DEF CopyType, Everywhere, Places, OrgStates
<1> HIDE DEF s
<1>5. mem[m].loaded \notin Stopped /\ mem[m].org \notin Stopped /\ m \notin receipts
      /\ mem[m].task # "COMPLETED"
  BY <1>1, <1>2 DEF CopyOK, ReceiptOK, Places, Stopped, Executing, Charging, Ended
<1>6. CopyOK(s)
  BY <1>4, <1>5 DEF CopyOK, Executing
<1>7. Settles(m, s)
  BY <1>4, <1>5 DEF Settles, Charging, Ended
<1> QED
  BY <1>1, <1>2, <1>3, <1>4, <1>5, <1>6, <1>7, SyncStep DEF MissionInv, MissionTypes

(* The end of the mission leaves the organisation stopped if it stopped it. *)
LEMMA CompletionStep ==
  ASSUME MissionInv, NEW m \in Missions, CompleteMission(m)
  PROVE  Progress(m)
<1>1. mem[m].pc = "complete" /\ mem[m].pc \in Places
  BY DEF CompleteMission, Places
<1>2. /\ m \in Live /\ mem[m] \in CopyType /\ CopyOK(mem[m]) /\ ReceiptOK(m)
      /\ AllRemember(mem[m].agents, mem[m].agents)
  BY <1>1, InPlace
<1> DEFINE final == IF mem[m].org = "PAUSED" THEN "PAUSED" ELSE "COMPLETED"
           c == CEOCalled(mem[m])
           s == [c EXCEPT !.pc = "close", !.org = final]
<1>3. /\ perf' = perf /\ treasury' = treasury /\ minted' = minted /\ held' = held /\ paid' = paid
      /\ receipts' = receipts /\ policy' = policy /\ corrupt' = corrupt
      /\ operator' = operator /\ overlap' = overlap
  BY DEF CompleteMission, money
<1>4. CASE CEOMayCall(mem[m])
  <2>1. SyncState(m, s)
    BY <1>4 DEF CompleteMission
  <2>2. PICK j, k \in Nat : c = [mem[m] EXCEPT !.ceo = j, !.calls = k]
    BY <1>2, CallKeeps
  <2>3. c \in CopyType /\ c.loaded = mem[m].loaded /\ c.agents = mem[m].agents /\ c.task = mem[m].task
    BY <1>2, <2>2 DEF CopyType
  <2> HIDE DEF c
  <2>4. /\ final \in OrgStates
        /\ (mem[m].org \in Stopped => final \in Stopped)
    BY <1>1, <1>2 DEF OrgStates, Stopped, CopyOK
  <2> HIDE DEF final
  <2>5. s \in CopyType /\ s.pc = "close" /\ s.org = final /\ s.loaded = c.loaded
        /\ s.agents = c.agents /\ s.task = c.task
    BY <2>3, <2>4 DEF CopyType, Everywhere, Places
  <2> HIDE DEF s
  <2>6. mem[m].loaded \notin Stopped
    BY <1>1, <1>2 DEF CopyOK, Places
  <2>7. CopyOK(s)
    BY <2>3, <2>5, <2>6 DEF CopyOK, Executing
  <2>8. Settles(m, s)
    BY <1>1, <1>2, <2>3, <2>5 DEF ReceiptOK, Settles, Charging, Ended
  <2> QED
    BY <1>1, <1>2, <1>3, <2>1, <2>3, <2>4, <2>5, <2>6, <2>7, <2>8, SyncStep
       DEF MissionInv, MissionTypes
<1>5. CASE ~CEOMayCall(mem[m])
  <2>1. Raise(m) /\ rows' = rows
    BY <1>5 DEF CompleteMission
  <2> QED
    BY <1>1, <1>2, <1>3, <2>1, QuitStep DEF Raise, InExecution
<1> QED
  BY <1>4, <1>5

(* The close records the performance of the agents. *)
LEMMA CloseStep ==
  ASSUME MissionInv, NEW m \in Missions, CloseMission(m)
  PROVE  Progress(m)
<1>1. mem[m].pc = "close" /\ mem[m].pc \in Places
  BY DEF CloseMission, Places
<1>2. /\ m \in Live /\ mem[m] \in CopyType /\ CopyOK(mem[m]) /\ ReceiptOK(m)
      /\ mem[m].agents \in [Roster -> AgentType] /\ AllRemember(mem[m].agents, mem[m].agents)
  BY <1>1, InPlace
<1> DEFINE s == [mem[m] EXCEPT !.pc = "done"]
<1>3. /\ SyncState(m, s) /\ perf' = [r \in Roster |-> RecordedScore(mem[m].agents[r])]
      /\ treasury' = treasury /\ minted' = minted /\ held' = held /\ paid' = paid
      /\ receipts' = receipts /\ policy' = policy /\ corrupt' = corrupt
      /\ operator' = operator /\ overlap' = overlap
  BY DEF CloseMission, money
<1>4. perf' \in [Roster -> Scores]
  <2>1. \A r \in Roster : RecordedScore(mem[m].agents[r]) \in Scores
    BY <1>2, RecordedScoreKeeps
  <2> QED
    BY <1>3, <2>1
<1>5. s \in CopyType /\ s.pc = "done" /\ s.org = mem[m].org /\ s.agents = mem[m].agents
      /\ s.task = mem[m].task
  BY <1>2 DEF CopyType, Everywhere, Ended
<1> HIDE DEF s
<1>6. mem[m].loaded \notin Stopped
  BY <1>1, <1>2 DEF CopyOK, Places
<1>7. CopyOK(s)
  BY <1>5 DEF CopyOK, Executing, Places
<1>8. Settles(m, s)
  BY <1>1, <1>2, <1>5 DEF ReceiptOK, Settles, Charging, Ended
<1> QED
  BY <1>1, <1>2, <1>3, <1>4, <1>5, <1>6, <1>7, <1>8, SyncStep

(* A mission cut short. *)
LEMMA AbortStep ==
  ASSUME MissionInv, NEW m \in Missions, Abort(m)
  PROVE  Progress(m)
<1> DEFINE c == IF mem[m].pc \in InExecution THEN "cut" ELSE "raised"
<1>1. m \in Live /\ mem[m] \in CopyType
  BY DEF Abort, MissionInv, MissionTypes
<1>2. Become(m, [mem[m] EXCEPT !.pc = c])
  BY <1>1 DEF Abort
<1>3. c \in {"raised", "cut"} /\ (mem[m].pc \in InExecution => c = "cut")
  OBVIOUS
<1>4. /\ rows' = rows /\ perf' = perf /\ treasury' = treasury /\ minted' = minted /\ held' = held /\ paid' = paid
      /\ receipts' = receipts /\ policy' = policy /\ corrupt' = corrupt
      /\ operator' = operator /\ overlap' = overlap
  BY DEF Abort, money
<1> HIDE DEF c
<1> QED
  BY <1>1, <1>2, <1>3, <1>4, QuitStep

(* Every step of a mission that has begun is progress. *)
LEMMA StepProgress ==
  ASSUME MissionInv, NEW m \in Missions, Step(m) \/ Abort(m)
  PROVE  Progress(m)
BY MintStep, StartStep, PlanStep, IntelligenceStep, ProposalStep, ReservationStep,
   CommitStep, RollbackStep, ReceiptStep, AuditStepKeeps, ReplanStep, EscalationStep, CompletionStep,
   CloseStep, AbortStep DEF Step

(* A new request: the missions it runs with, and itself, are known to overlap. *)
LEMMA CreationKeeps ==
  ASSUME MissionInv, NEW m \in Missions, NEW b \in Budgets, CreateMission(m, b)
  PROVE  MissionInv'
<1> DEFINE place == IF Mints THEN "mint" ELSE "start"
           s == [Idle EXCEPT !.pc = place, !.budget = b, !.org = row, !.loaded = row,
                             !.agents = LoadAgents]
<1>1. /\ mem[m].pc = "idle" /\ rows' = rows /\ perf' = perf /\ treasury' = treasury
      /\ minted' = minted /\ held' = held /\ paid' = paid /\ receipts' = receipts /\ policy' = policy
      /\ corrupt' = corrupt /\ operator' = operator
  BY DEF CreateMission, money
<1>2. \/ Become(m, s) /\ overlap' = IF Live = {} THEN overlap ELSE overlap \cup Live \cup {m}
      \/ Become(m, [Idle EXCEPT !.pc = "refused"]) /\ overlap' = overlap
  BY DEF CreateMission
<1>3. row' = row /\ agents' = agents /\ tasks' = tasks
  BY <1>1 DEF rows
<1>4. MissionTypes /\ mem \in [Missions -> CopyType] /\ mem[m] \in CopyType
  BY DEF MissionInv, MissionTypes
<1>5. m \notin Live /\ Live \subseteq Missions
  BY <1>1 DEF Live
<1>6. m \notin receipts /\ tasks[m] # "COMPLETED" /\ held[m] = 0 /\ paid[m] = 0
  BY <1>1 DEF MissionInv, ReceiptsOK, ReceiptOK, Charging, Ended
<1>7. ASSUME NEW t, Become(m, t), t \in CopyType, CopyOK(t), t.task = "PENDING",
             t.pc \in {"mint", "start", "refused"}, overlap' \subseteq Missions, overlap \subseteq overlap',
             OverlapsKnown', AloneCurrent'
      PROVE  MissionInv'
  <2>1. /\ mem' = [mem EXCEPT ![m] = mem'[m]] /\ mem'[m] \in CopyType /\ CopyOK(mem'[m])
        /\ mem'[m].pc = t.pc /\ mem'[m].task = "PENDING"
    BY <1>4, <1>7, Becomes
  <2>2. /\ \A k \in Missions \ {m} : mem'[k] = mem[k]
        /\ mem' \in [Missions -> CopyType]
    BY <1>4, <2>1
  <2>3. MissionTypes'
    BY <1>1, <1>3, <1>4, <1>7, <2>2 DEF MissionTypes, Missions
  <2>4. CopiesOK'
    <3>1. \A k \in Missions : CopyOK(mem'[k])
      BY <2>1, <2>2 DEF MissionInv, CopiesOK
    <3> QED
      BY <3>1 DEF CopiesOK, CopyOK, Decided, AgentStatusRule, Missions
  <2>5. ReceiptsOK'
    <3>1. ASSUME NEW k \in Missions \ {m} PROVE ReceiptOK(k)'
      BY <1>1, <1>3, <2>2 DEF MissionInv, ReceiptsOK, ReceiptOK
    <3>2. ReceiptOK(m)'
      BY <1>1, <1>3, <1>6, <1>7, <2>1 DEF ReceiptOK, Charging, Ended
    <3> QED
      BY <3>1, <3>2 DEF ReceiptsOK, Missions
  <2>6. FundsAccounted'
    <3>1. overlap' = {} => overlap = {}
      BY <1>7
    <3> QED
      BY <1>1, <3>1 DEF MissionInv, FundsAccounted
  <2> QED
    BY <1>7, <2>3, <2>4, <2>5, <2>6 DEF MissionInv
<1>8. CASE Become(m, [Idle EXCEPT !.pc = "refused"]) /\ overlap' = overlap
  <2> DEFINE t == [Idle EXCEPT !.pc = "refused"]
  <2>1. t \in CopyType /\ CopyOK(t) /\ t.task = "PENDING" /\ t.pc = "refused" /\ t.pc \in Ended
    BY IdleType DEF Ended
  <2>2. Become(m, t)
    BY <1>8
  <2> HIDE DEF t
  <2>3. mem' = [mem EXCEPT ![m] = mem'[m]] /\ mem'[m].pc = "refused"
    BY <1>4, <2>1, <2>2, Becomes
  <2>4. Live' = Live
    BY <1>4, <1>5, <2>1, <2>3 DEF Live, Missions, Ended
  <2>5. OverlapsKnown' /\ AloneCurrent'
    <3>1. \A k \in Live : mem'[k] = mem[k]
      BY <1>4, <1>5, <2>3
    <3>2. OverlapsKnown'
      BY <1>8, <2>4 DEF MissionInv, OverlapsKnown
    <3>3. AloneCurrent'
      <4>1. \A k \in Live \ overlap :
                /\ AllSame(mem[k].agents, agents)
                /\ mem[k].pc = "mint" => treasury = 0
                /\ overlap = {} /\ mem[k].pc = "dispatch" => WithinBudget(treasury + held[k])
        BY DEF MissionInv, AloneCurrent
      <4>2. \A k \in Live' \ overlap' :
                /\ AllSame(mem'[k].agents, agents')
                /\ mem'[k].pc = "mint" => treasury' = 0
                /\ overlap' = {} /\ mem'[k].pc = "dispatch" => WithinBudget(treasury' + held'[k])
        BY <1>1, <1>3, <1>8, <2>4, <3>1, <4>1
      <4> QED
        BY <4>2 DEF AloneCurrent, AllSame, SameStanding, WithinBudget
    <3> QED
      BY <3>2, <3>3
  <2> QED
    BY <1>4, <1>7, <1>8, <2>1, <2>2, <2>5 DEF MissionTypes
<1>9. CASE Become(m, s) /\ overlap' = IF Live = {} THEN overlap ELSE overlap \cup Live \cup {m}
  <2>1. place \in {"mint", "start"} /\ (place = "mint" => treasury = 0)
    BY DEF Mints
  <2>2. Become(m, s)
    BY <1>9
  <2> HIDE DEF place
  <2>3. /\ s \in CopyType /\ s.pc = place /\ s.task = "PENDING" /\ s.budget = b /\ s.org = row
        /\ s.loaded = row /\ s.agents = agents
    <3>1. b \in Nat /\ row \in OrgStates /\ agents \in [Roster -> AgentType] /\ LoadAgents = agents
      BY <1>4, MissionAssumption DEF MissionTypes, LoadAgents
    <3>2. place \in Everywhere
      BY <2>1 DEF Everywhere, Places
    <3> QED
      BY <3>1, <3>2, IdleType DEF CopyType
  <2> HIDE DEF s
  <2>4. CopyOK(s)
    BY <2>1, <2>3 DEF CopyOK, Executing, Places
  <2>5. s.pc \notin Ended
    BY <2>1, <2>3 DEF Ended
  <2>6. mem' = [mem EXCEPT ![m] = s] /\ mem'[m] = s
    BY <1>4, <2>2, <2>4, <2>3, <2>5, Becomes
  <2>7. Live' = Live \cup {m}
    <3>1. s.pc \notin Ended \cup {"idle"}
      BY <2>1, <2>3, <2>5
    <3> QED
      BY <1>4, <1>5, <2>6, <3>1 DEF Live, Missions, Ended
  <2>8. overlap' \subseteq Missions /\ overlap \subseteq overlap'
    BY <1>4, <1>5, <1>9 DEF MissionTypes
  <2>9. OverlapsKnown'
    BY <1>9, <2>7 DEF OverlapsKnown
  <2>10. AloneCurrent'
    <3>1. \A k \in Live' \ overlap' : Live = {} /\ k = m
      BY <1>9, <2>7
    <3>2. AllSame(s.agents, agents)
      BY <2>3 DEF AllSame, SameStanding
    <3>3. \A k \in Live' \ overlap' : /\ AllSame(mem'[k].agents, agents')
                                      /\ mem'[k].pc = "mint" => treasury' = 0
                                      /\ mem'[k].pc # "dispatch"
      BY <1>1, <1>3, <2>1, <2>3, <2>6, <3>1, <3>2
    <3> QED
      BY <3>3 DEF AloneCurrent, AllSame, SameStanding
  <2> QED
    BY <1>7, <2>1, <2>2, <2>3, <2>4, <2>8, <2>9, <2>10
<1> QED
  BY <1>2, <1>8, <1>9

(* The operator, a new profile and damage to the chain touch no mission. *)
LEMMA EnvironmentKeeps ==
  ASSUME MissionInv, row' \in OrgStates, policy' \in Policies, corrupt' \in BOOLEAN,
         corrupt => corrupt',
         operator' \in [Operators -> {"idle", "pause", "resume"}],
         UNCHANGED <<agents, perf, tasks, treasury, minted, held, paid, receipts, mem, overlap>>
  PROVE  MissionInv'
<1>1. Live' = Live
  BY DEF Live, Missions, Ended
<1>2. MissionTypes'
  BY DEF MissionInv, MissionTypes, Missions
<1>3. CopiesOK'
  BY DEF MissionInv, CopiesOK, CopyOK, Decided, AgentStatusRule, Missions
<1>4. ReceiptsOK'
  BY DEF MissionInv, ReceiptsOK, ReceiptOK, Missions, Charging, Ended
<1>5. OverlapsKnown'
  BY <1>1 DEF MissionInv, OverlapsKnown
<1>6. AloneCurrent'
  BY <1>1 DEF MissionInv, AloneCurrent, AllSame, SameStanding, WithinBudget
<1>7. FundsAccounted'
  BY DEF MissionInv, FundsAccounted
<1> QED
  BY <1>2, <1>3, <1>4, <1>5, <1>6, <1>7 DEF MissionInv

(* The first organisation satisfies the invariant. *)
LEMMA MissionStarts == ASSUME MissionInit PROVE MissionInv
<1>1. /\ row = "PLANNING" /\ agents = Recruits /\ perf = [r \in Roster |-> 0]
      /\ tasks = [m \in Missions |-> "PENDING"] /\ treasury = 0 /\ minted = 0
      /\ held = [m \in Missions |-> 0] /\ paid = [m \in Missions |-> 0] /\ receipts = {}
      /\ operator = [o \in Operators |-> "idle"] /\ policy \in Policies /\ corrupt = FALSE
      /\ mem = [m \in Missions |-> Idle] /\ overlap = {}
  BY DEF MissionInit
<1>2. Live = {}
  BY <1>1, IdleType DEF Live
<1>3. MissionTypes
  <2>1. 0 \in Scores
    BY ScaleOf
  <2>2. perf \in [Roster -> Scores]
    <3> DEFINE nil == 0
    <3>1. nil \in Scores /\ perf = [r \in Roster |-> nil]
      BY <1>1, <2>1
    <3> HIDE DEF nil
    <3> QED
      BY <3>1
  <2>3. row \in OrgStates /\ tasks \in [Missions -> TaskType]
    BY <1>1 DEF OrgStates, TaskType
  <2>4. /\ treasury \in Nat /\ minted \in Nat
        /\ held \in [Missions -> Nat] /\ paid \in [Missions -> Nat]
        /\ operator \in [Operators -> {"idle", "pause", "resume"}]
    BY <1>1
  <2>5. agents \in [Roster -> AgentType] /\ mem \in [Missions -> CopyType]
    BY <1>1, RecruitsType, IdleType
  <2> QED
    BY <1>1, <2>2, <2>3, <2>4, <2>5 DEF MissionTypes
<1>4. CopiesOK
  <2>1. CopyOK(Idle)
    BY IdleType DEF CopyOK, Places, Executing
  <2> QED
    BY <1>1, <2>1 DEF CopiesOK
<1>5. ReceiptsOK
  BY <1>1, IdleType DEF ReceiptsOK, ReceiptOK
<1>6. OverlapsKnown /\ AloneCurrent
  BY <1>2 DEF OverlapsKnown, AloneCurrent
<1>7. FundsAccounted
  <2>1. /\ held \in [Missions -> Int] /\ \A x \in Missions : held[x] = 0
        /\ paid \in [Missions -> Int] /\ \A x \in Missions : paid[x] = 0
    BY <1>1
  <2>2. SumFunction(held) = 0 /\ SumFunction(paid) = 0
    BY <2>1, MissionsFinite, SumZero
  <2>3. PICK b \in Budgets : b \in Nat
    BY MissionAssumption
  <2>4. treasury <= b
    BY <1>1, <2>3
  <2> QED
    BY <1>1, <2>2, <2>4 DEF FundsAccounted
<1> QED
  BY <1>3, <1>4, <1>5, <1>6, <1>7 DEF MissionInv

-----------------------------------------------------------------------------
(* The theorems. *)

(* What can change the organisation's row, its agents and its receipts. *)
LEMMA MissionMoves ==
  ASSUME MissionInv, [MissionNext]_missionVars
  PROVE  \/ \E m \in Missions : Progress(m)
         \/ \E m \in Missions, b \in Budgets : CreateMission(m, b)
         \/ \E o \in Operators : PauseMissionRead(o) \/ PauseMissionWrite(o) \/ ResumeMissionRead(o) \/ ResumeMissionWrite(o)
         \/ Corrupt \/ \E c \in Policies : CreatePolicy(c)
         \/ UNCHANGED missionVars
BY StepProgress DEF MissionNext

(* Every mission, every environment step keeps the invariant. *)
LEMMA MissionKeeps == MissionInv /\ [MissionNext]_missionVars => MissionInv'
<1> SUFFICES ASSUME MissionInv, [MissionNext]_missionVars PROVE MissionInv'
  OBVIOUS
<1>1. /\ row \in OrgStates /\ policy \in Policies /\ corrupt \in BOOLEAN
      /\ operator \in [Operators -> {"idle", "pause", "resume"}]
  BY DEF MissionInv, MissionTypes
<1>2. ASSUME NEW m \in Missions, Progress(m) PROVE MissionInv'
  BY <1>2, ProgressKeeps
<1>3. ASSUME NEW m \in Missions, NEW b \in Budgets, CreateMission(m, b) PROVE MissionInv'
  BY <1>3, CreationKeeps
<1>4. ASSUME NEW o \in Operators, PauseMissionRead(o) \/ ResumeMissionRead(o) PROVE MissionInv'
  <2>1. operator' \in [Operators -> {"idle", "pause", "resume"}]
    BY <1>1, <1>4 DEF PauseMissionRead, ResumeMissionRead
  <2> QED
    BY <1>1, <1>4, <2>1, EnvironmentKeeps DEF PauseMissionRead, ResumeMissionRead, rows, money
<1>5. ASSUME NEW o \in Operators, PauseMissionWrite(o) \/ ResumeMissionWrite(o) PROVE MissionInv'
  <2>1. row' \in OrgStates /\ operator' \in [Operators -> {"idle", "pause", "resume"}]
    BY <1>1, <1>5 DEF PauseMissionWrite, ResumeMissionWrite, OrgStates
  <2> QED
    BY <1>1, <1>5, <2>1, EnvironmentKeeps DEF PauseMissionWrite, ResumeMissionWrite, money
<1>6. CASE Corrupt
  BY <1>1, <1>6, EnvironmentKeeps DEF Corrupt, rows, money
<1>7. ASSUME NEW c \in Policies, CreatePolicy(c) PROVE MissionInv'
  <2>1. row' \in OrgStates
    BY <1>1, <1>7 DEF CreatePolicy, OrgStates
  <2> QED
    BY <1>1, <1>7, <2>1, EnvironmentKeeps DEF CreatePolicy, money
<1>8. CASE UNCHANGED missionVars
  BY <1>1, <1>8, EnvironmentKeeps DEF missionVars, rows, money
<1> QED
  BY <1>2, <1>3, <1>4, <1>5, <1>6, <1>7, <1>8, MissionMoves

(* The inductive invariant of missions: the copies say what their places      *)
(* need, receipts are settled with their tasks, overlapping missions are      *)
(* known, and one that runs alone holds the stored standing.                  *)
THEOREM MissionInvariant == MissionSpec => []MissionInv
<1>1. MissionInit => MissionInv
  BY MissionStarts
<1> QED
  BY <1>1, MissionKeeps, PTL DEF MissionSpec

(* However the missions, the operator and the failures of the environment     *)
(* interleave, and wherever a mission is cut short, every credit minted is in *)
(* the treasury, in ESCROW or spent where its mission's place says, and every *)
(* receipt of an ended mission is settled with its task.                      *)
THEOREM BooksTheorem == MissionSpec => []BooksAgree
<1>1. MissionInv => BooksAgree
  <2> SUFFICES ASSUME MissionInv PROVE BooksAgree
    OBVIOUS
  <2>1. MissionTypeOK
    <3>1. ASSUME NEW m \in Missions
          PROVE  /\ mem[m].pc \in {"idle"} \cup Places \cup Ended /\ mem[m].task \in TaskType
                 /\ {mem[m].org, mem[m].loaded} \subseteq OrgStates
                 /\ mem[m].agents \in [Roster -> AgentType] /\ mem[m].assignee \subseteq Roster
                 /\ {mem[m].alloc, mem[m].funds, mem[m].attempts, mem[m].ceo, mem[m].calls} \subseteq Nat
      <4>1. mem[m] \in CopyType
        BY DEF MissionInv, MissionTypes
      <4> QED
        BY <4>1 DEF CopyType, Everywhere
    <3> QED
      BY <3>1 DEF MissionInv, MissionTypes, MissionTypeOK
  <2>2. receipts \subseteq Missions /\ \A m \in Missions : ReceiptOK(m)
    BY DEF MissionInv, ReceiptsOK, MissionTypes
  <2>3. ReceiptSettled
    <3>1. ASSUME NEW m \in receipts, mem[m].pc \in Ended
          PROVE  \/ tasks[m] = "COMPLETED"
                 \/ tasks[m] = "FAILED" /\ corrupt
                 \/ mem[m].pc = "cut"
      BY <2>2, <3>1 DEF ReceiptOK
    <3>2. ASSUME NEW m \in Missions, tasks[m] = "COMPLETED" PROVE m \in receipts
      BY <2>2, <3>2 DEF ReceiptOK
    <3> QED
      BY <3>1, <3>2 DEF ReceiptSettled
  <2>4. CreditsPlaced
    <3> SUFFICES ASSUME NEW m \in Missions
                 PROVE  /\ held[m] > 0 => /\ mem[m].pc \in {"dispatch", "cut"}
                                          /\ paid[m] = 0 /\ m \notin receipts
                        /\ paid[m] > 0 => m \in receipts \/ mem[m].pc \in {"receipt", "cut"}
      BY DEF CreditsPlaced
    <3>1. held[m] > 0 => held[m] # 0
      BY DEF MissionInv, MissionTypes
    <3>2. paid[m] > 0 => paid[m] # 0
      BY DEF MissionInv, MissionTypes
    <3> QED
      BY <2>2, <3>1, <3>2 DEF ReceiptOK
  <2> QED
    BY <2>1, <2>3, <2>4 DEF MissionInv, BooksAgree
<1> QED
  BY <1>1, MissionInvariant, PTL

(* What is reserved and what is spent is within the profile the mission read  *)
(* when it started and needs no human, the mission did not load a stopped     *)
(* organisation, and - unless missions overlapped - the amount is within the  *)
(* stored standing of the CEO, who is not demoted.                            *)
THEOREM ChargeTheorem == MissionSpec => ChargeAuthorised
<1>1. ASSUME MissionInv, NEW m \in Missions, mem[m].pc \in {"APPROVED", "dispatch"},
             mem[m].prop.act \in ExecutorActs
      PROVE  Authorised(m, mem[m].prop.credits)
  <2> DEFINE c == mem[m].prop.credits
  <2>1. mem[m].pc \in Places
    BY <1>1 DEF Places
  <2>2. m \in Live /\ mem[m] \in CopyType /\ CopyOK(mem[m])
    BY <1>1, <2>1, InPlace
  <2>3. mem[m].loaded \notin Stopped /\ Decided(mem[m])
    BY <1>1, <2>2 DEF CopyOK, Places
  <2>4. c <= Min({mem[m].config.ceiling, mem[m].config.agentCeiling})
    <3>1. mem[m].config.ceiling \in Int /\ mem[m].config.agentCeiling \in Int
      <4>1. mem[m].config \in PolicyType
        BY <2>2 DEF CopyType
      <4> QED
        BY <4>1 DEF PolicyType
    <3>2. Min({mem[m].config.ceiling, mem[m].config.agentCeiling})
            \in {mem[m].config.ceiling, mem[m].config.agentCeiling}
      BY <3>1, MinOfTwo
    <3> QED
      BY <2>3, <3>2 DEF Decided
  <2>5. ASSUME m \notin overlap
        PROVE  agents["CEO"].status \notin Demoted /\ c <= agents["CEO"].ceiling
    <3>1. SameStanding(mem[m].agents["CEO"], agents["CEO"])
      BY <1>1, <2>2, <2>5, MissionAssumption DEF MissionInv, AloneCurrent, AllSame
    <3>2. mem[m].agents["CEO"].status \notin Demoted
      BY <1>1, <2>3 DEF Decided, AgentStatusRule, Disabled, Demoted, ExecutorActs
    <3> QED
      BY <2>3, <3>1, <3>2 DEF SameStanding, Decided
  <2> QED
    BY <2>3, <2>4, <2>5 DEF Decided, Authorised
<1>2. MissionInv /\ [MissionNext]_missionVars => [AuthorisedCharges]_missionVars
  <2> SUFFICES ASSUME MissionInv, [MissionNext]_missionVars, NEW m \in Missions,
                      held'[m] > held[m] \/ paid'[m] # paid[m]
               PROVE  /\ held'[m] > held[m] => Authorised(m, held'[m])
                      /\ paid'[m] # paid[m] => Authorised(m, paid'[m])
    BY DEF AuthorisedCharges
  <2>1. held \in [Missions -> Nat] /\ paid \in [Missions -> Nat] /\ held[m] \in Nat
    BY DEF MissionInv, MissionTypes
  <2>2. ~(held[m] > held[m])
    BY <2>1
  <2>3. ReserveCredits(m) \/ CommitReservation(m) \/ RollbackReservation(m)
    <3>1. PICK k \in Missions : Step(k)
      BY <2>2 DEF MissionNext, missionVars, money, CreateMission, Abort, PauseMissionRead, PauseMissionWrite,
         ResumeMissionRead, ResumeMissionWrite, Corrupt, CreatePolicy
    <3>2. k = m
      <4>1. Progress(k)
        BY <3>1, StepProgress
      <4> QED
        BY <2>2, <4>1 DEF Progress, Accounts
    <3> QED
      BY <2>2, <3>1, <3>2 DEF Step, Mint, StartMission, DecomposeAndPlan, RunIntelligence,
         ProcessProposal, SaveReceipt, AuditExecution, Replan, Escalate, CompleteMission, CloseMission,
         money
  <2>4. CASE ReserveCredits(m)
    <3>1. paid' = paid /\ mem[m].pc = "APPROVED"
      BY <2>4 DEF ReserveCredits
    <3>2. held' # held
      BY <2>2, <3>1
    <3>3. held' = [held EXCEPT ![m] = mem[m].prop.credits] /\ mem[m].prop.act \in ExecutorActs
      BY <2>4, <3>2 DEF ReserveCredits
    <3>4. held'[m] = mem[m].prop.credits
      BY <2>1, <3>3
    <3> QED
      BY <1>1, <3>1, <3>3, <3>4
  <2>5. CASE CommitReservation(m)
    <3>1. /\ mem[m].pc = "dispatch" /\ mem[m].pc \in Places
          /\ paid' = [paid EXCEPT ![m] = held[m]] /\ held' = [held EXCEPT ![m] = 0]
      BY <2>5 DEF CommitReservation, Places
    <3>2. CopyOK(mem[m]) /\ ReceiptOK(m)
      BY <3>1, InPlace
    <3>3. paid'[m] = mem[m].prop.credits /\ mem[m].prop.act \in ExecutorActs /\ held'[m] = 0
      BY <2>1, <3>1, <3>2 DEF CopyOK, ReceiptOK
    <3>4. ~(held'[m] > held[m])
      BY <2>1, <3>3
    <3> QED
      BY <1>1, <3>1, <3>3, <3>4
  <2>6. CASE RollbackReservation(m)
    <3>1. paid' = paid /\ held'[m] = 0
      BY <2>1, <2>6 DEF RollbackReservation
    <3>2. ~(held'[m] > held[m])
      BY <2>1, <3>1
    <3> QED
      BY <3>1, <3>2
  <2> QED
    BY <2>3, <2>4, <2>5, <2>6
<1> QED
  BY <1>2, MissionInvariant, PTL DEF MissionSpec, ChargeAuthorised

(* A stop ends by an operator's write that no longer looks at the row, or     *)
(* under a mission that had already read the organisation when it was         *)
(* stopped.                                                                   *)
THEOREM StopTheorem == MissionSpec => StopEndsExplained
<1>1. MissionInv /\ [MissionNext]_missionVars => [ExplainedEnd]_missionVars
  <2> SUFFICES ASSUME MissionInv, [MissionNext]_missionVars, row' # row, row \in Stopped
               PROVE  \/ /\ mem' = mem
                         /\ \E o \in Operators :
                               /\ operator' = [operator EXCEPT ![o] = "idle"]
                               /\ <<operator[o], row'>> \in {<<"resume", "EXECUTING">>,
                                                             <<"pause", "PAUSED">>}
                      \/ \E m \in Live : /\ mem'[m] # mem[m] /\ mem[m].loaded \notin Stopped
                                         /\ mem[m].org \in Stopped => row' \in Stopped
    BY DEF ExplainedEnd
  <2>1. ASSUME NEW m \in Missions, Progress(m)
        PROVE  /\ m \in Live /\ mem'[m] # mem[m] /\ mem[m].loaded \notin Stopped
               /\ mem[m].org \in Stopped => row' \in Stopped
    BY <2>1 DEF Progress, Moves, Writes
  <2>2. ASSUME NEW m \in Missions, NEW b \in Budgets, CreateMission(m, b) PROVE FALSE
    BY <2>2 DEF CreateMission, rows
  <2>3. ASSUME NEW o \in Operators, PauseMissionRead(o) \/ ResumeMissionRead(o) PROVE FALSE
    BY <2>3 DEF PauseMissionRead, ResumeMissionRead, rows
  <2>4. ASSUME NEW o \in Operators, PauseMissionWrite(o) \/ ResumeMissionWrite(o)
        PROVE  /\ mem' = mem /\ operator' = [operator EXCEPT ![o] = "idle"]
               /\ <<operator[o], row'>> \in {<<"resume", "EXECUTING">>, <<"pause", "PAUSED">>}
    BY <2>4 DEF PauseMissionWrite, ResumeMissionWrite
  <2>5. ASSUME NEW c \in Policies, CreatePolicy(c) PROVE FALSE
    BY <2>5 DEF CreatePolicy, Stopped
  <2>6. ~Corrupt /\ ~UNCHANGED missionVars
    BY DEF Corrupt, rows, missionVars
  <2> QED
    BY <2>1, <2>2, <2>3, <2>4, <2>5, <2>6, MissionMoves
<1> QED
  BY <1>1, MissionInvariant, PTL DEF MissionSpec, StopEndsExplained

(* While missions do not overlap, no stored agent forgets a violation, a      *)
(* failure or its retirement.                                                 *)
THEOREM StandingTheorem == MissionSpec => StandingKept
<1>1. MissionInv /\ [MissionNext]_missionVars => [StandingRemembered]_missionVars
  <2> SUFFICES ASSUME MissionInv, [MissionNext]_missionVars, overlap' = {}
               PROVE  AllRemember(agents, agents')
    BY DEF StandingRemembered, AllRemember, Remembers
  <2>1. agents \in [Roster -> AgentType]
    BY DEF MissionInv, MissionTypes
  <2>2. ASSUME agents' = agents PROVE AllRemember(agents, agents')
    BY <2>1, <2>2, RemembersItself DEF AllRemember
  <2>3. ASSUME NEW m \in Missions, Progress(m) PROVE AllRemember(agents, agents')
    <3>1. m \in Live \ overlap /\ agents' \in [Roster -> AgentType]
      BY <2>3 DEF Progress, Moves, Writes
    <3>2. AllSame(mem[m].agents, agents)
      BY <3>1 DEF MissionInv, AloneCurrent
    <3>3. mem[m].agents \in [Roster -> AgentType]
      <4>1. mem[m] \in CopyType
        BY DEF MissionInv, MissionTypes
      <4> QED
        BY <4>1 DEF CopyType
    <3>4. AllRemember(agents, mem[m].agents)
      BY <2>1, <3>2, <3>3, SameRemembers
    <3>5. agents' = agents \/ AllRemember(mem[m].agents, agents')
      BY <2>3 DEF Progress, Writes
    <3> QED
      BY <2>1, <2>2, <3>1, <3>3, <3>4, <3>5, RememberChain
  <2>4. ASSUME NEW m \in Missions, NEW b \in Budgets, CreateMission(m, b) PROVE agents' = agents
    BY <2>4 DEF CreateMission, rows
  <2>5. \/ \E o \in Operators : PauseMissionRead(o) \/ PauseMissionWrite(o) \/ ResumeMissionRead(o) \/ ResumeMissionWrite(o)
        \/ Corrupt \/ UNCHANGED missionVars
        => agents' = agents
    BY DEF PauseMissionRead, PauseMissionWrite, ResumeMissionRead, ResumeMissionWrite, Corrupt, rows, missionVars
  <2>6. ASSUME NEW c \in Policies, CreatePolicy(c) PROVE agents' = agents
    BY <2>6 DEF CreatePolicy
  <2> QED
    BY <2>2, <2>3, <2>4, <2>5, <2>6, MissionMoves
<1> QED
  BY <1>1, MissionInvariant, PTL DEF MissionSpec, StandingKept
=============================================================================
