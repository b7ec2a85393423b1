--------------------------- MODULE Worktrees_proofs ---------------------------
(***************************************************************************)
(* Proofs about the worktrees, for any roles and branches and any number   *)
(* of invocations at a time.                                               *)
(***************************************************************************)
EXTENDS Worktrees, TLAPS

\* FailsForCause is not inductive: a spawn that nothing stands in the way of
\* has to find, at every step until it ends, its path and its branch free.
JobSound(i) ==
  /\ job[i].pc \in UnderWay => job[i].role \in Roles /\ job[i].branch \in Branches
  /\ job[i].pc = "path" => job[i].branch \in branches
  /\ job[i].pc = "again" /\ job[i].cause = "none" => job[i].branch \in branches
  /\ job[i].pc = "remove" => job[i].role \in Roles
  /\ job[i].pc \in UnderWay /\ job[i].cause = "none" =>
       wt[job[i].role] = "none" /\ ~Held(job[i].branch)
  /\ job[i].pc = "failed" => job[i].cause # "none"

WorktreesInv ==
  /\ WorktreesTypeOK
  /\ \A i \in Invocations : JobSound(i)
  /\ BranchesAccounted

-----------------------------------------------------------------------------
(* The operators on jobs *)

LEMMA Blamed ==
  ASSUME NEW j \in Job, NEW cause \in Causes
  PROVE  /\ Blame(j, cause) \in Job
         /\ Blame(j, cause).pc = j.pc /\ Blame(j, cause).role = j.role
         /\ Blame(j, cause).branch = j.branch
         /\ Blame(j, cause).cause # "none"
  BY DEF Blame, Job, Causes

\* What Disturb leaves of the invocations.
LEMMA Disturbed ==
  ASSUME NEW c \in [Invocations -> Job], NEW own, NEW r, NEW b
  PROVE  /\ Disturb(c, own, r, b) \in [Invocations -> Job]
         /\ \A j \in Invocations :
              /\ Disturb(c, own, r, b)[j].pc = c[j].pc
              /\ Disturb(c, own, r, b)[j].role = c[j].role
              /\ Disturb(c, own, r, b)[j].branch = c[j].branch
              /\ c[j].cause # "none" => Disturb(c, own, r, b)[j].cause # "none"
              /\ j \notin own /\ c[j].pc \in UnderWay /\ Disturb(c, own, r, b)[j].cause = "none"
                   => c[j].role # r /\ c[j].branch # b
              /\ j \in own => Disturb(c, own, r, b)[j] = c[j]
<1>1. ASSUME NEW j \in Invocations
      PROVE  /\ Disturb(c, own, r, b)[j] \in Job
             /\ Disturb(c, own, r, b)[j].pc = c[j].pc
             /\ Disturb(c, own, r, b)[j].role = c[j].role
             /\ Disturb(c, own, r, b)[j].branch = c[j].branch
             /\ c[j].cause # "none" => Disturb(c, own, r, b)[j].cause # "none"
             /\ j \notin own /\ c[j].pc \in UnderWay /\ Disturb(c, own, r, b)[j].cause = "none"
                  => c[j].role # r /\ c[j].branch # b
             /\ j \in own => Disturb(c, own, r, b)[j] = c[j]
  <2>1. c[j] \in Job  OBVIOUS
  <2>2. "rival" \in Causes  BY DEF Causes
  <2>3. CASE j \notin own /\ c[j].pc \in UnderWay /\ (c[j].role = r \/ c[j].branch = b)
    <3>1. Disturb(c, own, r, b)[j] = Blame(c[j], "rival")  BY <2>3 DEF Disturb
    <3>2. QED  BY <2>1, <2>2, <2>3, <3>1, Blamed
  <2>4. CASE ~(j \notin own /\ c[j].pc \in UnderWay /\ (c[j].role = r \/ c[j].branch = b))
    <3>1. Disturb(c, own, r, b)[j] = c[j]  BY <2>4 DEF Disturb
    <3>2. QED  BY <2>1, <2>4, <3>1
  <2>5. QED  BY <2>3, <2>4
<1>2. Disturb(c, own, r, b) \in [Invocations -> Job]
  BY <1>1 DEF Disturb
<1>3. QED  BY <1>1, <1>2

\* Moving one invocation on leaves the others alone.
LEMMA Moved ==
  ASSUME NEW c \in [Invocations -> Job], NEW i \in Invocations,
         NEW pc \in UnderWay \cup Finished
  PROVE  LET d == [c EXCEPT ![i].pc = pc] IN
         /\ d \in [Invocations -> Job]
         /\ d[i].pc = pc /\ d[i].role = c[i].role
         /\ d[i].branch = c[i].branch /\ d[i].cause = c[i].cause
         /\ \A j \in Invocations : j # i => d[j] = c[j]
  BY DEF Job

\* ... and so does git's refusal.
LEMMA Refused ==
  ASSUME job \in [Invocations -> Job], NEW i \in Invocations,
         NEW pc \in UnderWay \cup Finished, GitFails(i, pc)
  PROVE  /\ job' \in [Invocations -> Job]
         /\ job'[i].pc = pc /\ job'[i].role = job[i].role
         /\ job'[i].branch = job[i].branch /\ job'[i].cause # "none"
         /\ \A j \in Invocations : j # i => job'[j] = job[j]
<1>1. job[i] \in Job /\ "git" \in Causes  BY DEF Causes
<1> DEFINE k == Blame(job[i], "git")
<1>2. /\ k \in Job /\ k.role = job[i].role /\ k.branch = job[i].branch
      /\ k.cause # "none"
  BY <1>1, Blamed
<1>3. job' = [job EXCEPT ![i] = [k EXCEPT !.pc = pc]]  BY DEF GitFails
<1> HIDE DEF k
<1>4. /\ [k EXCEPT !.pc = pc] \in Job /\ [k EXCEPT !.pc = pc].pc = pc
      /\ [k EXCEPT !.pc = pc].role = k.role /\ [k EXCEPT !.pc = pc].branch = k.branch
      /\ [k EXCEPT !.pc = pc].cause = k.cause
  BY <1>2 DEF Job
<1>5. QED  BY <1>2, <1>3, <1>4

-----------------------------------------------------------------------------
(* The invariant *)

\* An invocation stays sound when others act, if what it counts on stays.
LEMMA OtherSound ==
  ASSUME WorktreesInv, NEW j \in Invocations, branches \subseteq branches',
         job'[j].pc = job[j].pc, job'[j].role = job[j].role,
         job'[j].branch = job[j].branch,
         job[j].cause # "none" => job'[j].cause # "none",
         (/\ job[j].pc \in UnderWay /\ job'[j].cause = "none"
          /\ wt[job[j].role] = "none" /\ ~Held(job[j].branch))
           => wt'[job[j].role] = "none" /\ ~Held(job[j].branch)'
  PROVE  JobSound(j)'
<1>1. JobSound(j)  BY DEF WorktreesInv
<1>2. QED  BY <1>1 DEF JobSound

LEMMA WorktreesInitInv == WorktreesInit => WorktreesInv
<1> SUFFICES ASSUME WorktreesInit PROVE WorktreesInv  OBVIOUS
<1>1. \A i \in Invocations : job[i] = Fresh  BY DEF WorktreesInit
<1>2. Fresh \in Job  BY DEF Fresh, Job
<1>3. WorktreesTypeOK
  BY <1>1, <1>2 DEF WorktreesInit, WorktreesTypeOK
<1>4. ASSUME NEW i \in Invocations PROVE JobSound(i)
  BY <1>1 DEF Fresh, JobSound, UnderWay
<1>5. BranchesAccounted
  BY NamesAssumption DEF WorktreesInit, BranchesAccounted
<1>6. QED  BY <1>3, <1>4, <1>5 DEF WorktreesInv

\* An invocation that moves without a change to the worktrees.
LEMMA StandStill ==
  ASSUME WorktreesInv, NEW i \in Invocations, UNCHANGED <<wt, gone, head, branches>>,
         lost' \subseteq branches, lost \subseteq lost',
         job' \in [Invocations -> Job],
         \A j \in Invocations : j # i => job'[j] = job[j],
         JobSound(i)',
         job[i].pc \in UnderWay =>
           \/ job'[i].branch = job[i].branch /\ job'[i].pc \in UnderWay
           \/ job[i].branch \in lost' \/ job[i].branch \notin branches
  PROVE  WorktreesInv'
<1>1. WorktreesTypeOK /\ BranchesAccounted  BY DEF WorktreesInv
<1>2. WorktreesTypeOK'  BY <1>1 DEF WorktreesTypeOK
<1>3. ASSUME NEW j \in Invocations PROVE JobSound(j)'
  <2>1. CASE j = i  BY <2>1
  <2>2. CASE j # i
    <3>1. job'[j] = job[j]  BY <2>2
    <3>2. Held(job[j].branch)' = Held(job[j].branch)  BY <3>1 DEF Held
    <3>3. QED  BY <3>1, <3>2, OtherSound
  <2>3. QED  BY <2>1, <2>2
<1>4. ASSUME NEW c \in branches
      PROVE  \/ Held(c) \/ c \in lost'
             \/ \E j \in Invocations : job'[j].branch = c /\ job'[j].pc \in UnderWay
  <2>1. CASE Held(c) \/ c \in lost  BY <2>1
  <2>2. CASE \E j \in Invocations : job[j].branch = c /\ job[j].pc \in UnderWay
    <3>1. PICK j \in Invocations : job[j].branch = c /\ job[j].pc \in UnderWay
      BY <2>2
    <3>2. CASE j = i  BY <3>1, <3>2
    <3>3. CASE j # i  BY <3>1, <3>3
    <3>4. QED  BY <3>2, <3>3
  <2>3. QED  BY <1>1, <2>1, <2>2 DEF BranchesAccounted
<1>5. BranchesAccounted'
  <2>1. \A c \in branches : Held(c)' = Held(c)  BY DEF Held
  <2>2. QED  BY <1>1, <1>4, <2>1 DEF BranchesAccounted
<1>6. QED  BY <1>2, <1>3, <1>5 DEF WorktreesInv

\* An invocation that begins, or makes room for a later one.
LEMMA BeginInv ==
  ASSUME WorktreesInv, NEW i \in Invocations, job[i].pc \notin UnderWay,
         NEW new \in Job, job' = [job EXCEPT ![i] = new],
         UNCHANGED <<wt, gone, head, branches, lost>>,
         \/ new.pc \in {"new", "existing", "notfound"}
         \/ new.pc = "remove" /\ new.role \in Roles
         \/ /\ new.pc = "branch" /\ new.role \in Roles /\ new.branch \in Branches
            /\ new.cause = "none" => wt[new.role] = "none" /\ ~Held(new.branch)
  PROVE  WorktreesInv'
<1>1. WorktreesTypeOK  BY DEF WorktreesInv
<1>2. /\ job' \in [Invocations -> Job] /\ job'[i] = new
      /\ \A j \in Invocations : j # i => job'[j] = job[j]
  BY <1>1 DEF WorktreesTypeOK
<1>3. Held(job[i].branch)' = Held(new.branch)  BY <1>2 DEF Held
<1>4. JobSound(i)'  BY <1>2, <1>3 DEF JobSound, UnderWay
<1>5. lost' \subseteq branches /\ lost \subseteq lost'  BY <1>1 DEF WorktreesTypeOK
<1>6. QED  BY <1>2, <1>4, <1>5, StandStill

LEMMA SpawnInv ==
  ASSUME WorktreesInv, NEW i \in Invocations, Spawn(i)
  PROVE  WorktreesInv'
<1>1. PICK r \in Roles, b \in Branches :
        job' = [job EXCEPT ![i] =
                  [pc |-> IF Exists(r) THEN "existing" ELSE "branch",
                   role |-> r, branch |-> b,
                   cause |-> IF Held(b) THEN "held"
                             ELSE IF r \in gone THEN "stale" ELSE "none"]]
  BY DEF Spawn
<1> DEFINE pc == IF Exists(r) THEN "existing" ELSE "branch"
           cause == IF Held(b) THEN "held" ELSE IF r \in gone THEN "stale" ELSE "none"
           new == [pc |-> pc, role |-> r, branch |-> b, cause |-> cause]
<1>2. /\ pc = "existing" \/ (pc = "branch" /\ ~Exists(r))
      /\ cause \in {"held", "stale"} \/ (cause = "none" /\ ~Held(b) /\ r \notin gone)
  OBVIOUS
<1>3. pc = "branch" /\ cause = "none" => wt[r] = "none" /\ ~Held(b)
  BY <1>2 DEF Exists
<1>4. pc \in {"existing", "branch"} /\ cause \in {"held", "stale", "none"}
  BY <1>2
<1> HIDE DEF pc, cause
<1>5. new \in Job  BY <1>4 DEF Job, UnderWay, Finished, Causes
<1>6. job[i].pc \notin UnderWay /\ UNCHANGED <<wt, gone, head, branches, lost>>
  BY DEF Spawn, UnderWay
<1>7. job' = [job EXCEPT ![i] = new]  BY <1>1 DEF pc, cause
<1>8. \/ new.pc \in {"new", "existing", "notfound"}
      \/ /\ new.pc = "branch" /\ new.role \in Roles /\ new.branch \in Branches
         /\ new.cause = "none" => wt[new.role] = "none" /\ ~Held(new.branch)
  BY <1>3, <1>4
<1> HIDE DEF new
<1>9. QED  BY <1>5, <1>6, <1>7, <1>8, BeginInv

LEMMA PruneInv ==
  ASSUME WorktreesInv, NEW i \in Invocations, Prune(i)
  PROVE  WorktreesInv'
<1>1. PICK r \in Roles :
        job' = [job EXCEPT ![i] =
                  [Fresh EXCEPT !.pc = IF Exists(r) THEN "remove" ELSE "notfound",
                                !.role = r]]
  BY DEF Prune
<1> DEFINE pc == IF Exists(r) THEN "remove" ELSE "notfound"
           new == [Fresh EXCEPT !.pc = pc, !.role = r]
<1>2. pc \in {"remove", "notfound"}  OBVIOUS
<1>3. job' = [job EXCEPT ![i] = new]  BY <1>1
<1> HIDE DEF pc
<1>4. new \in Job /\ new.pc = pc /\ new.role = r
  BY <1>2 DEF Fresh, Job, UnderWay, Finished
<1>5. job[i].pc \notin UnderWay /\ UNCHANGED <<wt, gone, head, branches, lost>>
  BY DEF Prune, UnderWay
<1> HIDE DEF new
<1>6. QED  BY <1>2, <1>3, <1>4, <1>5, BeginInv

LEMMA LeaveInv ==
  ASSUME WorktreesInv, NEW i \in Invocations, Leave(i)
  PROVE  WorktreesInv'
<1>1. Fresh \in Job /\ Fresh.pc = "new"  BY DEF Fresh, Job
<1>2. job[i].pc \notin UnderWay /\ job' = [job EXCEPT ![i] = Fresh]
      /\ UNCHANGED <<wt, gone, head, branches, lost>>
  BY DEF Leave, UnderWay, Finished
<1>3. QED  BY <1>1, <1>2, BeginInv

\* git refuses, for a reason that others gave or for one of its own.
LEMMA FailInv ==
  ASSUME WorktreesInv, NEW i \in Invocations, job[i].pc \in UnderWay,
         NEW otherwise \in {"again", "failed"},
         GitFails(i, otherwise) \/ (GoesTo(i, otherwise) /\ job[i].cause # "none"),
         UNCHANGED <<wt, gone, head, branches>>,
         lost' = IF otherwise = "failed" THEN lost \cup ({job[i].branch} \cap branches)
                 ELSE lost
  PROVE  WorktreesInv'
<1>1. WorktreesTypeOK /\ JobSound(i) /\ job \in [Invocations -> Job]
  BY DEF WorktreesInv, WorktreesTypeOK
<1>2. otherwise \in UnderWay \cup Finished  BY DEF UnderWay, Finished
<1>3. /\ job' \in [Invocations -> Job]
      /\ job'[i].pc = otherwise /\ job'[i].role = job[i].role
      /\ job'[i].branch = job[i].branch /\ job'[i].cause # "none"
      /\ \A j \in Invocations : j # i => job'[j] = job[j]
  <2>1. CASE GitFails(i, otherwise)  BY <1>1, <1>2, <2>1, Refused
  <2>2. CASE GoesTo(i, otherwise) /\ job[i].cause # "none"
    BY <1>1, <1>2, <2>2, Moved DEF GoesTo
  <2>3. QED  BY <2>1, <2>2
<1>4. JobSound(i)'  BY <1>1, <1>3 DEF JobSound, UnderWay
<1>5. lost' \subseteq branches /\ lost \subseteq lost'  BY <1>1 DEF WorktreesTypeOK
<1>6. \/ job'[i].branch = job[i].branch /\ job'[i].pc \in UnderWay
      \/ job[i].branch \in lost' \/ job[i].branch \notin branches
  BY <1>3 DEF UnderWay
<1>7. QED  BY <1>3, <1>4, <1>5, <1>6, StandStill

LEMMA CheckOutInv ==
  ASSUME WorktreesInv, NEW i \in Invocations, job[i].pc \in {"path", "again"},
         NEW otherwise \in {"again", "failed"}, CheckOut(i, otherwise),
         UNCHANGED <<gone, head, branches>>,
         lost' = IF job'[i].pc = "failed" THEN lost \cup ({job[i].branch} \cap branches)
                 ELSE lost
  PROVE  WorktreesInv'
<1> DEFINE r == job[i].role
           b == job[i].branch
<1>1. /\ WorktreesTypeOK /\ BranchesAccounted /\ JobSound(i)
      /\ job \in [Invocations -> Job] /\ job[i].pc \in UnderWay
      /\ wt \in [Roles -> branches \cup {"none"}]
  BY DEF WorktreesInv, WorktreesTypeOK, UnderWay
<1>2. r \in Roles /\ b \in Branches /\ b # "none"
  BY <1>1, NamesAssumption DEF JobSound
<1>3. CASE /\ wt[r] = "none" /\ b \in branches /\ ~Held(b)
           /\ wt' = [wt EXCEPT ![r] = b]
           /\ job' = Disturb([job EXCEPT ![i].pc = "ok"], {i}, r, b)
  <2> DEFINE d == [job EXCEPT ![i].pc = "ok"]
  <2>1. job' = Disturb(d, {i}, r, b)  BY <1>3
  <2>2. /\ d \in [Invocations -> Job] /\ d[i].pc = "ok"
        /\ \A j \in Invocations : j # i => d[j] = job[j]
    <3>1. "ok" \in UnderWay \cup Finished  BY DEF Finished
    <3>2. QED  BY <1>1, <3>1, Moved
  <2> HIDE DEF d
  <2>3. /\ job' \in [Invocations -> Job] /\ job'[i].pc = "ok"
        /\ \A j \in Invocations : j # i =>
             /\ job'[j].pc = job[j].pc /\ job'[j].role = job[j].role
             /\ job'[j].branch = job[j].branch
             /\ job[j].cause # "none" => job'[j].cause # "none"
             /\ job[j].pc \in UnderWay /\ job'[j].cause = "none"
                  => job[j].role # r /\ job[j].branch # b
    <3>1. /\ Disturb(d, {i}, r, b) \in [Invocations -> Job]
          /\ \A j \in Invocations :
               /\ Disturb(d, {i}, r, b)[j].pc = d[j].pc
               /\ Disturb(d, {i}, r, b)[j].role = d[j].role
               /\ Disturb(d, {i}, r, b)[j].branch = d[j].branch
               /\ d[j].cause # "none" => Disturb(d, {i}, r, b)[j].cause # "none"
               /\ j \notin {i} /\ d[j].pc \in UnderWay
                    /\ Disturb(d, {i}, r, b)[j].cause = "none"
                    => d[j].role # r /\ d[j].branch # b
      BY <2>2, Disturbed
    <3>2. QED  BY <2>1, <2>2, <3>1
  <2>4. lost' = lost  BY <2>3
  <2>5. /\ wt' \in [Roles -> branches \cup {"none"}] /\ wt'[r] = b
        /\ \A s \in Roles : s # r => wt'[s] = wt[s]
    BY <1>1, <1>2, <1>3
  <2>6. WorktreesTypeOK'
    BY <1>1, <1>2, <2>3, <2>4, <2>5 DEF WorktreesTypeOK
  <2>7. ASSUME NEW j \in Invocations PROVE JobSound(j)'
    <3>1. CASE j = i  BY <2>3, <3>1 DEF JobSound, UnderWay
    <3>2. CASE j # i
      <4>1. ASSUME job[j].pc \in UnderWay, job'[j].cause = "none",
                   wt[job[j].role] = "none", ~Held(job[j].branch)
            PROVE  wt'[job[j].role] = "none" /\ ~Held(job[j].branch)'
        <5>1. job[j].role # r /\ job[j].branch # b /\ job[j].role \in Roles
              /\ job'[j].branch = job[j].branch
          BY <2>3, <3>2, <4>1 DEF WorktreesInv, JobSound
        <5>2. \A s \in Roles : wt'[s] # job[j].branch
          BY <2>5, <4>1, <5>1 DEF Held
        <5>3. ~Held(job[j].branch)'  BY <4>1, <5>1, <5>2 DEF Held
        <5>4. QED  BY <2>5, <4>1, <5>1, <5>3
      <4>2. QED  BY <2>3, <3>2, <4>1, OtherSound
    <3>3. QED  BY <3>1, <3>2
  <2>8. /\ \A s, t \in Roles : wt'[s] = wt'[t] /\ wt'[s] # "none" => s = t
        /\ \A s \in Roles : wt'[s] = head' => head' = "none"
    BY <1>1, <1>3, <2>5 DEF BranchesAccounted, Held
  <2>9. ASSUME NEW c \in branches
        PROVE  \/ Held(c)' \/ c \in lost
               \/ \E j \in Invocations : job'[j].branch = c /\ job'[j].pc \in UnderWay
    <3>1. CASE c = b  BY <1>2, <2>5, <3>1 DEF Held
    <3>2. CASE c # b
      <4>1. CASE Held(c)
        <5>1. c # "none"  BY <1>1, NamesAssumption DEF WorktreesTypeOK
        <5>2. CASE head = c  BY <5>2 DEF Held
        <5>3. CASE \E s \in Roles : wt[s] = c
          BY <1>3, <2>5, <5>1, <5>3 DEF Held
        <5>4. QED  BY <4>1, <5>2, <5>3 DEF Held
      <4>2. CASE c \in lost  BY <4>2
      <4>3. CASE \E j \in Invocations : job[j].branch = c /\ job[j].pc \in UnderWay
        BY <2>3, <3>2, <4>3
      <4>4. QED  BY <1>1, <4>1, <4>2, <4>3 DEF BranchesAccounted
    <3>3. QED  BY <3>1, <3>2
  <2>10. QED  BY <2>4, <2>6, <2>7, <2>8, <2>9 DEF WorktreesInv, BranchesAccounted
<1>4. CASE /\ wt[r] # "none" \/ b \notin branches \/ Held(b)
           /\ GoesTo(i, otherwise) /\ UNCHANGED wt
  <2>1. job[i].cause # "none"
    BY <1>1, <1>4 DEF JobSound, UnderWay
  <2>2. job'[i].pc = otherwise
    <3>1. otherwise \in UnderWay \cup Finished  BY DEF UnderWay, Finished
    <3>2. QED  BY <1>1, <1>4, <3>1, Moved DEF GoesTo
  <2>3. QED  BY <1>1, <1>4, <2>1, <2>2, FailInv
<1>5. CASE GitFails(i, otherwise) /\ UNCHANGED wt
  <2>1. job'[i].pc = otherwise
    <3>1. otherwise \in UnderWay \cup Finished  BY DEF UnderWay, Finished
    <3>2. QED  BY <1>1, <1>5, <3>1, Refused
  <2>2. QED  BY <1>1, <1>5, <2>1, FailInv
<1>6. QED  BY <1>3, <1>4, <1>5 DEF CheckOut

LEMMA AddBranchInv ==
  ASSUME WorktreesInv, NEW i \in Invocations, AddBranch(i)
  PROVE  WorktreesInv'
<1> DEFINE b == job[i].branch
<1>1. /\ WorktreesTypeOK /\ BranchesAccounted /\ JobSound(i)
      /\ job \in [Invocations -> Job] /\ job[i].pc = "branch" /\ job[i].pc \in UnderWay
      /\ UNCHANGED <<wt, gone, head, lost>>
  BY DEF WorktreesInv, WorktreesTypeOK, AddBranch, UnderWay
<1>2. job[i].role \in Roles /\ b \in Branches
  BY <1>1 DEF JobSound
<1>3. CASE b \in branches /\ GoesTo(i, "again") /\ UNCHANGED branches
  <2>1. "again" \in UnderWay \cup Finished  BY DEF UnderWay
  <2>2. /\ job' \in [Invocations -> Job]
        /\ job'[i].pc = "again" /\ job'[i].role = job[i].role
        /\ job'[i].branch = b /\ job'[i].cause = job[i].cause
        /\ \A j \in Invocations : j # i => job'[j] = job[j]
    BY <1>1, <1>3, <2>1, Moved DEF GoesTo
  <2>3. Held(b)' = Held(b)  BY <1>1, <2>2 DEF Held
  <2>4. JobSound(i)'
    BY <1>1, <1>2, <1>3, <2>2, <2>3 DEF JobSound, UnderWay
  <2>5. lost' \subseteq branches /\ lost \subseteq lost'
    BY <1>1 DEF WorktreesTypeOK
  <2>6. job'[i].branch = job[i].branch /\ job'[i].pc \in UnderWay
    BY <2>2 DEF UnderWay
  <2>7. QED  BY <1>1, <1>3, <2>2, <2>4, <2>5, <2>6, StandStill
<1>4. CASE GitFails(i, "again") /\ UNCHANGED branches
  BY <1>1, <1>4, FailInv
<1>5. CASE /\ b \notin branches /\ branches' = branches \cup {b}
           /\ job' = Disturb([job EXCEPT ![i].pc = "path"], {i}, "none", b)
  <2> DEFINE d == [job EXCEPT ![i].pc = "path"]
  <2>1. job' = Disturb(d, {i}, "none", b)  BY <1>5
  <2>2. /\ d \in [Invocations -> Job] /\ d[i].pc = "path"
        /\ d[i].branch = b /\ d[i].role = job[i].role /\ d[i].cause = job[i].cause
        /\ \A j \in Invocations : j # i => d[j] = job[j]
    <3>1. "path" \in UnderWay \cup Finished  BY DEF UnderWay
    <3>2. QED  BY <1>1, <3>1, Moved
  <2> HIDE DEF d
  <2>3. /\ job' \in [Invocations -> Job] /\ job'[i] = d[i]
        /\ \A j \in Invocations :
             /\ job'[j].pc = d[j].pc /\ job'[j].role = d[j].role
             /\ job'[j].branch = d[j].branch
             /\ d[j].cause # "none" => job'[j].cause # "none"
    <3>1. i \in {i}  OBVIOUS
    <3>2. QED  BY <2>1, <2>2, <3>1, Disturbed
  <2>4. WorktreesTypeOK'
    BY <1>1, <1>2, <1>5, <2>3 DEF WorktreesTypeOK
  <2>5. ASSUME NEW j \in Invocations PROVE JobSound(j)'
    <3>1. CASE j = i
      <4>1. Held(job[i].branch)' = Held(job[i].branch)  BY <1>1, <2>2, <2>3 DEF Held
      <4>2. QED
        BY <1>1, <1>2, <1>5, <2>2, <2>3, <3>1, <4>1 DEF JobSound, UnderWay
    <3>2. CASE j # i
      <4>1. job'[j].branch = job[j].branch  BY <2>2, <2>3, <3>2
      <4>2. Held(job[j].branch)' = Held(job[j].branch)  BY <1>1, <4>1 DEF Held
      <4>3. QED  BY <1>1, <1>5, <2>2, <2>3, <3>2, <4>2, OtherSound
    <3>3. QED  BY <3>1, <3>2
  <2>6. ASSUME NEW c \in branches'
        PROVE  \/ Held(c) \/ c \in lost
               \/ \E j \in Invocations : job'[j].branch = c /\ job'[j].pc \in UnderWay
    <3>1. CASE c = b  BY <2>2, <2>3, <3>1 DEF UnderWay
    <3>2. CASE c # b
      <4>1. \A j \in Invocations : job[j].branch = c => job'[j] .branch = c /\ job'[j].pc = job[j].pc
        BY <2>2, <2>3, <3>2
      <4>2. QED  BY <1>1, <1>5, <3>2, <4>1 DEF BranchesAccounted
    <3>3. QED  BY <3>1, <3>2
  <2>7. BranchesAccounted'
    <3>1. \A c \in branches' : Held(c)' = Held(c)  BY <1>1 DEF Held
    <3>2. QED  BY <1>1, <2>6, <3>1 DEF BranchesAccounted
  <2>8. QED  BY <2>4, <2>5, <2>7 DEF WorktreesInv
<1>6. QED  BY <1>3, <1>4, <1>5 DEF AddBranch

LEMMA RemoveInv ==
  ASSUME WorktreesInv, NEW i \in Invocations, Remove(i)
  PROVE  WorktreesInv'
<1> DEFINE r == job[i].role
<1>1. /\ WorktreesTypeOK /\ BranchesAccounted /\ JobSound(i)
      /\ job \in [Invocations -> Job] /\ wt \in [Roles -> branches \cup {"none"}]
      /\ job[i].pc = "remove" /\ job[i].pc \notin UnderWay
      /\ head' = head /\ branches' = branches
  BY DEF WorktreesInv, WorktreesTypeOK, Remove, UnderWay
<1>2. r \in Roles  BY <1>1 DEF JobSound
<1>3. CASE GoesTo(i, "warned") /\ UNCHANGED <<wt, gone, lost>>
  <2>1. "warned" \in UnderWay \cup Finished  BY DEF Finished
  <2>2. /\ job' \in [Invocations -> Job] /\ job'[i].pc = "warned"
        /\ \A j \in Invocations : j # i => job'[j] = job[j]
    BY <1>1, <1>3, <2>1, Moved DEF GoesTo
  <2>3. JobSound(i)'  BY <2>2 DEF JobSound, UnderWay
  <2>4. lost' \subseteq branches /\ lost \subseteq lost'
    BY <1>1, <1>3 DEF WorktreesTypeOK
  <2>5. QED  BY <1>1, <1>3, <2>2, <2>3, <2>4, StandStill
<1>4. CASE /\ wt[r] # "none" /\ wt' = [wt EXCEPT ![r] = "none"]
           /\ gone' = gone \ {r} /\ lost' = lost \cup {wt[r]}
           /\ job' = Disturb([job EXCEPT ![i].pc = "removed"], {i}, r, wt[r])
  <2> DEFINE b == wt[r]
             d == [job EXCEPT ![i].pc = "removed"]
  <2>1. job' = Disturb(d, {i}, r, b)  BY <1>4
  <2>2. /\ d \in [Invocations -> Job] /\ d[i].pc = "removed"
        /\ \A j \in Invocations : j # i => d[j] = job[j]
    <3>1. "removed" \in UnderWay \cup Finished  BY DEF Finished
    <3>2. QED  BY <1>1, <3>1, Moved
  <2> HIDE DEF d
  <2>3. /\ job' \in [Invocations -> Job] /\ job'[i].pc = "removed"
        /\ \A j \in Invocations : j # i =>
             /\ job'[j].pc = job[j].pc /\ job'[j].role = job[j].role
             /\ job'[j].branch = job[j].branch
             /\ job[j].cause # "none" => job'[j].cause # "none"
    BY <2>1, <2>2, Disturbed
  <2>4. /\ wt' \in [Roles -> branches \cup {"none"}] /\ wt'[r] = "none"
        /\ \A s \in Roles : s # r => wt'[s] = wt[s]
        /\ b \in branches
    BY <1>1, <1>2, <1>4
  <2>5. WorktreesTypeOK'
    BY <1>1, <1>4, <2>3, <2>4 DEF WorktreesTypeOK
  <2>6. ASSUME NEW j \in Invocations PROVE JobSound(j)'
    <3>1. CASE j = i  BY <2>3, <3>1 DEF JobSound, UnderWay
    <3>2. CASE j # i
      <4>1. ASSUME job[j].pc \in UnderWay, job'[j].cause = "none",
                   wt[job[j].role] = "none", ~Held(job[j].branch)
            PROVE  wt'[job[j].role] = "none" /\ ~Held(job[j].branch)'
        <5>1. /\ job[j].role \in Roles /\ job[j].branch \in Branches
              /\ job[j].branch # "none" /\ job'[j].branch = job[j].branch
          BY <2>3, <3>2, <4>1, NamesAssumption DEF WorktreesInv, JobSound
        <5>2. \A s \in Roles : wt'[s] # job[j].branch
          BY <2>4, <4>1, <5>1 DEF Held
        <5>3. ~Held(job[j].branch)'  BY <1>1, <4>1, <5>1, <5>2 DEF Held
        <5>4. QED  BY <2>4, <4>1, <5>1, <5>3
      <4>2. QED  BY <1>1, <2>3, <3>2, <4>1, OtherSound
    <3>3. QED  BY <3>1, <3>2
  <2>7. ASSUME NEW c \in branches
        PROVE  \/ Held(c)' \/ c \in lost'
               \/ \E j \in Invocations : job'[j].branch = c /\ job'[j].pc \in UnderWay
    <3>1. CASE c = b  BY <1>4, <3>1
    <3>2. CASE c # b
      <4>1. CASE head = c  BY <1>1, <4>1 DEF Held
      <4>2. CASE \E s \in Roles : wt[s] = c  BY <2>4, <3>2, <4>2 DEF Held
      <4>3. CASE c \in lost  BY <1>4, <4>3
      <4>4. CASE \E j \in Invocations : job[j].branch = c /\ job[j].pc \in UnderWay
        BY <1>1, <2>3, <4>4
      <4>5. QED  BY <1>1, <4>1, <4>2, <4>3, <4>4 DEF BranchesAccounted, Held
    <3>3. QED  BY <3>1, <3>2
  <2>8. /\ \A s, t \in Roles : wt'[s] = wt'[t] /\ wt'[s] # "none" => s = t
        /\ \A s \in Roles : wt'[s] = head' => head' = "none"
    BY <1>1, <2>4 DEF BranchesAccounted
  <2>9. QED  BY <1>1, <2>5, <2>6, <2>7, <2>8 DEF WorktreesInv, BranchesAccounted
<1>5. QED  BY <1>3, <1>4 DEF Remove

LEMMA SwitchInv == ASSUME WorktreesInv, Switch PROVE WorktreesInv'
<1>1. PICK b \in Branches \cup {"none"} :
        /\ \A r \in Roles : wt[r] # b \/ b = "none"
        /\ head' = b
        /\ branches' = branches \cup ({b} \ {"none"})
        /\ lost' = lost \cup ({head} \ {"none"})
        /\ job' = Disturb(job, {}, "none", b)
        /\ UNCHANGED <<wt, gone>>
  BY DEF Switch
<1>2. /\ WorktreesTypeOK /\ BranchesAccounted /\ job \in [Invocations -> Job]
      /\ head \in branches \cup {"none"}
  BY DEF WorktreesInv, WorktreesTypeOK
<1>3. /\ job' \in [Invocations -> Job]
      /\ \A j \in Invocations :
           /\ job'[j].pc = job[j].pc /\ job'[j].role = job[j].role
           /\ job'[j].branch = job[j].branch
           /\ job[j].cause # "none" => job'[j].cause # "none"
           /\ job[j].pc \in UnderWay /\ job'[j].cause = "none" => job[j].branch # b
  <2>1. \A j \in Invocations : j \notin {}  OBVIOUS
  <2>2. QED  BY <1>1, <1>2, <2>1, Disturbed
<1>4. WorktreesTypeOK'
  BY <1>1, <1>2, <1>3 DEF WorktreesTypeOK
<1>5. ASSUME NEW j \in Invocations PROVE JobSound(j)'
  <2>1. ASSUME job[j].pc \in UnderWay, job'[j].cause = "none",
               wt[job[j].role] = "none", ~Held(job[j].branch)
        PROVE  wt'[job[j].role] = "none" /\ ~Held(job[j].branch)'
    <3>1. job[j].branch # b /\ job'[j].branch = job[j].branch
      BY <1>3, <2>1
    <3>2. ~Held(job[j].branch)'  BY <1>1, <2>1, <3>1 DEF Held
    <3>3. QED  BY <1>1, <2>1, <3>2
  <2>2. QED  BY <1>1, <1>3, <2>1, OtherSound
<1>6. ASSUME NEW c \in branches'
      PROVE  \/ Held(c)' \/ c \in lost'
             \/ \E j \in Invocations : job'[j].branch = c /\ job'[j].pc \in UnderWay
  <2>1. CASE c = b  BY <1>1, <2>1 DEF Held
  <2>2. CASE c # b
    <3>1. c \in branches /\ c # "none"
      BY <1>1, <1>2, <2>2, NamesAssumption DEF WorktreesTypeOK
    <3>2. CASE head = c  BY <1>1, <3>1, <3>2
    <3>3. CASE \E s \in Roles : wt[s] = c  BY <1>1, <3>3 DEF Held
    <3>4. CASE c \in lost  BY <1>1, <3>4
    <3>5. CASE \E j \in Invocations : job[j].branch = c /\ job[j].pc \in UnderWay
      BY <1>3, <3>5
    <3>6. QED  BY <1>2, <3>1, <3>2, <3>3, <3>4, <3>5 DEF BranchesAccounted, Held
  <2>3. QED  BY <2>1, <2>2
<1>7. BranchesAccounted'  BY <1>1, <1>2, <1>6 DEF BranchesAccounted
<1>8. QED  BY <1>4, <1>5, <1>7 DEF WorktreesInv

LEMMA DeleteInv == ASSUME WorktreesInv, NEW r \in Roles, Delete(r) PROVE WorktreesInv'
<1>1. /\ UNCHANGED <<wt, head, branches, job, lost>> /\ gone' = gone \cup {r}
      /\ wt[r] # "none"
  BY DEF Delete, Exists
<1>2. WorktreesTypeOK'  BY <1>1 DEF WorktreesInv, WorktreesTypeOK
<1>4. ASSUME NEW j \in Invocations PROVE JobSound(j)'
  <2>1. JobSound(j)  BY DEF WorktreesInv
  <2>2. Held(job[j].branch)' = Held(job[j].branch)  BY <1>1 DEF Held
  <2>3. QED  BY <1>1, <2>1, <2>2 DEF JobSound
<1>5. BranchesAccounted'
  BY <1>1 DEF WorktreesInv, BranchesAccounted, Held
<1>6. QED  BY <1>2, <1>4, <1>5 DEF WorktreesInv

LEMMA WorktreesNextInv == WorktreesInv /\ [WorktreesNext]_worktreeVars => WorktreesInv'
<1> SUFFICES ASSUME WorktreesInv, [WorktreesNext]_worktreeVars PROVE WorktreesInv'
  OBVIOUS
<1>0. WorktreesTypeOK /\ job \in [Invocations -> Job]
  BY DEF WorktreesInv, WorktreesTypeOK
<1>1. ASSUME NEW i \in Invocations, AddPath(i) PROVE WorktreesInv'
  <2>1. /\ job[i].pc \in {"path", "again"} /\ CheckOut(i, "again")
        /\ UNCHANGED <<gone, head, branches, lost>>
    BY <1>1 DEF AddPath
  <2>2. job'[i].pc # "failed"
    <3> DEFINE d == [job EXCEPT ![i].pc = "ok"]
    <3>0. "ok" \in UnderWay \cup Finished /\ "again" \in UnderWay \cup Finished
      BY DEF UnderWay, Finished
    <3>1. CASE job' = Disturb(d, {i}, job[i].role, job[i].branch)
      <4>1. d \in [Invocations -> Job] /\ d[i].pc = "ok"  BY <1>0, <3>0, Moved
      <4> HIDE DEF d
      <4>2. QED  BY <3>1, <4>1, Disturbed
    <3>2. CASE GoesTo(i, "again")  BY <1>0, <3>0, <3>2, Moved DEF GoesTo
    <3>3. CASE GitFails(i, "again")  BY <1>0, <3>0, <3>3, Refused
    <3>4. QED  BY <2>1, <3>1, <3>2, <3>3 DEF CheckOut
  <2>3. QED  BY <2>1, <2>2, CheckOutInv
<1>2. ASSUME NEW i \in Invocations, AddAgain(i) PROVE WorktreesInv'
  <2>1. /\ job[i].pc \in {"path", "again"} /\ CheckOut(i, "failed")
        /\ UNCHANGED <<gone, head, branches>>
        /\ lost' = IF job'[i].pc = "failed"
                   THEN lost \cup ({job[i].branch} \cap branches) ELSE lost
    BY <1>2 DEF AddAgain
  <2>2. QED  BY <2>1, CheckOutInv
<1>3. CASE UNCHANGED worktreeVars
  <2>1. UNCHANGED <<wt, gone, head, branches, job, lost>>
    BY <1>3 DEF worktreeVars
  <2>2. QED
    BY <2>1 DEF WorktreesInv, WorktreesTypeOK, JobSound, BranchesAccounted, Held
<1>4. QED
  BY <1>1, <1>2, <1>3, SpawnInv, AddBranchInv, PruneInv, RemoveInv, LeaveInv,
     SwitchInv, DeleteInv DEF WorktreesNext

-----------------------------------------------------------------------------
\* A spawn fails only when another checkout has its branch, a registration is
\* left at its path, someone else makes or takes either meanwhile, or git
\* fails by itself, whatever the interleaving of any number of spawns and
\* prunes with the main checkout and with deleted directories.
THEOREM SpawnFailsForCause == WorktreesSpec => []FailsForCause
<1>1. WorktreesInv => FailsForCause
  BY DEF WorktreesInv, JobSound, FailsForCause
<1>2. QED
  BY <1>1, WorktreesInitInv, WorktreesNextInv, PTL DEF WorktreesSpec

\* Two roles never work on one branch, nor a role on that of the main checkout,
\* and every branch without a checkout has its reason.
THEOREM BranchesAreAccounted == WorktreesSpec => []BranchesAccounted
<1>1. WorktreesInv => BranchesAccounted  BY DEF WorktreesInv
<1>2. QED
  BY <1>1, WorktreesInitInv, WorktreesNextInv, PTL DEF WorktreesSpec

\* Type correctness of the worktrees and of every invocation.
THEOREM WorktreesTypeCorrect == WorktreesSpec => []WorktreesTypeOK
<1>1. WorktreesInv => WorktreesTypeOK  BY DEF WorktreesInv
<1>2. QED
  BY <1>1, WorktreesInitInv, WorktreesNextInv, PTL DEF WorktreesSpec
=============================================================================
