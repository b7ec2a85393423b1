------------------------------ MODULE Worktrees ------------------------------
(***************************************************************************)
(* scripts/orchestrate_fanout.py: invocations of spawn and prune over the  *)
(* worktrees of the agent roles, each a process of its own, and nothing    *)
(* that keeps two of them apart but git's own refusals.  Beside them the   *)
(* user changes the branch of the main checkout and deletes directories.   *)
(*                                                                         *)
(*   wt        the branch of the worktree git has registered at the path   *)
(*             of a role, or "none"                                        *)
(*   gone      roles whose worktree is registered and its directory not    *)
(*             there                                                       *)
(*   head      the branch of the main checkout, REPO_ROOT, or "none": no   *)
(*             branch, or one that no invocation names                     *)
(*   branches  the branches that exist                                     *)
(*   job       what each invocation is at                                  *)
(*   lost      history: the branches whose creator went away without a     *)
(*             worktree, or whose checkout was pruned or went elsewhere    *)
(***************************************************************************)
CONSTANTS
  Roles, Branches,
  Invocations      \* bound: the invocations at a time
ASSUME NamesAssumption == "none" \notin Roles \cup Branches

VARIABLES wt, gone, head, branches, job, lost
worktreeVars == <<wt, gone, head, branches, job, lost>>

\* What may stand in the way of a spawn; cause is a history: the first of it.
Causes == {"held", "stale", "rival", "git"}

Fresh == [pc |-> "new", role |-> "none", branch |-> "none", cause |-> "none"]

\* No worktree of an agent; branches may be there from before, and the main
\* checkout may have one of them.
WorktreesInit ==
  /\ wt = [r \in Roles |-> "none"]
  /\ gone = {}
  /\ branches \in SUBSET Branches
  /\ head \in branches \cup {"none"}
  /\ job = [i \in Invocations |-> Fresh]
  /\ lost = branches

\* git gives a branch to one checkout at a time, the main one included.
Held(b) == head = b \/ \E r \in Roles : wt[r] = b

Exists(r) == wt[r] # "none" /\ r \notin gone

UnderWay == {"branch", "path", "again"}
Finished == {"existing", "ok", "failed", "notfound", "removed", "warned"}

GoesTo(i, pc) == job' = [job EXCEPT ![i].pc = pc]

Blame(j, cause) == IF j.cause = "none" THEN [j EXCEPT !.cause = cause] ELSE j

\* Whoever changes the path of a role or takes a branch is a rival to the
\* other invocations under way for them.
Disturb(jobs, own, r, b) ==
  [i \in Invocations |->
     IF i \notin own /\ jobs[i].pc \in UnderWay
                     /\ (jobs[i].role = r \/ jobs[i].branch = b)
     THEN Blame(jobs[i], "rival") ELSE jobs[i]]

\* git may refuse by itself: a name that is none, a lock, a full disk.
GitFails(i, pc) ==
  job' = [job EXCEPT ![i] = [Blame(@, "git") EXCEPT !.pc = pc]]

\* spawn looks at the path: one that exists is handed out as it is.
Spawn(i) ==
  /\ job[i].pc = "new"
  /\ \E r \in Roles, b \in Branches :
       job' = [job EXCEPT ![i] =
                 [pc |-> IF Exists(r) THEN "existing" ELSE "branch",
                  role |-> r, branch |-> b,
                  cause |-> IF Held(b) THEN "held"
                            ELSE IF r \in gone THEN "stale" ELSE "none"]]
  /\ UNCHANGED <<wt, gone, head, branches, lost>>

\* git worktree add -b: first the branch, which must be new ...
AddBranch(i) ==
  /\ job[i].pc = "branch"
  /\ LET b == job[i].branch IN
       \/ /\ b \in branches
          /\ GoesTo(i, "again") /\ UNCHANGED branches
       \/ /\ b \notin branches
          /\ branches' = branches \cup {b}
          /\ job' = Disturb([job EXCEPT ![i].pc = "path"], {i}, "none", b)
       \/ GitFails(i, "again") /\ UNCHANGED branches
  /\ UNCHANGED <<wt, gone, head, lost>>

\* ... then the path, which must be free of a worktree, there or registered,
\* and the branch, which no other checkout may have.
CheckOut(i, otherwise) ==
  LET r == job[i].role
      b == job[i].branch
  IN  \/ /\ wt[r] = "none" /\ b \in branches /\ ~Held(b)
         /\ wt' = [wt EXCEPT ![r] = b]
         /\ job' = Disturb([job EXCEPT ![i].pc = "ok"], {i}, r, b)
      \/ /\ wt[r] # "none" \/ b \notin branches \/ Held(b)
         /\ GoesTo(i, otherwise) /\ UNCHANGED wt
      \/ GitFails(i, otherwise) /\ UNCHANGED wt

AddPath(i) ==
  /\ job[i].pc = "path" /\ CheckOut(i, "again")
  /\ UNCHANGED <<gone, head, branches, lost>>

\* Mutant of AddAgain: no second attempt.
AddAgainNever(i) ==
  /\ job[i].pc = "again" /\ GoesTo(i, "failed")
  /\ lost' = lost \cup ({job[i].branch} \cap branches)
  /\ UNCHANGED <<wt, gone, head, branches>>

\* Mutant of AddAgain: the second attempt with --force.
AddAgainForced(i) ==
  /\ job[i].pc = "again"
  /\ LET r == job[i].role
         b == job[i].branch
     IN  /\ b \in branches
         /\ wt' = [wt EXCEPT ![r] = b]
         /\ job' = Disturb([job EXCEPT ![i].pc = "ok"], {i}, r, b)
  /\ UNCHANGED <<gone, head, branches, lost>>

\* The second attempt, without -b; if it fails too the script exits with 1,
\* and a branch it made stays.
AddAgain(i) ==
  /\ job[i].pc = "again" /\ CheckOut(i, "failed")
  /\ lost' = IF job'[i].pc = "failed" THEN lost \cup ({job[i].branch} \cap branches)
             ELSE lost
  /\ UNCHANGED <<gone, head, branches>>

\* prune looks at the path, too ...
Prune(i) ==
  /\ job[i].pc = "new"
  /\ \E r \in Roles :
       job' = [job EXCEPT ![i] =
                 [Fresh EXCEPT !.pc = IF Exists(r) THEN "remove" ELSE "notfound",
                               !.role = r]]
  /\ UNCHANGED <<wt, gone, head, branches, lost>>

\* Mutant of Remove: the return code of git is not looked at.
RemoveUnchecked(i) ==
  /\ job[i].pc = "remove"
  /\ LET r == job[i].role IN
       /\ wt' = [wt EXCEPT ![r] = "none"]
       /\ gone' = gone \ {r}
       /\ lost' = lost \cup {wt[r]}
       /\ job' = Disturb([job EXCEPT ![i].pc = "removed"], {i}, r, wt[r])
  /\ UNCHANGED <<head, branches>>

\* ... and removes what git then has registered there, by force; the branch
\* stays.  git refuses a worktree that is locked.
Remove(i) ==
  /\ job[i].pc = "remove"
  /\ LET r == job[i].role IN
       \/ /\ wt[r] # "none"
          /\ wt' = [wt EXCEPT ![r] = "none"]
          /\ gone' = gone \ {r}
          /\ lost' = lost \cup {wt[r]}
          /\ job' = Disturb([job EXCEPT ![i].pc = "removed"], {i}, r, wt[r])
       \/ GoesTo(i, "warned") /\ UNCHANGED <<wt, gone, lost>>
  /\ UNCHANGED <<head, branches>>

\* The process has ended, and a later invocation takes its place.
Leave(i) ==
  /\ job[i].pc \in Finished
  /\ job' = [job EXCEPT ![i] = Fresh]
  /\ UNCHANGED <<wt, gone, head, branches, lost>>

\* The main checkout goes to a branch that no worktree has, or to none.
Switch ==
  \E b \in Branches \cup {"none"} :
    /\ \A r \in Roles : wt[r] # b \/ b = "none"
    /\ head' = b
    /\ branches' = branches \cup ({b} \ {"none"})
    /\ lost' = lost \cup ({head} \ {"none"})
    /\ job' = Disturb(job, {}, "none", b)
    /\ UNCHANGED <<wt, gone>>

\* The directory of a worktree is deleted, and git is not told.
Delete(r) ==
  /\ Exists(r)
  /\ gone' = gone \cup {r}
  /\ UNCHANGED <<wt, head, branches, job, lost>>

WorktreesNext ==
  \/ \E i \in Invocations :
       \/ Spawn(i) \/ AddBranch(i) \/ AddPath(i) \/ AddAgain(i)
       \/ Prune(i) \/ Remove(i) \/ Leave(i)
  \/ Switch
  \/ \E r \in Roles : Delete(r)

WorktreesSpec == WorktreesInit /\ [][WorktreesNext]_worktreeVars
-----------------------------------------------------------------------------
Job == [pc : UnderWay \cup Finished \cup {"new", "remove"},
        role : Roles \cup {"none"}, branch : Branches \cup {"none"},
        cause : Causes \cup {"none"}]

WorktreesTypeOK ==
  /\ wt \in [Roles -> branches \cup {"none"}]
  /\ gone \subseteq {r \in Roles : wt[r] # "none"}
  /\ branches \subseteq Branches /\ lost \subseteq branches
  /\ head \in branches \cup {"none"}
  /\ job \in [Invocations -> Job]

\* A spawn fails only for a cause: another checkout has its branch when it
\* asks, a registration is left at its path, someone makes or takes its branch
\* or its path meanwhile, or git fails by itself.  A branch that is merely
\* there already is checked out by the second attempt.
FailsForCause ==
  \A i \in Invocations : job[i].pc = "failed" => job[i].cause # "none"

\* Roles never share a branch, with each other or with the main checkout, and
\* a branch without a checkout is one that was there before, that its checkout
\* left, or that a spawn made which failed or is under way.
BranchesAccounted ==
  /\ \A r, s \in Roles : wt[r] = wt[s] /\ wt[r] # "none" => r = s
  /\ \A r \in Roles : wt[r] = head => head = "none"
  /\ \A b \in branches : \/ Held(b)
                         \/ b \in lost
                         \/ \E i \in Invocations : /\ job[i].branch = b
                                                   /\ job[i].pc \in UnderWay
=============================================================================
