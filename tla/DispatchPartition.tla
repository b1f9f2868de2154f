-------------------------- MODULE DispatchPartition --------------------------
(***************************************************************************)
(* How dispatch, diverge, parallelFor and parallelForReturn cut count      *)
(* indices into groups for the workers, and what the caller keeps for      *)
(* itself; converge puts the results together in the order of the groups.  *)
(* One action per group.  The number of available workers is read anew by  *)
(* each of the two functions and may change in between.                    *)
(***************************************************************************)
EXTENDS Integers, Sequences

CONSTANTS
    WorkersCount,
    MaxCount        \* bound: the largest number of indices

ASSUME PartitionAssumption == WorkersCount \in Nat \ {0} /\ MaxCount \in Nat

VARIABLES
    step,
    returning,      \* diverge or parallelForReturn, not dispatch or parallelFor
    hasWorkers,     \* jobs for workers are enqueued to workers
    total,          \* count of parallelFor; as many indices as asked for
    count,          \* count of dispatch
    grpCount,
    i, jobIdx,      \* locals of the loop over the groups
    groups,         \* dispatchedJobs: from which index, and how many
    serial          \* callbacks dispatch ran itself

vars == <<step, returning, hasWorkers, total, count, grpCount, i, jobIdx, groups, serial>>

Group(from, n) == [from |-> from, count |-> n]

TypeOK ==
    /\ step \in {"parallelFor", "dispatch", "oneTask", "groupMore", "group", "done"}
    /\ returning \in BOOLEAN /\ hasWorkers \in BOOLEAN
    /\ total \in 0 .. MaxCount /\ count \in 0 .. total
    /\ grpCount \in 0 .. WorkersCount
    /\ i \in 0 .. MaxCount /\ jobIdx \in 0 .. count
    /\ groups \in Seq([from : 0 .. MaxCount, count : 1 .. MaxCount])
    /\ serial \in 0 .. count

\* A call of dispatch or diverge, or of parallelFor or parallelForReturn, which
\* return at once for no indices; only parallelForReturn asserts that jobs for
\* workers go to workers.
Init ==
    /\ returning \in BOOLEAN /\ hasWorkers \in BOOLEAN
    /\ total \in 0 .. MaxCount /\ count = total
    /\ step \in {"dispatch"} \cup {s \in {"parallelFor"} : total > 0 /\ (returning => hasWorkers)}
    /\ grpCount = 0
    /\ i = 0 /\ jobIdx = 0
    /\ groups = <<>>
    /\ serial = 0

\* What the caller of parallelFor keeps: a group's share, rounded up.
CallerShare(g) == total \div g + (IF total % g > 0 THEN 1 ELSE 0)

\* parallelFor: the indices from count on are run by the caller itself, between
\* dispatch and the wait for the others.
ParallelFor ==
    /\ step = "parallelFor"
    /\ \E g \in 1 .. WorkersCount : count' = total - CallerShare(g)
    /\ step' = "dispatch"
    /\ UNCHANGED <<returning, hasWorkers, total, grpCount, i, jobIdx, groups, serial>>

DispatchNothing ==
    /\ step = "dispatch" /\ count = 0
    /\ step' = "done"
    /\ UNCHANGED <<returning, hasWorkers, total, count, grpCount, i, jobIdx, groups, serial>>

\* dispatch, which returns no values, calls every function itself whenever it
\* has a job system.
DispatchSerially ==
    /\ step = "dispatch" /\ count > 0
    /\ ~returning
    /\ serial' = count
    /\ step' = "done"
    /\ UNCHANGED <<returning, hasWorkers, total, count, grpCount, i, jobIdx, groups>>

\* Without workers there is one group, for the thread their jobs go to.
DispatchOneGroup ==
    /\ step = "dispatch" /\ count > 0
    /\ returning /\ ~hasWorkers
    /\ groups' = <<Group(0, count)>>
    /\ step' = "done"
    /\ UNCHANGED <<returning, hasWorkers, total, count, grpCount, i, jobIdx, serial>>

DispatchGroups ==
    /\ step = "dispatch" /\ count > 0
    /\ returning /\ hasWorkers
    /\ grpCount' \in 1 .. WorkersCount
    /\ step' = IF count \div grpCount' = 0 THEN "oneTask" ELSE "groupMore"
    /\ UNCHANGED <<returning, hasWorkers, total, count, i, jobIdx, groups, serial>>

\* Fewer indices than workers: a task for each.
OneTask ==
    /\ step = "oneTask"
    /\ IF i < count
       THEN groups' = Append(groups, Group(i, 1)) /\ i' = i + 1 /\ UNCHANGED step
       ELSE step' = "done" /\ UNCHANGED <<groups, i>>
    /\ UNCHANGED <<returning, hasWorkers, total, count, grpCount, jobIdx, serial>>

jobsPerGrp == count \div grpCount
grpsWithMoreJobCount == count % grpCount

AddGroup(n) ==
    /\ groups' = Append(groups, Group(jobIdx, n))
    /\ jobIdx' = jobIdx + n
    /\ i' = i + 1

\* Mutant of GroupMore: one group with the extra index too many.
GroupMoreTooMany ==
    /\ step = "groupMore"
    /\ IF i <= grpsWithMoreJobCount
       THEN AddGroup(jobsPerGrp + 1) /\ UNCHANGED step
       ELSE step' = "group" /\ UNCHANGED <<groups, jobIdx, i>>
    /\ UNCHANGED <<returning, hasWorkers, total, count, grpCount, serial>>

\* Mutant of GroupMore: the first group takes the whole remainder.
GroupMoreAtOnce ==
    /\ step = "groupMore"
    /\ AddGroup(jobsPerGrp + grpsWithMoreJobCount)
    /\ step' = "group"
    /\ UNCHANGED <<returning, hasWorkers, total, count, grpCount, serial>>

\* The first groups take one index of the remainder each.
GroupMore ==
    /\ step = "groupMore"
    /\ IF i < grpsWithMoreJobCount
       THEN AddGroup(jobsPerGrp + 1) /\ UNCHANGED step
       ELSE step' = "group" /\ UNCHANGED <<groups, jobIdx, i>>
    /\ UNCHANGED <<returning, hasWorkers, total, count, grpCount, serial>>

\* Mutant of GroupRest: every group has the extra index.
GroupRestMore ==
    /\ step = "group"
    /\ IF i < grpCount
       THEN AddGroup(jobsPerGrp + 1) /\ UNCHANGED step
       ELSE step' = "done" /\ UNCHANGED <<groups, jobIdx, i>>
    /\ UNCHANGED <<returning, hasWorkers, total, count, grpCount, serial>>

GroupRest ==
    /\ step = "group"
    /\ IF i < grpCount
       THEN AddGroup(jobsPerGrp) /\ UNCHANGED step
       ELSE step' = "done" /\ UNCHANGED <<groups, jobIdx, i>>
    /\ UNCHANGED <<returning, hasWorkers, total, count, grpCount, serial>>

Next ==
    \/ ParallelFor \/ DispatchNothing \/ DispatchSerially \/ DispatchOneGroup
    \/ DispatchGroups \/ OneTask \/ GroupMore \/ GroupRest

Spec == Init /\ [][Next]_vars

-----------------------------------------------------------------------------
\* Where each group begins if they follow one another without gap or overlap.
Follows(k) == IF k = 1 THEN 0 ELSE groups[k - 1].from + groups[k - 1].count

\* The groups and then the share of the caller cover 0 .. total - 1, each index
\* once and in order, so that converge and parallelForReturn return the result
\* of index n in place n, whatever number of workers was available when.
CoversInOrder ==
    /\ \A k \in 1 .. Len(groups) : groups[k].from = Follows(k)
    /\ step = "done" => serial + Follows(Len(groups) + 1) = count

\* The work is spread: no worker's group is more than one index larger than
\* another's, and there are no more groups than workers.
SpreadsEvenly ==
    step = "done" /\ hasWorkers =>
        /\ Len(groups) <= grpCount
        /\ \A k, l \in 1 .. Len(groups) : groups[k].count <= groups[l].count + 1
=============================================================================
