--------------------------- MODULE TargetManager ---------------------------
(***************************************************************************)
(* Which processes the probes trace (cmd/agent/target.go): a refresh scans *)
(* /proc, puts the processes it finds into the kernel's target_pids map,   *)
(* deletes those it no longer finds, and does the same for the cgroups of  *)
(* allowed_cgroups.  Processes start, fork and exit between any two of its *)
(* steps, and process numbers are used again.  The combined binary has a   *)
(* manager of its own (cmd/karaxys-capture/target.go): the same refresh    *)
(* with other ways to find the processes, without cgroups, and without the *)
(* rule that nothing found is an error.                                    *)
(***************************************************************************)
EXTENDS Naturals, FiniteSets

CONSTANTS
  Pids,          \* process numbers
  Root,          \* -pid
  Outside,       \* parent of a process whose own parent is gone
  Groups,        \* cgroups
  TargetGroup,   \* cgroup of -container
  Modes,         \* target modes explored
  CgroupFilter,  \* whether allowed_cgroups is used
  MaxPids,       \* -all-pids-max, 0 is no limit
  MapSize,       \* max_entries of target_pids
  MaxBirths,     \* bound: processes started
  MaxFailures    \* bound: map operations that fail

ASSUME PidsAssumption == IsFiniteSet(Pids) /\ Root \in Pids /\ Outside \notin Pids
ASSUME GroupsAssumption == IsFiniteSet(Groups) /\ TargetGroup \in Groups
AgentModes == {"pid", "pid-tree", "container", "all-pids"}
CombinedModes == {"capture-all", "capture-pids", "capture-tree"}

ASSUME ModesAssumption == Modes \subseteq AgentModes \cup CombinedModes
ASSUME FilterAssumption == CgroupFilter \in BOOLEAN
ASSUME BoundsAssumption == {MaxPids, MapSize, MaxBirths, MaxFailures} \subseteq Nat

VARIABLES
  mode,          \* targetConfig.mode, or allPIDsTargetManager.mode
  proc,          \* external: the processes
  budget,        \* births and failures still to come
  used,          \* history: process numbers used so far
  reused,        \* history: one of them was used again
  pc, todo, seen, next, put,  \* refresh: where it is, entries of /proc still to
                 \* read, what was read, the processes found, the numbers put
  nextGroups,    \* refreshCgroupsLocked: the cgroups found
  started,       \* the first refresh, which must succeed, is over
  active,        \* targetManager.active
  activeGroups,  \* targetManager.activeGroups
  pidMap,        \* target_pids
  groupMap,      \* allowed_cgroups
  leaked,        \* history: entries of pidMap that a failure left behind
  leakedGroups   \* history: the same for groupMap

refreshVars == <<pc, todo, seen, next, put, nextGroups, started>>
mapVars     == <<active, activeGroups, pidMap, groupMap, leaked, leakedGroups>>
vars == <<mode, proc, budget, used, reused, pc, todo, seen, next, put, nextGroups, started,
          active, activeGroups, pidMap, groupMap, leaked, leakedGroups>>

(* ours: whether the process descends from the target *)
Process == [parent : Pids \cup {Outside}, group : Groups, ours : BOOLEAN]
Dead == [parent |-> Outside, group |-> TargetGroup, ours |-> FALSE]

Alive == {p \in Pids : proc[p] # Dead}

Combined == mode \in CombinedModes
UsesCgroups == CgroupFilter /\ ~Combined
NeedsScan == mode \notin {"pid", "capture-pids"}

Init ==
  /\ mode \in Modes
  /\ proc = [p \in Pids |-> IF p = Root THEN [Dead EXCEPT !.ours = TRUE] ELSE Dead]
  /\ used = {Root} /\ reused = FALSE
  /\ budget = [births |-> MaxBirths, failures |-> MaxFailures]
  /\ pc = "begin" /\ started = FALSE
  /\ todo = {} /\ seen = [p \in {} |-> Dead] /\ next = {} /\ put = {} /\ nextGroups = {}
  /\ active = {} /\ activeGroups = {} /\ pidMap = {} /\ groupMap = {}
  /\ leaked = {} /\ leakedGroups = {}

Spend(what) == budget[what] > 0 /\ budget' = [budget EXCEPT ![what] = @ - 1]

-----------------------------------------------------------------------------
(* The processes of the machine: external *)

Born(c, parent, group, ours) ==
  /\ c \notin Alive /\ Spend("births")
  /\ proc' = [proc EXCEPT ![c] = [parent |-> parent, group |-> group, ours |-> ours]]
  /\ used' = used \cup {c}
  /\ reused' = (reused \/ c \in used)
  /\ UNCHANGED <<mode, refreshVars, mapVars>>

Fork(p, c) == p \in Alive /\ Born(c, p, proc[p].group, proc[p].ours)

(* a process that has nothing to do with the target *)
Start(c, g) == g # TargetGroup /\ Born(c, Outside, g, FALSE)

Exit(p) ==
  /\ p \in Alive
  /\ proc' = [q \in Pids |-> IF q = p THEN Dead
                             ELSE IF proc[q].parent = p THEN [proc[q] EXCEPT !.parent = Outside]
                             ELSE proc[q]]
  /\ UNCHANGED <<mode, budget, used, reused, refreshVars, mapVars>>

-----------------------------------------------------------------------------
(* refresh *)

(* an error: fatal for the first refresh, logged for the others *)
Fail == /\ pc' = (IF started THEN "wait" ELSE "exit")
        /\ UNCHANGED started

(* mutant: the ticker fires once *)
BeginRefresh_Once ==
  /\ pc = "begin"
  /\ pc' = "scan"
  /\ todo' = IF NeedsScan THEN Pids ELSE {}
  /\ seen' = [p \in {} |-> Dead]
  /\ next' = {} /\ put' = {} /\ nextGroups' = {}
  /\ UNCHANGED <<mode, proc, budget, used, reused, started, mapVars>>

(* the ticker of run, and the refresh before the probes are attached; the   *)
(* modes that name process numbers do not look at /proc                     *)
BeginRefresh ==
  /\ pc \in {"wait", "begin"}
  /\ pc' = "scan"
  /\ todo' = IF NeedsScan THEN Pids ELSE {}
  /\ seen' = [p \in {} |-> Dead]
  /\ next' = {} /\ put' = {} /\ nextGroups' = {}
  /\ UNCHANGED <<mode, proc, budget, used, reused, started, mapVars>>

(* one entry of /proc is read; a process that is gone is skipped *)
ScanPid(p) ==
  /\ pc = "scan" /\ p \in todo
  /\ todo' = todo \ {p}
  /\ seen' = IF p \in Alive THEN [q \in DOMAIN seen \cup {p} |-> IF q = p THEN proc[p] ELSE seen[q]]
             ELSE seen
  /\ UNCHANGED <<mode, proc, budget, used, reused, pc, next, put, nextGroups, started, mapVars>>

(* S is closed: the children of a member are members *)
WithChildren(S, procs) == \A p \in DOMAIN procs : procs[p].parent \in S => p \in S

(* mutant: orphans count as children of the root *)
Tree_Orphans(procs) ==
  {p \in DOMAIN procs \cup {Root} :
     \A S \in SUBSET (DOMAIN procs \cup {Root}) :
       Root \in S /\ WithChildren(S \cup {Outside}, procs) => p \in S}

(* discoverPIDTree: the root and its descendants, the least closed set *)
Tree(procs) ==
  {p \in DOMAIN procs \cup {Root} :
     \A S \in SUBSET (DOMAIN procs \cup {Root}) : Root \in S /\ WithChildren(S, procs) => p \in S}

(* the agent's modes *)
resolveTargetPIDs(procs) ==
  CASE mode = "pid" -> {Root}
    [] mode = "pid-tree" -> Tree(procs)
    [] mode = "container" -> {p \in DOMAIN procs : procs[p].group = TargetGroup}
    [] mode = "all-pids" -> DOMAIN procs

(* the combined binary looks again whether what it found is still there *)
livePIDs(pids) == pids \cap Alive

discover(procs) ==
  CASE mode = "capture-all" -> DOMAIN procs
    [] mode = "capture-pids" -> livePIDs({Root})
    [] mode = "capture-tree" -> livePIDs(Tree(procs))

Found(procs) == IF Combined THEN discover(procs) ELSE resolveTargetPIDs(procs)

TooMany(pids) == (Combined \/ mode = "all-pids") /\ MaxPids > 0 /\ Cardinality(pids) > MaxPids

(* nothing found (the agent only), or too much: the old targets stay *)
Rejected(pids) == (pids = {} /\ ~Combined) \/ TooMany(pids)

Resolve ==
  LET pids == Found(seen) IN
  /\ pc = "scan" /\ todo = {}
  /\ \/ /\ ~Rejected(pids)
        /\ pc' = "add" /\ next' = pids
        /\ UNCHANGED started
     \/ /\ Rejected(pids)
        /\ Fail /\ UNCHANGED next
  /\ seen' = [p \in {} |-> Dead]
  /\ UNCHANGED <<mode, proc, budget, used, reused, todo, put, nextGroups, mapVars>>

Missing == next \ (active \cup put)

(* mutant: a map that never fills up *)
AddPid_NoLimit(p) ==
  /\ pc = "add" /\ p \in Missing
  /\ pidMap' = pidMap \cup {p}
  /\ put' = put \cup {p}
  /\ UNCHANGED <<mode, proc, budget, used, reused, pc, todo, seen, next, nextGroups, started,
                 active, activeGroups, groupMap, leaked, leakedGroups>>

AddPid(p) ==
  /\ pc = "add" /\ p \in Missing
  /\ p \in pidMap \/ Cardinality(pidMap) < MapSize
  /\ pidMap' = pidMap \cup {p}
  /\ put' = put \cup {p}
  /\ UNCHANGED <<mode, proc, budget, used, reused, pc, todo, seen, next, nextGroups, started,
                 active, activeGroups, groupMap, leaked, leakedGroups>>

(* a Put fails, always if the map is full: the refresh ends and what it put *)
(* is not in active                                                         *)
AddFails ==
  /\ pc = "add" /\ Missing # {}
  /\ \/ Cardinality(pidMap) >= MapSize /\ Missing \ pidMap # {} /\ UNCHANGED budget
     \/ Spend("failures")
  /\ Fail
  /\ leaked' = leaked \cup put
  /\ UNCHANGED <<mode, proc, used, reused, todo, seen, next, put, nextGroups, active, activeGroups,
                 pidMap, groupMap, leakedGroups>>

AddsDone ==
  /\ pc = "add" /\ Missing = {}
  /\ pc' = "delete" /\ put' = {}
  /\ UNCHANGED <<mode, proc, budget, used, reused, todo, seen, next, nextGroups, started, mapVars>>

(* put: here the numbers whose deletion was tried; its error is ignored *)
DeletePid(p) ==
  /\ pc = "delete" /\ p \in active \ (next \cup put)
  /\ put' = put \cup {p}
  /\ \/ pidMap' = pidMap \ {p} /\ UNCHANGED <<leaked, budget>>
     \/ Spend("failures") /\ leaked' = leaked \cup {p} /\ UNCHANGED pidMap
  /\ UNCHANGED <<mode, proc, used, reused, pc, todo, seen, next, nextGroups, started,
                 active, activeGroups, groupMap, leakedGroups>>

Finish == pc' = "wait" /\ started' = TRUE

(* mutant: processes that are gone stay in active *)
Commit_Accumulates ==
  /\ pc = "delete" /\ active \subseteq next \cup put
  /\ active' = active \cup next
  /\ leaked' = leaked \ next
  /\ put' = {}
  /\ IF UsesCgroups THEN pc' = "cgroups" /\ UNCHANGED started ELSE Finish
  /\ UNCHANGED <<mode, proc, budget, used, reused, todo, seen, next, nextGroups,
                 activeGroups, pidMap, groupMap, leakedGroups>>

Commit ==
  /\ pc = "delete" /\ active \subseteq next \cup put
  /\ active' = next
  /\ leaked' = leaked \ next
  /\ put' = {}
  /\ IF UsesCgroups THEN pc' = "cgroups" /\ UNCHANGED started ELSE Finish
  /\ UNCHANGED <<mode, proc, budget, used, reused, todo, seen, next, nextGroups,
                 activeGroups, pidMap, groupMap, leakedGroups>>

-----------------------------------------------------------------------------
(* refreshCgroupsLocked; active has changed already *)

DiscoverCgroups ==
  LET found == {proc[p].group : p \in next \cap Alive} IN
  /\ pc = "cgroups"
  /\ \/ found # {} /\ nextGroups' = found /\ pc' = "addGroups" /\ UNCHANGED started
     \/ found = {} /\ Fail /\ UNCHANGED nextGroups
  /\ UNCHANGED <<mode, proc, budget, used, reused, todo, seen, next, put, mapVars>>

AddGroup(g) ==
  /\ pc = "addGroups" /\ g \in nextGroups \ (activeGroups \cup put)
  /\ put' = put \cup {g}
  /\ \/ /\ groupMap' = groupMap \cup {g}
        /\ UNCHANGED <<pc, started, budget, leakedGroups>>
     \/ /\ Spend("failures") /\ Fail
        /\ leakedGroups' = leakedGroups \cup put
        /\ UNCHANGED groupMap
  /\ UNCHANGED <<mode, proc, used, reused, todo, seen, next, nextGroups, active, activeGroups, pidMap, leaked>>

DeleteGroup(g) ==
  /\ pc = "addGroups" /\ nextGroups \subseteq activeGroups \cup put
  /\ g \in activeGroups \ (nextGroups \cup put)
  /\ put' = put \cup {g}
  /\ \/ groupMap' = groupMap \ {g} /\ UNCHANGED <<leakedGroups, budget>>
     \/ Spend("failures") /\ leakedGroups' = leakedGroups \cup {g} /\ UNCHANGED groupMap
  /\ UNCHANGED <<mode, proc, used, reused, pc, todo, seen, next, nextGroups, started,
                 active, activeGroups, pidMap, leaked>>

CommitGroups ==
  /\ pc = "addGroups" /\ nextGroups \cup activeGroups \subseteq (nextGroups \cap activeGroups) \cup put
  /\ activeGroups' = nextGroups
  /\ leakedGroups' = leakedGroups \ nextGroups
  /\ Finish
  /\ UNCHANGED <<mode, proc, budget, used, reused, todo, seen, next, put, nextGroups, active, pidMap, groupMap, leaked>>

-----------------------------------------------------------------------------
RefreshStep ==
  \/ \E p \in Pids : ScanPid(p) \/ AddPid(p) \/ DeletePid(p)
  \/ \E g \in Groups : AddGroup(g) \/ DeleteGroup(g)
  \/ Resolve \/ AddsDone \/ Commit \/ DiscoverCgroups \/ CommitGroups
  \/ AddFails

Environment ==
  \E c \in Pids : \/ Exit(c)
                  \/ \E g \in Groups : Start(c, g)
                  \/ \E p \in Pids : Fork(p, c)

Next == BeginRefresh \/ RefreshStep \/ Environment

Spec == Init /\ [][Next]_vars

(* the ticker fires again and a refresh does not stop half way; nothing is  *)
(* assumed of the processes                                                 *)
LiveSpec == Spec /\ WF_vars(BeginRefresh \/ RefreshStep)

-----------------------------------------------------------------------------
(* Properties *)

(* The types, and the capacity of target_pids. *)
TypeOK ==
  /\ mode \in Modes /\ started \in BOOLEAN
  /\ pc \in {"begin", "wait", "scan", "add", "delete", "cgroups", "addGroups", "exit"}
  /\ \A p \in Pids : proc[p] \in Process
  /\ next \cup todo \cup active \cup pidMap \cup leaked \subseteq Pids
  /\ nextGroups \cup activeGroups \cup groupMap \cup leakedGroups \subseteq Groups
  /\ put \subseteq Pids \cup Groups
  /\ Cardinality(pidMap) <= MapSize

(* Between two refreshes target_pids holds what the agent believes it does, *)
(* although a refresh may stop at any map operation and errors of Delete    *)
(* are ignored: everything in m.active is traced, and what is traced beyond *)
(* it was left behind by a failed operation.  The same for the cgroups.     *)
MapsMatch ==
  pc = "wait" => /\ active \subseteq pidMap /\ pidMap \ active \subseteq leaked
                 /\ activeGroups \subseteq groupMap /\ groupMap \ activeGroups \subseteq leakedGroups

(* target_pids stays within its capacity and, between refreshes, agrees     *)
(* with the manager's own list.                                             *)
TargetInv == TypeOK /\ MapsMatch

should_trace(p) == p \in pidMap /\ (UsesCgroups => proc[p].group \in groupMap)

(* In the modes that name a process, one that does not descend from it is   *)
(* not traced, however the scan of /proc interleaves with processes that    *)
(* fork and exit.  The exception: a process number was used again, before   *)
(* the refresh that would have noticed or between two reads of its scan.    *)
TracesOnlyTargets ==
  mode \in {"pid", "pid-tree", "capture-pids", "capture-tree"} /\ ~reused =>
    \A p \in Alive : should_trace(p) => proc[p].ours

Targets == Found([p \in Alive |-> proc[p]])

(* Once the processes stay as they are and the map operations succeed, the  *)
(* refreshes make the maps exact: every target is traced, and nothing else  *)
(* but what an earlier failure left behind.  The exceptions: the first      *)
(* refresh failed and the agent is gone; discovery fails, which for the     *)
(* agent includes that nothing is left to trace (the combined binary then   *)
(* empties its map); or the new targets do not fit into target_pids beside  *)
(* the old ones, which would be deleted only after them.                    *)
EventuallyExact ==
  <>[](\/ pc = "exit" \/ Rejected(Targets)
       \/ Cardinality(Targets \cup pidMap) > MapSize
       \/ /\ \A p \in Targets \cap Alive : should_trace(p)
          /\ pidMap \ leaked \subseteq Targets)

(* What docs/ebpf_tracer_scrum_plan.md:95 says: entries of processes that   *)
(* ended are removed while the target has others.  A full map refutes it,   *)
(* because new processes are put before the old ones are deleted, and so    *)
(* does mode "pid-tree", which never drops its root.                        *)
TerminatedAreRemoved == <>[](pc = "exit" \/ Targets = {} \/ pidMap \subseteq Alive)

=============================================================================
