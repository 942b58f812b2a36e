------------------------ MODULE TargetManagerProofs ------------------------
(***************************************************************************)
(* Proofs about TargetManager for any set of processes, target mode, map   *)
(* size and number of births and failures: target_pids agrees with the     *)
(* manager's list between refreshes, and in the modes that name a process  *)
(* no stranger is traced.                                                  *)
(***************************************************************************)
EXTENDS TargetManager, FiniteSetTheorems, TLAPS

(* What a scan has read is about process numbers, and proc is a function.   *)
Shapes ==
  /\ proc \in [Pids -> Process]
  /\ DOMAIN seen \subseteq Pids /\ \A p \in DOMAIN seen : seen[p] \in Process

(* target_pids while a refresh is at each of its phases: between refreshes  *)
(* it holds active and what failures left; then also what was put, and      *)
(* after the puts all of next and the part of active not yet deleted.       *)
PidPhases ==
  /\ pc \in {"begin", "wait", "scan", "add", "cgroups", "addGroups"} => active \subseteq pidMap
  /\ pc \in {"begin", "wait", "scan", "cgroups", "addGroups"} => pidMap \subseteq active \cup leaked
  /\ pc \in {"scan", "cgroups"} => put = {}
  /\ pc = "add" => put \subseteq pidMap /\ pidMap \subseteq active \cup put \cup leaked /\ put \subseteq next
  /\ pc = "delete" => /\ next \subseteq pidMap /\ active \ put \subseteq pidMap
                      /\ pidMap \subseteq next \cup (active \ put) \cup leaked

(* The same for allowed_cgroups, whose puts and deletions are one phase:    *)
(* nothing is deleted before everything was put.                            *)
GroupPhases ==
  /\ pc \notin {"addGroups", "exit"} =>
       activeGroups \subseteq groupMap /\ groupMap \subseteq activeGroups \cup leakedGroups
  /\ pc = "addGroups" =>
       /\ put \cap nextGroups \subseteq groupMap \ activeGroups
       /\ activeGroups \ put \subseteq groupMap
       /\ groupMap \subseteq (activeGroups \ put) \cup (put \cap nextGroups) \cup leakedGroups
       /\ nextGroups \subseteq activeGroups \cup put \/ put \subseteq nextGroups

(* The inductive invariant of the maps. *)
MapIInv == TypeOK /\ Shapes /\ PidPhases /\ GroupPhases

(* A live process is the target's exactly if it is in the target's cgroup;  *)
(* a parent is alive, and parent and child are both the target's or         *)
(* neither is.                                                              *)
Families ==
  /\ \A p \in Alive : proc[p].ours <=> proc[p].group = TargetGroup
  /\ \A p, q \in Pids : proc[p].parent = q => q \in Alive /\ (proc[p].ours <=> proc[q].ours)
  /\ Alive \subseteq used /\ Root \in used /\ used \subseteq Pids

(* While no process number was used again, what the scan has read is still  *)
(* true of the processes that live, and it is one family tree although it   *)
(* was not read at one moment.                                              *)
SeenIsCoherent ==
  /\ Root \in Alive => proc[Root].ours
  /\ DOMAIN seen \subseteq used
  /\ \A p \in DOMAIN seen : /\ seen[p].parent \in used \cup {Outside}
                            /\ p \in Alive => (seen[p].ours <=> proc[p].ours)
                            /\ p = Root => seen[p].ours
                            /\ seen[p].parent = Root => seen[p].ours
  /\ \A p \in DOMAIN seen, q \in Pids : seen[p].parent = q =>
       /\ q \in Alive => (seen[p].ours <=> proc[q].ours)
       /\ q \in DOMAIN seen => (seen[p].ours <=> seen[q].ours)

(* What was found and what was put is a process of the target, or one that  *)
(* has ended and whose number is not in use.                                *)
FoundAreOurs ==
  \A p \in next \cup pidMap : p \in used /\ (p \in Alive => proc[p].ours)

NamesAProcess == mode \in {"pid", "pid-tree", "capture-pids", "capture-tree"}

(* The inductive invariant of what is traced. *)
TraceIInv ==
  /\ MapIInv /\ Families
  /\ ~reused => SeenIsCoherent /\ (NamesAProcess => FoundAreOurs)

-----------------------------------------------------------------------------
(* The processes and what a refresh finds *)

LEMMA DeadType == Dead \in Process /\ Dead.parent = Outside /\ Dead.group = TargetGroup /\ Dead.ours = FALSE
  BY GroupsAssumption DEF Dead, Process

LEMMA TreeInPids ==
  ASSUME NEW procs, DOMAIN procs \subseteq Pids
  PROVE  Tree(procs) \subseteq Pids
  BY PidsAssumption DEF Tree

LEMMA FoundInPids ==
  ASSUME mode \in Modes, NEW procs, DOMAIN procs \subseteq Pids
  PROVE  Found(procs) \subseteq Pids
  <1>1. Tree(procs) \subseteq Pids BY TreeInPids
  <1>2. CASE Combined
    BY <1>1, <1>2, PidsAssumption DEF Found, discover, livePIDs, Combined, CombinedModes
  <1>3. CASE ~Combined
    <2>1. mode \in {"pid", "pid-tree", "container", "all-pids"}
      BY <1>3, ModesAssumption DEF Combined, AgentModes
    <2> QED BY <1>1, <1>3, <2>1, PidsAssumption DEF Found, resolveTargetPIDs
  <1> QED BY <1>2, <1>3

LEMMA PidMapFinite ==
  ASSUME TypeOK
  PROVE  IsFiniteSet(pidMap) /\ Cardinality(pidMap) \in Nat
  <1>1. pidMap \in SUBSET Pids BY DEF TypeOK
  <1> QED BY <1>1, PidsAssumption, FS_Subset, FS_CardinalityType

(* The machine's processes change nothing that a refresh or the maps hold.  *)
LEMMA EnvironmentFrame ==
  ASSUME MapIInv, Environment
  PROVE  MapIInv' /\ UNCHANGED <<mode, refreshVars, mapVars>>
  <1>1. UNCHANGED <<mode, refreshVars, mapVars>>
    BY DEF Environment, Exit, Start, Fork, Born
  <1>2. proc' \in [Pids -> Process]
    <2>1. proc \in [Pids -> Process] BY DEF MapIInv, Shapes
    <2>2. CASE \E p \in Pids : Exit(p)
      <3>1. \A q \in Pids : [proc[q] EXCEPT !.parent = Outside] \in Process
        BY <2>1 DEF Process
      <3> QED BY <2>1, <2>2, <3>1, DeadType DEF Exit
    <2>3. ASSUME NEW c \in Pids, NEW q \in Pids \cup {Outside}, NEW g \in Groups, NEW o \in BOOLEAN, Born(c, q, g, o)
          PROVE  proc' \in [Pids -> Process]
      <3>1. [parent |-> q, group |-> g, ours |-> o] \in Process BY DEF Process
      <3> QED BY <2>1, <2>3, <3>1 DEF Born
    <2>4. \A p \in Pids : proc[p].group \in Groups /\ proc[p].ours \in BOOLEAN BY <2>1 DEF Process
    <2> QED BY <2>2, <2>3, <2>4 DEF Environment, Start, Fork
  <1>3. TypeOK' BY <1>1, <1>2 DEF MapIInv, TypeOK, refreshVars, mapVars
  <1>4. Shapes' BY <1>1, <1>2 DEF MapIInv, Shapes, refreshVars
  <1>5. PidPhases' BY <1>1 DEF MapIInv, PidPhases, refreshVars, mapVars
  <1>6. GroupPhases' BY <1>1 DEF MapIInv, GroupPhases, refreshVars, mapVars
  <1> QED BY <1>1, <1>3, <1>4, <1>5, <1>6 DEF MapIInv

-----------------------------------------------------------------------------
(* The maps *)

LEMMA InitMap == Init => MapIInv
  <1> SUFFICES ASSUME Init
               PROVE  MapIInv
    OBVIOUS
  <1>1. proc \in [Pids -> Process]
    <2>1. [Dead EXCEPT !.ours = TRUE] \in Process BY DeadType DEF Process
    <2> QED BY <2>1, DeadType DEF Init
  <1>2. TypeOK
    <2>1. Cardinality(pidMap) <= MapSize BY FS_EmptySet, BoundsAssumption DEF Init
    <2> QED BY <1>1, <2>1 DEF Init, TypeOK
  <1>3. Shapes BY <1>1 DEF Init, Shapes
  <1>4. PidPhases /\ GroupPhases BY DEF Init, PidPhases, GroupPhases
  <1> QED BY <1>2, <1>3, <1>4 DEF MapIInv

LEMMA BeginRefreshMap ==
  ASSUME MapIInv, BeginRefresh
  PROVE  MapIInv'
  <1>1. /\ pc \in {"wait", "begin"} /\ pc' = "scan" /\ todo' \subseteq Pids /\ seen' = [p \in {} |-> Dead]
        /\ next' = {} /\ put' = {} /\ nextGroups' = {}
        /\ UNCHANGED <<mode, proc, started, active, activeGroups, pidMap, groupMap, leaked, leakedGroups>>
    BY DEF BeginRefresh, mapVars
  <1>2. TypeOK' BY <1>1 DEF MapIInv, TypeOK
  <1>3. Shapes' BY <1>1 DEF MapIInv, Shapes
  <1>4. PidPhases' BY <1>1 DEF MapIInv, PidPhases
  <1>5. GroupPhases' BY <1>1 DEF MapIInv, GroupPhases
  <1> QED BY <1>2, <1>3, <1>4, <1>5 DEF MapIInv

LEMMA ScanPidMap ==
  ASSUME MapIInv, NEW p \in Pids, ScanPid(p)
  PROVE  MapIInv'
  <1>1. /\ pc = "scan" /\ todo' = todo \ {p}
        /\ UNCHANGED <<mode, proc, pc, next, put, nextGroups, started,
                       active, activeGroups, pidMap, groupMap, leaked, leakedGroups>>
    BY DEF ScanPid, mapVars
  <1>2. TypeOK' BY <1>1 DEF MapIInv, TypeOK
  <1>3. Shapes'
    <2>1. CASE seen' = seen BY <1>1, <2>1 DEF MapIInv, Shapes
    <2>2. CASE seen' = [q \in DOMAIN seen \cup {p} |-> IF q = p THEN proc[p] ELSE seen[q]]
      BY <1>1, <2>2 DEF MapIInv, Shapes
    <2> QED BY <2>1, <2>2 DEF ScanPid
  <1>4. PidPhases' BY <1>1 DEF MapIInv, PidPhases
  <1>5. GroupPhases' BY <1>1 DEF MapIInv, GroupPhases
  <1> QED BY <1>2, <1>3, <1>4, <1>5 DEF MapIInv

LEMMA ResolveMap ==
  ASSUME MapIInv, Resolve
  PROVE  MapIInv'
  <1>1. /\ pc = "scan" /\ seen' = [p \in {} |-> Dead]
        /\ UNCHANGED <<mode, proc, todo, put, nextGroups,
                       active, activeGroups, pidMap, groupMap, leaked, leakedGroups>>
        /\ \/ pc' = "add" /\ next' = Found(seen)
           \/ pc' \in {"wait", "exit"} /\ next' = next
        /\ started' = started
    BY DEF Resolve, Fail, mapVars
  <1>2. next' \subseteq Pids BY <1>1, FoundInPids DEF MapIInv, TypeOK, Shapes
  <1>3. TypeOK' BY <1>1, <1>2 DEF MapIInv, TypeOK
  <1>4. Shapes' BY <1>1 DEF MapIInv, Shapes
  <1>5. PidPhases' BY <1>1 DEF MapIInv, PidPhases
  <1>6. GroupPhases' BY <1>1 DEF MapIInv, GroupPhases
  <1> QED BY <1>3, <1>4, <1>5, <1>6 DEF MapIInv

LEMMA AddPidMap ==
  ASSUME MapIInv, NEW p \in Pids, AddPid(p)
  PROVE  MapIInv'
  <1>1. /\ pc = "add" /\ p \in next /\ pidMap' = pidMap \cup {p} /\ put' = put \cup {p}
        /\ p \in pidMap \/ Cardinality(pidMap) < MapSize
        /\ UNCHANGED <<mode, proc, pc, todo, seen, next, nextGroups, started,
                       active, activeGroups, groupMap, leaked, leakedGroups>>
    BY DEF AddPid, Missing
  <1>2. Cardinality(pidMap') <= MapSize
    <2>1. IsFiniteSet(pidMap) /\ Cardinality(pidMap) \in Nat /\ Cardinality(pidMap) <= MapSize /\ MapSize \in Nat
      BY PidMapFinite, BoundsAssumption DEF MapIInv, TypeOK
    <2>2. Cardinality(pidMap \cup {p}) = IF p \in pidMap THEN Cardinality(pidMap) ELSE Cardinality(pidMap) + 1
      BY <2>1, FS_AddElement
    <2> QED BY <1>1, <2>1, <2>2
  <1>3. TypeOK' BY <1>1, <1>2 DEF MapIInv, TypeOK
  <1>4. Shapes' BY <1>1 DEF MapIInv, Shapes
  <1>5. PidPhases' BY <1>1 DEF MapIInv, PidPhases
  <1>6. GroupPhases' BY <1>1 DEF MapIInv, GroupPhases
  <1> QED BY <1>3, <1>4, <1>5, <1>6 DEF MapIInv

LEMMA AddFailsMap ==
  ASSUME MapIInv, AddFails
  PROVE  MapIInv'
  <1>1. /\ pc = "add" /\ pc' \in {"wait", "exit"} /\ leaked' = leaked \cup put
        /\ UNCHANGED <<mode, proc, todo, seen, next, put, nextGroups, started,
                       active, activeGroups, pidMap, groupMap, leakedGroups>>
    BY DEF AddFails, Fail
  <1>2. TypeOK' BY <1>1 DEF MapIInv, TypeOK, PidPhases
  <1>3. Shapes' BY <1>1 DEF MapIInv, Shapes
  <1>4. PidPhases' BY <1>1 DEF MapIInv, PidPhases
  <1>5. GroupPhases' BY <1>1 DEF MapIInv, GroupPhases
  <1> QED BY <1>2, <1>3, <1>4, <1>5 DEF MapIInv

LEMMA AddsDoneMap ==
  ASSUME MapIInv, AddsDone
  PROVE  MapIInv'
  <1>1. /\ pc = "add" /\ pc' = "delete" /\ put' = {} /\ next \subseteq active \cup put
        /\ UNCHANGED <<mode, proc, todo, seen, next, nextGroups, started,
                       active, activeGroups, pidMap, groupMap, leaked, leakedGroups>>
    BY DEF AddsDone, Missing, mapVars
  <1>2. TypeOK' BY <1>1 DEF MapIInv, TypeOK
  <1>3. Shapes' BY <1>1 DEF MapIInv, Shapes
  <1>4. PidPhases' BY <1>1 DEF MapIInv, PidPhases
  <1>5. GroupPhases' BY <1>1 DEF MapIInv, GroupPhases
  <1> QED BY <1>2, <1>3, <1>4, <1>5 DEF MapIInv

LEMMA DeletePidMap ==
  ASSUME MapIInv, NEW p \in Pids, DeletePid(p)
  PROVE  MapIInv'
  <1>1. /\ pc = "delete" /\ p \in active /\ p \notin next /\ p \notin put /\ put' = put \cup {p}
        /\ \/ pidMap' = pidMap \ {p} /\ leaked' = leaked
           \/ leaked' = leaked \cup {p} /\ pidMap' = pidMap
        /\ UNCHANGED <<mode, proc, pc, todo, seen, next, nextGroups, started,
                       active, activeGroups, groupMap, leakedGroups>>
    BY DEF DeletePid
  <1>2. Cardinality(pidMap') <= MapSize
    <2>1. IsFiniteSet(pidMap) /\ Cardinality(pidMap) \in Nat /\ Cardinality(pidMap) <= MapSize /\ MapSize \in Nat
      BY PidMapFinite, BoundsAssumption DEF MapIInv, TypeOK
    <2>2. Cardinality(pidMap \ {p}) = IF p \in pidMap THEN Cardinality(pidMap) - 1 ELSE Cardinality(pidMap)
      BY <2>1, FS_RemoveElement
    <2> QED BY <1>1, <2>1, <2>2
  <1>3. TypeOK' BY <1>1, <1>2 DEF MapIInv, TypeOK
  <1>4. Shapes' BY <1>1 DEF MapIInv, Shapes
  <1>5. PidPhases' BY <1>1 DEF MapIInv, PidPhases
  <1>6. GroupPhases' BY <1>1 DEF MapIInv, GroupPhases
  <1> QED BY <1>3, <1>4, <1>5, <1>6 DEF MapIInv

LEMMA CommitMap ==
  ASSUME MapIInv, Commit
  PROVE  MapIInv'
  <1>1. /\ pc = "delete" /\ active \subseteq next \cup put
        /\ active' = next /\ leaked' = leaked \ next /\ put' = {}
        /\ pc' \in {"cgroups", "wait"} /\ started' \in {started, TRUE}
        /\ UNCHANGED <<mode, proc, todo, seen, next, nextGroups, activeGroups, pidMap, groupMap, leakedGroups>>
    BY DEF Commit, Finish
  <1>2. TypeOK' BY <1>1 DEF MapIInv, TypeOK
  <1>3. Shapes' BY <1>1 DEF MapIInv, Shapes
  <1>4. PidPhases' BY <1>1 DEF MapIInv, PidPhases
  <1>5. GroupPhases' BY <1>1 DEF MapIInv, GroupPhases
  <1> QED BY <1>2, <1>3, <1>4, <1>5 DEF MapIInv

LEMMA DiscoverCgroupsMap ==
  ASSUME MapIInv, DiscoverCgroups
  PROVE  MapIInv'
  <1>1. /\ pc = "cgroups"
        /\ \/ pc' = "addGroups" /\ nextGroups' = {proc[p].group : p \in next \cap Alive}
           \/ pc' \in {"wait", "exit"} /\ nextGroups' = nextGroups
        /\ UNCHANGED <<mode, proc, todo, seen, next, put, started,
                       active, activeGroups, pidMap, groupMap, leaked, leakedGroups>>
    BY DEF DiscoverCgroups, Fail, mapVars
  <1>2. nextGroups' \subseteq Groups
    BY <1>1 DEF MapIInv, TypeOK, Process, Alive
  <1>3. TypeOK' BY <1>1, <1>2 DEF MapIInv, TypeOK
  <1>4. Shapes' BY <1>1 DEF MapIInv, Shapes
  <1>5. PidPhases' BY <1>1 DEF MapIInv, PidPhases
  <1>6. GroupPhases' BY <1>1 DEF MapIInv, GroupPhases, PidPhases
  <1> QED BY <1>3, <1>4, <1>5, <1>6 DEF MapIInv

LEMMA AddGroupMap ==
  ASSUME MapIInv, NEW g \in Groups, AddGroup(g)
  PROVE  MapIInv'
  <1>1. /\ pc = "addGroups" /\ g \in nextGroups /\ g \notin activeGroups /\ g \notin put /\ put' = put \cup {g}
        /\ \/ groupMap' = groupMap \cup {g} /\ pc' = pc /\ leakedGroups' = leakedGroups
           \/ pc' \in {"wait", "exit"} /\ leakedGroups' = leakedGroups \cup put /\ groupMap' = groupMap
        /\ UNCHANGED <<mode, proc, todo, seen, next, nextGroups, started, active, activeGroups, pidMap, leaked>>
    BY DEF AddGroup, Fail
  <1>2. put \subseteq nextGroups BY <1>1 DEF MapIInv, GroupPhases
  <1>3. TypeOK' BY <1>1, <1>2 DEF MapIInv, TypeOK
  <1>4. Shapes' BY <1>1 DEF MapIInv, Shapes
  <1>5. PidPhases' BY <1>1 DEF MapIInv, PidPhases
  <1>6. GroupPhases' BY <1>1, <1>2 DEF MapIInv, GroupPhases
  <1> QED BY <1>3, <1>4, <1>5, <1>6 DEF MapIInv

LEMMA DeleteGroupMap ==
  ASSUME MapIInv, NEW g \in Groups, DeleteGroup(g)
  PROVE  MapIInv'
  <1>1. /\ pc = "addGroups" /\ nextGroups \subseteq activeGroups \cup put
        /\ g \in activeGroups /\ g \notin nextGroups /\ g \notin put /\ put' = put \cup {g}
        /\ \/ groupMap' = groupMap \ {g} /\ leakedGroups' = leakedGroups
           \/ leakedGroups' = leakedGroups \cup {g} /\ groupMap' = groupMap
        /\ UNCHANGED <<mode, proc, pc, todo, seen, next, nextGroups, started, active, activeGroups, pidMap, leaked>>
    BY DEF DeleteGroup
  <1>2. TypeOK' BY <1>1 DEF MapIInv, TypeOK
  <1>3. Shapes' BY <1>1 DEF MapIInv, Shapes
  <1>4. PidPhases' BY <1>1 DEF MapIInv, PidPhases
  <1>5. GroupPhases' BY <1>1 DEF MapIInv, GroupPhases
  <1> QED BY <1>2, <1>3, <1>4, <1>5 DEF MapIInv

LEMMA CommitGroupsMap ==
  ASSUME MapIInv, CommitGroups
  PROVE  MapIInv'
  <1>1. /\ pc = "addGroups" /\ nextGroups \cup activeGroups \subseteq (nextGroups \cap activeGroups) \cup put
        /\ activeGroups' = nextGroups /\ leakedGroups' = leakedGroups \ nextGroups
        /\ pc' = "wait" /\ started' = TRUE
        /\ UNCHANGED <<mode, proc, todo, seen, next, put, nextGroups, active, pidMap, groupMap, leaked>>
    BY DEF CommitGroups, Finish
  <1>2. TypeOK' BY <1>1 DEF MapIInv, TypeOK
  <1>3. Shapes' BY <1>1 DEF MapIInv, Shapes
  <1>4. PidPhases' BY <1>1 DEF MapIInv, PidPhases
  <1>5. GroupPhases' BY <1>1 DEF MapIInv, GroupPhases
  <1> QED BY <1>2, <1>3, <1>4, <1>5 DEF MapIInv

LEMMA NextMap ==
  ASSUME MapIInv, [Next]_vars
  PROVE  MapIInv'
  <1>1. CASE BeginRefresh BY <1>1, BeginRefreshMap
  <1>2. CASE RefreshStep
    BY <1>2, ScanPidMap, AddPidMap, DeletePidMap, AddGroupMap, DeleteGroupMap, ResolveMap, AddsDoneMap,
       CommitMap, DiscoverCgroupsMap, CommitGroupsMap, AddFailsMap DEF RefreshStep
  <1>3. CASE Environment BY <1>3, EnvironmentFrame
  <1>4. CASE UNCHANGED vars
    BY <1>4 DEF vars, MapIInv, TypeOK, Shapes, PidPhases, GroupPhases
  <1> QED BY <1>1, <1>2, <1>3, <1>4 DEF Next

(* The inductive invariant of the maps holds in every state.                *)
THEOREM MapInvariance == Spec => []MapIInv
  <1>1. Init => MapIInv BY InitMap
  <1>2. MapIInv /\ [Next]_vars => MapIInv' BY NextMap
  <1> QED BY <1>1, <1>2, PTL DEF Spec

(* For any processes, cgroups and failures of map operations: target_pids   *)
(* never holds more than max_entries, and between two refreshes both maps   *)
(* hold what targetManager believes they do, plus only what a failed Put or *)
(* Delete left behind (target.go, refreshLocked and refreshCgroupsLocked).  *)
THEOREM MapsAgree == Spec => []TargetInv
  <1>1. MapIInv => TargetInv
    BY DEF MapIInv, TargetInv, MapsMatch, PidPhases, GroupPhases
  <1> QED BY <1>1, MapInvariance, PTL

-----------------------------------------------------------------------------
(* What is traced *)

LEMMA BornEffect ==
  ASSUME MapIInv, NEW c \in Pids, NEW q \in Pids \cup {Outside}, NEW g \in Groups, NEW o \in BOOLEAN,
         Born(c, q, g, o), q # Outside \/ g # TargetGroup
  PROVE  /\ c \notin Alive /\ Alive' = Alive \cup {c}
         /\ proc'[c].parent = q /\ proc'[c].group = g /\ proc'[c].ours = o
         /\ \A p \in Pids \ {c} : proc'[p] = proc[p]
         /\ used' = used \cup {c} /\ (~reused' => ~reused /\ c \notin used)
  <1>1. proc \in [Pids -> Process] BY DEF MapIInv, Shapes
  <1>2. proc' = [proc EXCEPT ![c] = [parent |-> q, group |-> g, ours |-> o]] BY DEF Born
  <1>3. /\ proc'[c].parent = q /\ proc'[c].group = g /\ proc'[c].ours = o
        /\ \A p \in Pids \ {c} : proc'[p] = proc[p]
    BY <1>1, <1>2
  <1>4. proc'[c] # Dead BY <1>3, DeadType
  <1>5. Alive' = Alive \cup {c} BY <1>3, <1>4 DEF Alive, Dead
  <1> QED BY <1>3, <1>5 DEF Born

LEMMA ExitEffect ==
  ASSUME MapIInv, Families, NEW x \in Pids, Exit(x)
  PROVE  /\ Alive' = Alive \ {x} /\ x \in Alive /\ UNCHANGED <<used, reused>>
         /\ \A p \in Pids \ {x} : /\ proc'[p].group = proc[p].group /\ proc'[p].ours = proc[p].ours
                                  /\ proc'[p].parent = IF proc[p].parent = x THEN Outside ELSE proc[p].parent
         /\ proc'[x] = Dead
  <1>1. proc \in [Pids -> Process] /\ x \in Alive /\ UNCHANGED <<used, reused>> BY DEF MapIInv, Shapes, Exit
  <1>2. proc' = [q \in Pids |-> IF q = x THEN Dead
                                ELSE IF proc[q].parent = x THEN [proc[q] EXCEPT !.parent = Outside]
                                ELSE proc[q]]
    BY DEF Exit
  <1>3. ASSUME NEW p \in Pids \ {x}
        PROVE  /\ proc'[p].group = proc[p].group /\ proc'[p].ours = proc[p].ours
               /\ proc'[p].parent = IF proc[p].parent = x THEN Outside ELSE proc[p].parent
               /\ proc'[p] = Dead <=> proc[p] = Dead
    <2>1. proc[p] \in Process BY <1>1
    <2>2. CASE proc[p].parent = x
      <3>1. proc'[p] = [proc[p] EXCEPT !.parent = Outside] BY <1>2, <2>2
      <3>2. proc'[p].group = proc[p].group /\ proc'[p].ours = proc[p].ours /\ proc'[p].parent = Outside
        BY <2>1, <3>1 DEF Process
      <3>3. proc[p] # Dead BY <2>2, DeadType, PidsAssumption
      <3>4. proc[p].ours \/ proc[p].group # TargetGroup BY <3>3 DEF Families, Alive
      <3> QED BY <2>2, <3>2, <3>3, <3>4, DeadType
    <2>3. CASE proc[p].parent # x BY <1>2, <2>3
    <2> QED BY <2>2, <2>3
  <1>4. proc'[x] = Dead BY <1>2
  <1>5. Alive' = Alive \ {x}
    <2>1. \A p \in Pids : p \in Alive' <=> p \in Alive /\ p # x BY <1>3, <1>4 DEF Alive, Dead
    <2> QED BY <2>1 DEF Alive
  <1> QED BY <1>1, <1>3, <1>4, <1>5

(* While no number was used again, a birth makes nothing untrue that a      *)
(* refresh has read or found.                                               *)
LEMMA BornTraces ==
  ASSUME TraceIInv, NEW c \in Pids, NEW q \in Pids \cup {Outside}, NEW g \in Groups, NEW o \in BOOLEAN,
         Born(c, q, g, o), q # Outside \/ g # TargetGroup,
         o <=> g = TargetGroup, q \in Pids => q \in Alive /\ (o <=> proc[q].ours)
  PROVE  Families' /\ (~reused' => SeenIsCoherent' /\ (NamesAProcess' => FoundAreOurs'))
  <1>1. /\ c \notin Alive /\ Alive' = Alive \cup {c}
        /\ proc'[c].parent = q /\ proc'[c].group = g /\ proc'[c].ours = o
        /\ \A p \in Pids \ {c} : proc'[p] = proc[p]
        /\ used' = used \cup {c} /\ (~reused' => ~reused /\ c \notin used)
    BY BornEffect DEF TraceIInv
  <1>2. UNCHANGED <<mode, seen, next, pidMap>> BY DEF Born, refreshVars, mapVars
  <1>3. /\ DOMAIN seen \subseteq Pids /\ next \subseteq Pids /\ pidMap \subseteq Pids
    BY DEF TraceIInv, MapIInv, Shapes, TypeOK
  <1>4. Families'
    <2>1. \A p \in Alive' : proc'[p].ours <=> proc'[p].group = TargetGroup
      BY <1>1 DEF TraceIInv, Families, Alive
    <2>2. ASSUME NEW p \in Pids, NEW r \in Pids, proc'[p].parent = r
          PROVE  r \in Alive' /\ (proc'[p].ours <=> proc'[r].ours)
      <3>1. CASE p = c BY <1>1, <2>2, <3>1, PidsAssumption
      <3>2. CASE p # c BY <1>1, <2>2, <3>2 DEF TraceIInv, Families
      <3> QED BY <3>1, <3>2
    <2>3. Alive' \subseteq used' /\ Root \in used' /\ used' \subseteq Pids
      BY <1>1 DEF TraceIInv, Families
    <2> QED BY <2>1, <2>2, <2>3 DEF Families
  <1>5. ASSUME ~reused' PROVE SeenIsCoherent'
    <2>1. SeenIsCoherent /\ c \notin used /\ Root \in used BY <1>1, <1>5 DEF TraceIInv, Families
    <2>2. c # Root /\ c \notin DOMAIN seen /\ \A p \in DOMAIN seen : seen[p].parent # c
      BY <2>1, PidsAssumption DEF SeenIsCoherent
    <2> QED BY <1>1, <1>2, <1>3, <2>1, <2>2, PidsAssumption DEF SeenIsCoherent
  <1>6. ASSUME ~reused', NamesAProcess' PROVE FoundAreOurs'
    <2>1. FoundAreOurs /\ c \notin used BY <1>1, <1>2, <1>6 DEF TraceIInv, NamesAProcess
    <2> QED BY <1>1, <1>2, <1>3, <2>1 DEF FoundAreOurs
  <1> QED BY <1>4, <1>5, <1>6

LEMMA ExitTraces ==
  ASSUME TraceIInv, NEW x \in Pids, Exit(x)
  PROVE  Families' /\ (~reused' => SeenIsCoherent' /\ (NamesAProcess' => FoundAreOurs'))
  <1>1. /\ Alive' = Alive \ {x} /\ x \in Alive /\ UNCHANGED <<used, reused>>
        /\ \A p \in Pids \ {x} : /\ proc'[p].group = proc[p].group /\ proc'[p].ours = proc[p].ours
                                 /\ proc'[p].parent = IF proc[p].parent = x THEN Outside ELSE proc[p].parent
        /\ proc'[x] = Dead
    BY ExitEffect DEF TraceIInv
  <1>2. UNCHANGED <<mode, seen, next, pidMap>> BY DEF Exit, refreshVars, mapVars
  <1>3. /\ DOMAIN seen \subseteq Pids /\ next \subseteq Pids /\ pidMap \subseteq Pids /\ Alive \subseteq Pids
    BY DEF TraceIInv, MapIInv, Shapes, TypeOK, Alive
  <1>4. Families'
    <2>1. \A p \in Alive' : proc'[p].ours <=> proc'[p].group = TargetGroup
      BY <1>1, <1>3 DEF TraceIInv, Families
    <2>2. ASSUME NEW p \in Pids, NEW r \in Pids, proc'[p].parent = r
          PROVE  r \in Alive' /\ (proc'[p].ours <=> proc'[r].ours)
      <3>1. p # x BY <1>1, <2>2, DeadType, PidsAssumption
      <3>2. proc[p].parent = r /\ r # x BY <1>1, <2>2, <3>1, PidsAssumption
      <3> QED BY <1>1, <2>2, <3>1, <3>2 DEF TraceIInv, Families
    <2>3. Alive' \subseteq used' /\ Root \in used' /\ used' \subseteq Pids
      BY <1>1 DEF TraceIInv, Families
    <2> QED BY <2>1, <2>2, <2>3 DEF Families
  <1>5. ASSUME ~reused' PROVE SeenIsCoherent'
    <2>1. SeenIsCoherent BY <1>1, <1>5 DEF TraceIInv
    <2> QED BY <1>1, <1>2, <1>3, <2>1, PidsAssumption DEF SeenIsCoherent
  <1>6. ASSUME ~reused', NamesAProcess' PROVE FoundAreOurs'
    <2>1. FoundAreOurs BY <1>1, <1>2, <1>6 DEF TraceIInv, NamesAProcess
    <2> QED BY <1>1, <1>2, <1>3, <2>1 DEF FoundAreOurs
  <1> QED BY <1>4, <1>5, <1>6

LEMMA EnvironmentTraces ==
  ASSUME TraceIInv, Environment
  PROVE  TraceIInv'
  <1>1. MapIInv' BY EnvironmentFrame DEF TraceIInv
  <1>2. ASSUME NEW c \in Pids, NEW g \in Groups, Start(c, g)
        PROVE  Families' /\ (~reused' => SeenIsCoherent' /\ (NamesAProcess' => FoundAreOurs'))
    <2>1. Born(c, Outside, g, FALSE) /\ g # TargetGroup BY <1>2 DEF Start
    <2> QED BY <2>1, BornTraces, PidsAssumption
  <1>3. ASSUME NEW c \in Pids, NEW p \in Pids, Fork(p, c)
        PROVE  Families' /\ (~reused' => SeenIsCoherent' /\ (NamesAProcess' => FoundAreOurs'))
    <2>1. p \in Alive /\ Born(c, p, proc[p].group, proc[p].ours) BY <1>3 DEF Fork
    <2>2. proc[p].group \in Groups /\ proc[p].ours \in BOOLEAN BY DEF TraceIInv, MapIInv, Shapes, Process
    <2>3. proc[p].ours <=> proc[p].group = TargetGroup BY <2>1 DEF TraceIInv, Families
    <2>4. p # Outside BY PidsAssumption
    <2> QED BY <2>1, <2>2, <2>3, <2>4, BornTraces
  <1> QED BY <1>1, <1>2, <1>3, ExitTraces DEF Environment, TraceIInv

(* The tree of a coherent scan holds only processes of the target. *)
LEMMA TreeIsOurs ==
  ASSUME TraceIInv, SeenIsCoherent, NEW p \in Tree(seen)
  PROVE  p \in used /\ (p \in Alive => proc[p].ours)
  <1> DEFINE S == {q \in DOMAIN seen \cup {Root} : q = Root \/ (q \in DOMAIN seen /\ seen[q].ours)}
  <1>1. DOMAIN seen \subseteq Pids /\ Root \in used BY DEF TraceIInv, MapIInv, Shapes, Families
  <1>2. WithChildren(S, seen)
    <2> SUFFICES ASSUME NEW r \in DOMAIN seen, seen[r].parent \in S
                 PROVE  r \in S
      BY DEF WithChildren
    <2>1. CASE seen[r].parent = Root BY <2>1 DEF SeenIsCoherent
    <2>2. CASE seen[r].parent # Root
      <3>1. PICK q \in DOMAIN seen : q = seen[r].parent /\ seen[q].ours BY <2>2
      <3> QED BY <1>1, <3>1 DEF SeenIsCoherent
    <2> QED BY <2>1, <2>2
  <1>3. S \in SUBSET (DOMAIN seen \cup {Root}) /\ Root \in S OBVIOUS
  <1>4. p \in S
    <2> HIDE DEF S
    <2> QED BY <1>2, <1>3 DEF Tree
  <1> QED BY <1>1, <1>4 DEF SeenIsCoherent

LEMMA FoundIsOurs ==
  ASSUME TraceIInv, SeenIsCoherent, NamesAProcess, NEW p \in Found(seen)
  PROVE  p \in used /\ (p \in Alive => proc[p].ours)
  <1>1. p = Root \/ p \in Tree(seen)
    BY DEF Found, discover, resolveTargetPIDs, livePIDs, Combined, CombinedModes, NamesAProcess
  <1>2. CASE p = Root BY <1>2 DEF TraceIInv, Families, SeenIsCoherent
  <1> QED BY <1>1, <1>2, TreeIsOurs

(* A refresh step does not touch the processes: it has to keep what was     *)
(* read coherent and what is found the target's.                            *)
LEMMA RefreshTraces ==
  ASSUME TraceIInv, MapIInv', UNCHANGED <<mode, proc, used, reused>>,
         ~reused => SeenIsCoherent',
         ~reused /\ NamesAProcess => \A p \in next' \cup pidMap' : p \in used /\ (p \in Alive => proc[p].ours)
  PROVE  TraceIInv'
  <1>1. Alive' = Alive BY DEF Alive
  <1>2. Families' BY <1>1 DEF TraceIInv, Families
  <1>3. NamesAProcess' <=> NamesAProcess BY DEF NamesAProcess
  <1>4. ~reused' /\ NamesAProcess' => FoundAreOurs' BY <1>1, <1>3 DEF FoundAreOurs
  <1> QED BY <1>2, <1>4 DEF TraceIInv

LEMMA EmptyScanCoherent ==
  ASSUME TraceIInv, UNCHANGED <<proc, used>>, seen' = [p \in {} |-> Dead], ~reused
  PROVE  SeenIsCoherent'
  <1>1. Alive' = Alive BY DEF Alive
  <1> QED BY <1>1 DEF TraceIInv, SeenIsCoherent

LEMMA ScanCoherent ==
  ASSUME TraceIInv, NEW p \in Pids, ScanPid(p), ~reused
  PROVE  SeenIsCoherent'
  <1>1. UNCHANGED <<proc, used>> /\ Alive' = Alive BY DEF ScanPid, Alive
  <1>2. SeenIsCoherent /\ Families /\ DOMAIN seen \subseteq Pids BY DEF TraceIInv, MapIInv, Shapes
  <1>3. CASE p \notin Alive
    <2>1. seen' = seen BY <1>3 DEF ScanPid
    <2> QED BY <1>1, <1>2, <2>1 DEF SeenIsCoherent
  <1>4. CASE p \in Alive
    <2>1. seen' = [q \in DOMAIN seen \cup {p} |-> IF q = p THEN proc[p] ELSE seen[q]] BY <1>4 DEF ScanPid
    <2>2. /\ DOMAIN seen' = DOMAIN seen \cup {p} /\ seen'[p] = proc[p]
          /\ \A q \in DOMAIN seen \ {p} : seen'[q] = seen[q]
      BY <2>1
    <2>3. proc[p].parent \in Pids \cup {Outside} /\ p \in used
      BY <1>2, <1>4 DEF TraceIInv, MapIInv, Shapes, Process, Families
    <2>4. \A q \in Pids : proc[p].parent = q => q \in used /\ q \in Alive /\ (proc[p].ours <=> proc[q].ours)
      BY <1>2, <1>4 DEF Families
    <2>5. Root \in Alive => proc[Root].ours BY <1>2 DEF SeenIsCoherent
    <2>6. ASSUME NEW r \in DOMAIN seen'
          PROVE  /\ seen'[r].parent \in used \cup {Outside}
                 /\ r \in Alive => (seen'[r].ours <=> proc[r].ours)
                 /\ r = Root => seen'[r].ours
                 /\ seen'[r].parent = Root => seen'[r].ours
      <3>1. CASE r = p BY <1>4, <2>2, <2>3, <2>4, <2>5, <3>1, PidsAssumption
      <3>2. CASE r # p BY <1>2, <2>2, <3>2 DEF SeenIsCoherent
      <3> QED BY <3>1, <3>2
    <2>7. ASSUME NEW r \in DOMAIN seen', NEW q \in Pids, seen'[r].parent = q
          PROVE  q \in Alive => (seen'[r].ours <=> proc[q].ours)
      <3>1. CASE r = p BY <2>2, <2>4, <2>7, <3>1
      <3>2. CASE r # p BY <1>2, <2>2, <2>7, <3>2 DEF SeenIsCoherent
      <3> QED BY <3>1, <3>2
    <2>8. ASSUME NEW r \in DOMAIN seen', NEW q \in DOMAIN seen', seen'[r].parent = q
          PROVE  seen'[r].ours <=> seen'[q].ours
      <3>1. CASE q \in Alive
        <4>1. seen'[q].ours <=> proc[q].ours BY <2>6, <3>1
        <4>2. q \in Pids BY <1>2, <2>2
        <4> QED BY <2>7, <2>8, <3>1, <4>1, <4>2
      <3>2. CASE q \notin Alive
        <4>1. q # p /\ q \in DOMAIN seen /\ q \in Pids BY <1>2, <1>4, <2>2, <3>2
        <4>2. r # p BY <2>2, <2>4, <2>8, <3>2, <4>1
        <4> QED BY <1>2, <2>2, <2>8, <4>1, <4>2 DEF SeenIsCoherent
      <3> QED BY <3>1, <3>2
    <2>9. DOMAIN seen' \subseteq used BY <1>2, <2>2, <2>3 DEF SeenIsCoherent
    <2> QED BY <1>1, <1>2, <2>2, <2>5, <2>6, <2>7, <2>8, <2>9 DEF SeenIsCoherent
  <1> QED BY <1>3, <1>4

LEMMA RefreshStepTraces ==
  ASSUME TraceIInv, BeginRefresh \/ RefreshStep
  PROVE  TraceIInv'
  <1>1. MapIInv /\ MapIInv' BY NextMap DEF TraceIInv, Next
  <1>2. UNCHANGED <<mode, proc, used, reused>>
    BY DEF BeginRefresh, RefreshStep, ScanPid, AddPid, DeletePid, AddGroup, DeleteGroup, Resolve, AddsDone,
           Commit, DiscoverCgroups, CommitGroups, AddFails
  <1>3. ASSUME ~reused PROVE SeenIsCoherent'
    <2>1. CASE UNCHANGED seen
      <3>1. Alive' = Alive BY <1>2 DEF Alive
      <3> QED BY <1>2, <1>3, <2>1, <3>1 DEF TraceIInv, SeenIsCoherent
    <2>2. CASE seen' = [p \in {} |-> Dead] BY <1>2, <1>3, <2>2, EmptyScanCoherent
    <2>3. CASE \E p \in Pids : ScanPid(p) BY <1>3, <2>3, ScanCoherent
    <2> QED
      BY <2>1, <2>2, <2>3
      DEF BeginRefresh, RefreshStep, AddPid, DeletePid, AddGroup, DeleteGroup, Resolve, AddsDone,
          Commit, DiscoverCgroups, CommitGroups, AddFails
  <1>4. ASSUME ~reused, NamesAProcess, NEW p \in next' \cup pidMap'
        PROVE  p \in used /\ (p \in Alive => proc[p].ours)
    <2>1. p \in next \cup pidMap \/ (Resolve /\ p \in Found(seen))
      <3>1. CASE BeginRefresh BY <1>4, <3>1 DEF BeginRefresh, mapVars
      <3>2. CASE Resolve BY <1>4, <3>2 DEF Resolve, mapVars
      <3>3. CASE RefreshStep /\ ~Resolve
        BY <1>4, <3>3
        DEF RefreshStep, ScanPid, AddPid, DeletePid, AddGroup, DeleteGroup, AddsDone, Missing,
            Commit, DiscoverCgroups, CommitGroups, AddFails, mapVars
      <3> QED BY <3>1, <3>2, <3>3
    <2>2. SeenIsCoherent /\ FoundAreOurs BY <1>4 DEF TraceIInv
    <2> QED BY <1>4, <2>1, <2>2, FoundIsOurs DEF FoundAreOurs
  <1> QED BY <1>1, <1>2, <1>3, <1>4, RefreshTraces

LEMMA InitTraces == Init => TraceIInv
  <1> SUFFICES ASSUME Init
               PROVE  TraceIInv
    OBVIOUS
  <1>1. MapIInv BY InitMap
  <1> DEFINE first == [Dead EXCEPT !.ours = TRUE]
  <1>2. first.parent = Outside /\ first.group = TargetGroup /\ first.ours = TRUE
    BY DEF Dead
  <1>3. proc[Root] = first /\ \A p \in Pids \ {Root} : proc[p] = Dead BY PidsAssumption DEF Init
  <1> HIDE DEF first
  <1>4. Alive = {Root}
    <2>1. first # Dead BY <1>2, DeadType
    <2> QED BY <1>3, <2>1, PidsAssumption DEF Alive
  <1>5. Families
    <2>1. \A p \in Pids : proc[p].parent = Outside BY <1>2, <1>3, DeadType
    <2> QED BY <1>2, <1>3, <1>4, <2>1, PidsAssumption DEF Families, Init
  <1>6. SeenIsCoherent BY <1>2, <1>3 DEF SeenIsCoherent, Init
  <1>7. FoundAreOurs BY DEF FoundAreOurs, Init
  <1> QED BY <1>1, <1>5, <1>6, <1>7 DEF TraceIInv

(* The inductive invariant of what is traced holds in every state.          *)
THEOREM TraceInvariance == Spec => []TraceIInv
  <1>1. Init => TraceIInv BY InitTraces
  <1>2. TraceIInv /\ [Next]_vars => TraceIInv'
    <2> SUFFICES ASSUME TraceIInv, [Next]_vars
                 PROVE  TraceIInv'
      OBVIOUS
    <2>1. CASE UNCHANGED vars
      <3>1. MapIInv' BY NextMap DEF TraceIInv
      <3>2. Alive' = Alive /\ UNCHANGED <<mode, proc, used, reused, seen, next, pidMap>> BY <2>1 DEF vars, Alive
      <3>3. ~reused => SeenIsCoherent' BY <3>2 DEF TraceIInv, SeenIsCoherent
      <3>4. ~reused /\ NamesAProcess => \A p \in next' \cup pidMap' : p \in used /\ (p \in Alive => proc[p].ours)
        BY <3>2 DEF TraceIInv, FoundAreOurs
      <3> QED BY <3>1, <3>2, <3>3, <3>4, RefreshTraces
    <2> QED BY <2>1, RefreshStepTraces, EnvironmentTraces DEF Next
  <1> QED BY <1>1, <1>2, PTL DEF Spec

(* In the modes that name a process, no process outside its family is       *)
(* traced, whatever is forked and exits while /proc is read entry by entry, *)
(* for any number of processes, as long as no process number is used again  *)
(* (target.go, resolveTargetPIDs; the combined binary's discover).          *)
THEOREM NoStrangerTraced == Spec => []TracesOnlyTargets
  <1>1. TraceIInv => TracesOnlyTargets
    BY DEF TraceIInv, FoundAreOurs, NamesAProcess, TracesOnlyTargets, should_trace
  <1> QED BY <1>1, TraceInvariance, PTL
=============================================================================
