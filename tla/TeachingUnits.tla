---------------------------- MODULE TeachingUnits ----------------------------
(* Lazily generated teaching units: requests for one unit queue behind a    *)
(* lock of the process and claim the unit's record in the database, the     *)
(* winner generates it and the others wait for it.                          *)
(*                                                                          *)
(* A lock lives as long as its entry in the table of locks and the requests *)
(* that hold or await it; it is known by the request that made it.          *)
EXTENDS ProjectIngest

CONSTANTS Learners,      \* requests for teaching units
          UnitTargets,   \* of each name of a target, the node it means, with the
                         \* path inside the archive
          MaxRetries

VARIABLES
  learners,    \* each request: [pc, key, lock, candidates]
  locks,       \* of each key, the lock in the table (or "none")
  holders      \* of each lock, the request that holds it (or "none")

teachingVars == <<learners, locks, holders>>
restOfTeaching == <<rows, aged, chunks, sessions, ingestVars>>

ASSUME KeysAssumption ==
  UnitKeys \subseteq Projects \X (DOMAIN UnitTargets) \X {"beginner", "normal", "advanced"}

NoKey == <<>>
NewLearner(key) == [pc |-> "new", key |-> key, lock |-> "none", candidates |-> {}]
Answered == [NewLearner(NoKey) EXCEPT !.pc = "answered"]

ProjectOf(key) == key[1]
TargetOf(key) == key[2]
LevelOf(key) == key[3]

(* A unit is known by its target alone once it has been generated.          *)
UnitId(key) == <<ProjectOf(key), TargetOf(key)>>

Generating == [state |-> "generating", retries |-> 0, expired |-> FALSE,
               named |-> FALSE, prerequisites |-> {}]

LearnerTo(l, pc) == learners' = [learners EXCEPT ![l].pc = pc]

(* What a request makes of the record it reads.                             *)
RecordSays(unit) ==
  CASE unit = NoUnit -> "go on"
    [] unit # NoUnit /\ unit.expired -> "go on"
    [] unit # NoUnit /\ ~unit.expired ->
         IF unit.state = "ready" THEN "ready"
         ELSE IF \/ unit.state = "failed_permanent"
                 \/ unit.state = "failed_retryable" /\ unit.retries >= MaxRetries
         THEN "refused" ELSE "go on"

----------------------------------------------------------------------------
(* The advanced level is not offered, and the project must be ready.        *)
Request(l) ==
  /\ learners[l].pc = "new"
  /\ LET key == learners[l].key
     IN  IF LevelOf(key) # "advanced" /\ IsReady(ProjectOf(key))
         THEN LearnerTo(l, "look") ELSE learners' = [learners EXCEPT ![l] = Answered]
  /\ UNCHANGED <<locks, holders, units>>

(* The lock is the one in the table, or a new one that is put there.        *)
Look(l) ==
  /\ learners[l].pc = "look"
  /\ LET key == learners[l].key
         lock == IF locks[key] = "none" THEN l ELSE locks[key]
     IN  IF RecordSays(units[key]) = "go on"
         THEN /\ learners' = [learners EXCEPT ![l].pc = "lock", ![l].lock = lock]
              /\ locks' = [locks EXCEPT ![key] = lock]
         ELSE learners' = [learners EXCEPT ![l] = Answered] /\ UNCHANGED locks
  /\ UNCHANGED <<holders, units>>

Enter(l) ==
  /\ learners[l].pc = "lock" /\ holders[learners[l].lock] = "none"
  /\ holders' = [holders EXCEPT ![learners[l].lock] = l]
  /\ LearnerTo(l, "recheck")
  /\ UNCHANGED <<locks, units>>

(* A mutant: the lock is taken out of the table without being released.     *)
Leave_Locked(l) ==
  /\ learners' = [learners EXCEPT ![l] = Answered]
  /\ locks' = [locks EXCEPT ![learners[l].key] = "none"]
  /\ UNCHANGED holders

(* Whoever leaves takes the table's entry away, also that of a later lock.  *)
Leave(l) ==
  /\ learners' = [learners EXCEPT ![l] = Answered]
  /\ holders' = [holders EXCEPT ![learners[l].lock] = "none"]
  /\ locks' = [locks EXCEPT ![learners[l].key] = "none"]

Recheck(l) ==
  /\ learners[l].pc = "recheck"
  /\ IF RecordSays(units[learners[l].key]) = "go on"
     THEN LearnerTo(l, "begin") /\ UNCHANGED <<locks, holders>>
     ELSE Leave(l)
  /\ UNCHANGED units

(* Mutants: a claim past its time is taken over, a claim asks only whether  *)
(* the record is being generated.                                           *)
MayClaim_Expired(unit) ==
  unit = NoUnit \/ (unit # NoUnit /\ (unit.state = "failed_retryable" \/ unit.expired))

MayClaim_NotGenerating(unit) ==
  unit.state \in {"none", "failed_retryable", "ready"}

(* A record is claimed if there is none, if its last try may be repeated or *)
(* if it is past its time; a generation or a final failure is never taken   *)
(* over.                                                                    *)
MayClaim(unit) ==
  \/ unit = NoUnit
  \/ unit # NoUnit /\ unit.state = "failed_retryable"
  \/ unit # NoUnit /\ unit.state = "ready" /\ unit.expired

Claimed(unit) ==
  IF unit = NoUnit THEN Generating
  ELSE [unit EXCEPT !.state = "generating", !.expired = FALSE,
                    !.retries = IF unit.state = "ready" THEN 0 ELSE @]

Begin(l) ==
  /\ learners[l].pc = "begin"
  /\ LET key == learners[l].key
     IN  \/ rows[ProjectOf(key)] = NoRow /\ Leave(l) /\ UNCHANGED units
         \/ /\ rows[ProjectOf(key)] # NoRow /\ MayClaim(units[key])
            /\ units' = [units EXCEPT ![key] = Claimed(@)]
            /\ LearnerTo(l, "gather") /\ UNCHANGED <<locks, holders>>
         \/ /\ rows[ProjectOf(key)] # NoRow /\ ~MayClaim(units[key])
            /\ LearnerTo(l, "wait") /\ UNCHANGED <<locks, holders, units>>

TargetNode(p, target) == [UnitTargets[target] EXCEPT !.path = Extracted(p, @)]

(* The units that are ready now.                                            *)
ReadyUnits(p) == {UnitId(k) : k \in {n \in UnitKeys : ProjectOf(n) = p /\ units[n].state = "ready"}}

(* A mutant: units that are still being generated are offered as well.      *)
Gather_Unfinished(l) ==
  /\ learners[l].pc = "gather"
  /\ LET key == learners[l].key
         others == {k \in UnitKeys : ProjectOf(k) = ProjectOf(key) /\ units[k] # NoUnit}
     IN  learners' = [learners EXCEPT
           ![l].pc = "build",
           ![l].candidates = {UnitId(k) : k \in others} \ {UnitId(key)}]
  /\ UNCHANGED <<locks, holders, units>>

(* The target must be in the graph; the units that are ready now may be     *)
(* prerequisites, the unit itself never.                                    *)
Gather(l) ==
  /\ learners[l].pc = "gather"
  /\ LET key == learners[l].key
         p == ProjectOf(key)
     IN  IF HasGraph(Contents(p)) /\ TargetNode(p, TargetOf(key)) \in Graph(p).nodes
         THEN learners' = [learners EXCEPT
                ![l].pc = "build",
                ![l].candidates = ReadyUnits(p) \ {UnitId(key)}]
         ELSE LearnerTo(l, "final")
  /\ UNCHANGED <<locks, holders, units>>

MaxPrerequisites == 8

(* The model names some of the candidates, of which the first are kept, or  *)
(* leaves it to the order they are in.                                      *)
Prerequisites(candidates) ==
  {chosen \in SUBSET candidates : Cardinality(chosen) <= MaxPrerequisites}

(* The model answers or fails, now or for good.                             *)
Build(l) ==
  /\ learners[l].pc = "build"
  /\ \/ \E chosen \in Prerequisites(learners[l].candidates) :
          learners' = [learners EXCEPT ![l].pc = "store", ![l].candidates = chosen]
     \/ LearnerTo(l, "retryable")
     \/ LearnerTo(l, "final")
  /\ UNCHANGED <<locks, holders, units>>

(* The unit of another level of this target has the same name: storing the  *)
(* second one fails for good.                                               *)
NameTaken(key) ==
  \E k \in UnitKeys \ {key} :
    units[k] # NoUnit /\ units[k].named /\ UnitId(k) = UnitId(key)

StoreUnit(l) ==
  /\ learners[l].pc = "store"
  /\ LET key == learners[l].key
     IN  IF units[key].state = "generating" /\ ~NameTaken(key)
         THEN /\ units' = [units EXCEPT
                   ![key].state = "ready", ![key].named = TRUE,
                   ![key].prerequisites = learners[l].candidates]
              /\ Leave(l)
         ELSE LearnerTo(l, "final") /\ UNCHANGED <<locks, holders, units>>

StoreFailure(l) ==
  /\ learners[l].pc \in {"retryable", "final"}
  /\ LET key == learners[l].key
     IN  units' = IF units[key].state = "generating"
                  THEN [units EXCEPT
                          ![key].state = IF learners[l].pc = "final"
                                         THEN "failed_permanent" ELSE "failed_retryable",
                          ![key].retries = @ + 1]
                  ELSE units
  /\ Leave(l)

(* Who did not win polls the record until it says something or a time-out   *)
(* has passed, holding the lock.                                            *)
Wait(l) ==
  /\ learners[l].pc = "wait"
  /\ Leave(l)
  /\ UNCHANGED units

UnitExpires(key) ==
  /\ units[key] # NoUnit /\ ~units[key].expired
  /\ units' = [units EXCEPT ![key].expired = TRUE]
  /\ UNCHANGED teachingVars

(* The database is busy.  What fails while the unit is made is recorded as  *)
(* a failure, if that can be; anything else ends the request.               *)
LoseStatement(l) ==
  /\ \/ /\ learners[l].pc = "look"
        /\ learners' = [learners EXCEPT ![l] = Answered]
        /\ UNCHANGED <<locks, holders>>
     \/ /\ learners[l].pc \in {"gather", "store"}
        /\ LearnerTo(l, "final") /\ UNCHANGED <<locks, holders>>
     \/ learners[l].pc \in {"recheck", "begin", "retryable", "final"} /\ Leave(l)
  /\ UNCHANGED units

LearnerStep(l) ==
  \/ Look(l) \/ Enter(l) \/ Recheck(l) \/ Begin(l) \/ Gather(l) \/ Build(l)
  \/ StoreUnit(l) \/ StoreFailure(l) \/ Wait(l)

TeachingStep ==
  \/ (\E l \in Learners : Request(l) \/ LearnerStep(l)) /\ UNCHANGED restOfTeaching
  \/ (\E key \in UnitKeys : UnitExpires(key)) /\ UNCHANGED restOfTeaching
  \/ /\ \E l \in Learners : LoseStatement(l)
     /\ Fault
     /\ UNCHANGED <<rows, aged, chunks, sessions, dirs, tasks, writers, sweep>>

ForgetLearners ==
  /\ learners' = [l \in Learners |-> Answered]
  /\ locks' = [key \in UnitKeys |-> "none"]
  /\ holders' = [l \in Learners |-> "none"]

----------------------------------------------------------------------------
(* A unit is generated by one request at a time, whatever locks come and    *)
(* go, and a record only says it is being generated while a request is at   *)
(* it, unless a fault took that request away.                               *)
WorkingOn(key) ==
  {l \in Learners : learners[l].key = key
     /\ learners[l].pc \in {"gather", "build", "store", "retryable", "final"}}

EveryGenerationHasOneOwner ==
  \A key \in UnitKeys :
    /\ Cardinality(WorkingOn(key)) <= 1
    /\ units[key].state = "generating" /\ ~faults.met => WorkingOn(key) # {}

(* The prerequisites of a unit are other units of its project that exist.   *)
PrerequisitesExist ==
  \A key \in UnitKeys :
    units[key] # NoUnit =>
      \A id \in units[key].prerequisites :
        /\ id # UnitId(key)
        /\ \E k \in UnitKeys : UnitId(k) = id /\ units[k] # NoUnit /\ units[k].named

(* A unit that is ready stays as it is until its time is over or its        *)
(* project is deleted.                                                      *)
ReadyUnitsStay ==
  [][\A key \in UnitKeys :
       units[key].state = "ready" /\ ~units[key].expired /\ rows'[ProjectOf(key)] # NoRow
         => units'[key] \in {units[key], [units[key] EXCEPT !.expired = TRUE]}]_units
=============================================================================
