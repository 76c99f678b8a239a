---------------------------- MODULE Maintenance ----------------------------
(***************************************************************************)
(* Scrub and repair (reconcile.rs), drain and retire (lifecycle.rs), run   *)
(* by several operator processes beside uploads, with lost volumes, rot    *)
(* and agents that do not answer.                                          *)
(*                                                                         *)
(* Abstractions                                                            *)
(*  - An object is a model value; no file is deleted, so the required      *)
(*    objects of scrub and the historical objects of drain and retire are  *)
(*    the same set, `history'.  All objects share one inventory namespace. *)
(*  - The requests of one operation about one object to the agents, and    *)
(*    the rows written for their answers, are one step; the decisions      *)
(*    taken from them are later steps.                                     *)
(*  - Upload is as in CommitSpine: one step replicates the object and one  *)
(*    commits it.  Dry runs write nothing and are left out; job rows are   *)
(*    in JobLeases.                                                        *)
(*  - drain and retire also refuse while a recovery is pending; here they  *)
(*    do not, which only adds behaviours.                                  *)
(***************************************************************************)
EXTENDS Integers, FiniteSets

CONSTANTS
    Processes,      \* operator processes
    Settings        \* what a deployment may have and meet

ASSUME MaintenanceAssumption ==
    \A x \in Settings :
      /\ x.workers \subseteq Processes
      /\ IsFiniteSet(DOMAIN x.domains) /\ DOMAIN x.domains # {} /\ DOMAIN x.placed # {}
      /\ DOMAIN x.domains = 1..Cardinality(DOMAIN x.domains)
      /\ x.fragile \subseteq DOMAIN x.domains
      /\ \A o \in DOMAIN x.placed :
           /\ x.placed[o] \subseteq DOMAIN x.domains
           /\ x.placed[o] # {} => Cardinality({x.domains[a] : a \in x.placed[o]}) >= 2
      /\ x.operations \subseteq {"scrub", "repair", "drain", "retire"}
      /\ x.ops \in Nat /\ x.losses \in Nat /\ x.hiccups \in Nat /\ x.volumes \in Nat \ {0}

VARIABLES
    vol,        \* agent -> mounted volume
    good, bad,  \* agent -> objects it holds intact, and rotten
    active,     \* agent -> active incarnation, 0 if none
    refused,    \* agent -> its superseded and retired incarnations
    retired,    \* agent -> its retired incarnations
    rows,       \* object -> agent -> placement row
    history,    \* objects of committed files
    health,     \* object -> object_health row
    work,       \* worker -> the operation it runs
    ops, losses, hiccups,
    setting     \* the one of Settings this deployment has

dbVars  == <<active, refused, retired, rows, history, health>>
agVars  == <<vol, good, bad>>
envVars == <<ops, losses, hiccups>>
vars    == <<dbVars, agVars, envVars, work, setting>>

DomainOf   == setting.domains       \* agent -> failure domain
Agents     == DOMAIN DomainOf       \* in configuration order
NumAgents  == Cardinality(Agents)
Fragile    == setting.fragile       \* agents that may lose a volume or an object
Placed     == setting.placed        \* object -> agents that hold it at first, none if it is yet to be uploaded
Objects    == DOMAIN Placed
Workers    == setting.workers       \* the processes in use
Operations == setting.operations    \* what they may run
MaxOps     == setting.ops           \* bounds: operations other than "repair",
MaxLosses  == setting.losses        \*   lost volumes and rotten objects,
MaxHiccups == setting.hiccups       \*   failed requests,
MaxVolumes == setting.volumes       \*   volumes of one agent

Volumes == 1..MaxVolumes
Domains(S) == {DomainOf[a] : a \in S}
\* MINIMUM_REPLICAS distinct domains, which implies DESIRED_REPLICAS copies.
Replicated(S) == Cardinality(Domains(S)) >= 2

NoRow == [st |-> "none", inc |-> 0]
States == {"durable", "degraded", "at_risk", "lost"}
Idle == [pc |-> "idle", op |-> "scrub", x |-> 1, live |-> {}, inc |-> [a \in Agents |-> 0],
         listed |-> [a \in Agents |-> {}], scanned |-> {}, todo |-> {}, done |-> {},
         cur |-> CHOOSE o \in Objects : TRUE, valid |-> {}, found |-> [o \in Objects |-> "lost"],
         risk |-> FALSE, began |-> 0]

\* The type invariant: tables, volumes and the memory of every operation.
TypeOK ==
    /\ setting \in Settings
    /\ vol \in [Agents -> Volumes]
    /\ good \in [Agents -> SUBSET Objects] /\ bad \in [Agents -> SUBSET Objects]
    /\ active \in [Agents -> Volumes \cup {0}]
    /\ refused \in [Agents -> SUBSET Volumes] /\ retired \in [Agents -> SUBSET Volumes]
    /\ rows \in [Objects -> [Agents ->
          [st : {"none", "pending", "confirmed", "missing", "corrupt", "orphaned"},
           inc : Volumes \cup {0}]]]
    /\ history \subseteq Objects
    /\ health \in [Objects -> States \cup {"none"}]
    /\ work \in [Workers ->
          [pc : {"idle", "list", "verify", "repair", "drain", "place", "orphan", "check"},
           op : {"scrub", "repair", "drain", "retire"}, x : Agents, live : SUBSET Agents,
           inc : [Agents -> Volumes \cup {0}], listed : [Agents -> SUBSET Objects],
           scanned : SUBSET Agents, todo : SUBSET Objects, done : SUBSET Objects,
           cur : Objects, valid : SUBSET Agents, found : [Objects -> States],
           risk : BOOLEAN, began : 0..MaxLosses]]
    /\ ops \in 0..MaxOps /\ losses \in 0..MaxLosses /\ hiccups \in 0..MaxHiccups

Init ==
    /\ setting \in Settings
    /\ vol = [a \in Agents |-> 1]
    /\ good = [a \in Agents |-> {o \in Objects : a \in Placed[o]}]
    /\ bad = [a \in Agents |-> {}]
    /\ active = [a \in Agents |-> 1]
    /\ refused = [a \in Agents |-> {}] /\ retired = [a \in Agents |-> {}]
    /\ rows = [o \in Objects |-> [a \in Agents |->
                 IF a \in Placed[o] THEN [st |-> "confirmed", inc |-> 1] ELSE NoRow]]
    /\ history = {o \in Objects : Placed[o] # {}}
    /\ health = [o \in Objects |-> "none"]
    /\ work = [w \in Workers |-> Idle]
    /\ ops = 0 /\ losses = 0 /\ hiccups = 0

\* A step in which the requests to the agents in S fail.
Failing(S) ==
    IF S = {} THEN UNCHANGED hiccups
    ELSE /\ hiccups + Cardinality(S) <= MaxHiccups
         /\ hiccups' = hiccups + Cardinality(S)

Become(w, r) == work' = [work EXCEPT ![w] = r]

-----------------------------------------------------------------------------
(* Placement rows *)

\* LIVE_CONFIRMED
LiveOn(o) == {a \in Agents : rows[o][a].st = "confirmed" /\ rows[o][a].inc = active[a]}

\* observe_agent_incarnation of the agents in S.
Observe(S) ==
    /\ active' = [a \in Agents |-> IF a \in S THEN vol[a] ELSE active[a]]
    /\ refused' = [a \in Agents |-> IF a \in S /\ active[a] \notin {0, vol[a]}
                                    THEN refused[a] \cup {active[a]} ELSE refused[a]]

\* set_placement_verification for agents S with the incarnations inc.
Mark(r, S, inc, st) ==
    [a \in Agents |-> IF a \in S THEN [st |-> st, inc |-> inc[a]] ELSE r[a]]

-----------------------------------------------------------------------------
(* Uploads *)

\* The agents that answer and are not refused get the object and are confirmed.
UploadPut(o) ==
    /\ o \notin history
    /\ \E failed \in SUBSET Agents :
         LET got == {a \in Agents \ failed : vol[a] \notin refused[a]} IN
         /\ Failing(failed)
         /\ Observe(got)
         /\ good' = [a \in Agents |-> IF a \in got THEN good[a] \cup {o} ELSE good[a]]
         /\ bad' = [a \in Agents |-> IF a \in got THEN bad[a] \ {o} ELSE bad[a]]
         /\ rows' = [rows EXCEPT ![o] = Mark(@, got, vol, "confirmed")]
    /\ UNCHANGED <<vol, retired, history, health, ops, losses, work>>

\* The read-back of the live copies and commit_file.
UploadCommit(o) ==
    /\ o \notin history
    /\ Replicated(LiveOn(o)) /\ Replicated({a \in LiveOn(o) : o \in good[a]})
    /\ history' = history \cup {o}
    /\ UNCHANGED <<active, refused, retired, rows, health, agVars, envVars, work>>

-----------------------------------------------------------------------------
(* What every operation does first: ask each agent who it is. *)

Asked(op, x) == IF op = "retire" THEN Agents \ {x} ELSE Agents
FirstStep(op) == CASE op \in {"scrub", "repair"} -> "list" [] op = "drain" -> "drain"
                   [] op = "retire" -> "check"

\* The objects that drain will consider.
Held(x) == {o \in history : rows[o][x].st \notin {"none", "orphaned"}}

\* A refused incarnation ends the operation, after the agents before it were
\* observed.  retire needs every other agent and an active incarnation of x,
\* and drain reads the rows of x.
Start(w, op, x) ==
    /\ work[w].pc = "idle" /\ op \in Operations
    /\ IF op = "repair" THEN UNCHANGED ops ELSE ops < MaxOps /\ ops' = ops + 1
    /\ \E failed \in SUBSET Asked(op, x) :
         LET reach == Asked(op, x) \ failed
             ok    == {a \in reach : \A b \in reach : b <= a => vol[b] \notin refused[b]}
             goes  == /\ ok = reach
                      /\ op = "retire" => reach = Asked(op, x) /\ active[x] # 0
         IN  /\ Failing(failed)
             /\ Observe(ok)
             /\ Become(w, IF ~goes THEN Idle
                          ELSE [Idle EXCEPT !.pc = FirstStep(op), !.op = op, !.x = x,
                                  !.live = reach, !.inc = [a \in Agents |-> IF a \in ok THEN vol[a] ELSE 0],
                                  !.began = losses,
                                  !.todo = IF op = "drain" THEN Held(x)
                                           ELSE IF op = "retire" THEN history ELSE {}])
    /\ UNCHANGED <<agVars, retired, rows, history, health, losses>>

-----------------------------------------------------------------------------
(* Scrub and repair *)

\* list_namespace of every reachable agent, and required_objects.
ScrubList(w) ==
    LET m == work[w] IN
    /\ m.pc = "list"
    /\ \E failed \in SUBSET m.live :
         /\ Failing(failed)
         /\ Become(w, [m EXCEPT !.pc = "verify", !.scanned = m.live \ failed, !.todo = history,
                         !.done = {},
                         !.listed = [a \in Agents |-> IF a \in m.live \ failed THEN good[a] \cup bad[a]
                                                      ELSE {}]])
    /\ UNCHANGED <<dbVars, agVars, ops, losses>>

\* verify_object: a listed copy is read, and one that cannot be read counts as
\* corrupt; a recorded copy that a complete inventory does not list is missing.
ScrubVerify(w, o) ==
    LET m      == work[w]
        listed == {a \in m.live : o \in m.listed[a]}
        absent == {a \in m.scanned \ listed : rows[o][a].st # "none"}
    IN  /\ m.pc = "verify" /\ o \in m.todo
        /\ \E failed \in SUBSET {a \in listed : o \in good[a]} :
             LET valid == {a \in listed : o \in good[a]} \ failed IN
             /\ Failing(failed)
             /\ rows' = [rows EXCEPT ![o] =
                   Mark(Mark(Mark(@, valid, m.inc, "confirmed"), listed \ valid, m.inc, "corrupt"),
                        absent, m.inc, "missing")]
             /\ Become(w, [m EXCEPT !.pc = "repair", !.todo = @ \ {o}, !.cur = o, !.valid = valid])
        /\ UNCHANGED <<active, refused, retired, history, health, agVars, ops, losses>>

Damaged(r) == {a \in Agents : r[a].st \in {"missing", "corrupt"}}

\* Mutant: copies are counted, not failure domains.
ClassifyByCopies(valid, damaged) ==
    IF valid = {} THEN "lost"
    ELSE IF Cardinality(valid) < 2 THEN "at_risk"
    ELSE IF damaged # {} THEN "degraded" ELSE "durable"
\* classify
Classify(valid, damaged) ==
    IF valid = {} THEN "lost"
    ELSE IF ~Replicated(valid) THEN "at_risk"
    ELSE IF damaged # {} THEN "degraded" ELSE "durable"

\* Mutant: a damaged copy is left alone when the floor is met elsewhere.
FloorOnly(valid, damaged, a) == ~Replicated(valid)
\* An agent gets a copy when the floor is not met, or to restore its own.
RepairTarget(valid, damaged, a) == ~Replicated(valid) \/ a \in damaged

\* repair_object: the agents in order; a copy that was not written or does not
\* read back changes nothing.
Repaired(m, damaged, failed) ==
    LET upTo[n \in 0..NumAgents] ==
          IF n = 0 THEN m.valid
          ELSE IF n \in m.live \ failed /\ RepairTarget(upTo[n - 1], damaged, n)
               THEN upTo[n - 1] \cup {n} ELSE upTo[n - 1]
    IN  upTo[NumAgents]

\* A repair needs a complete observation and a copy to start from.
MayRepair(m, state) ==
    /\ state # "durable" /\ m.op = "repair" /\ m.valid # {}
    /\ m.live = Agents /\ m.scanned = m.live

ScrubRepair(w) ==
    LET m == work[w]
        o == m.cur
        damaged == Damaged(rows[o])
        may == MayRepair(m, Classify(m.valid, damaged))
    IN  /\ m.pc = "repair"
        /\ \E failed \in IF may THEN SUBSET (Agents \ m.valid) ELSE {{}} :
             LET valid == IF may THEN Repaired(m, damaged, failed) ELSE m.valid
                 new   == valid \ m.valid
                 row   == Mark(rows[o], new, m.inc, "confirmed")
             IN  /\ Failing(failed)
                 /\ good' = [a \in Agents |-> IF a \in new THEN good[a] \cup {o} ELSE good[a]]
                 /\ bad' = [a \in Agents |-> IF a \in new THEN bad[a] \ {o} ELSE bad[a]]
                 /\ rows' = [rows EXCEPT ![o] = row]
                 /\ Become(w, [m EXCEPT !.pc = "verify", !.done = @ \cup {o}, !.valid = {},
                                 !.found[o] = Classify(valid, Damaged(row))])
        /\ UNCHANGED <<vol, active, refused, retired, history, health, ops, losses>>

\* replace_object_health, and the job is finished.
ScrubFinish(w) ==
    LET m == work[w] IN
    /\ m.pc = "verify" /\ m.todo = {}
    /\ health' = [o \in Objects |-> IF o \in m.done THEN m.found[o] ELSE "none"]
    /\ Become(w, Idle)
    /\ UNCHANGED <<active, refused, retired, rows, history, agVars, envVars>>

-----------------------------------------------------------------------------
(* Drain *)

Satisfied(m, valid) == Replicated(valid \ {m.x})

\* The copies of o that read back, whatever their rows say.  Without any the
\* object is reported as blocked.
DrainCheck(w, o) ==
    LET m == work[w] IN
    /\ m.pc = "drain" /\ o \in m.todo
    /\ \E failed \in SUBSET {a \in m.live : o \in good[a]} :
         LET valid == {a \in m.live : o \in good[a]} \ failed IN
         /\ Failing(failed)
         /\ Become(w, [m EXCEPT !.todo = @ \ {o}, !.cur = o, !.valid = valid,
                         !.pc = IF Satisfied(m, valid) THEN "orphan"
                                ELSE IF valid = {} THEN "drain" ELSE "place"])
    /\ UNCHANGED <<dbVars, agVars, ops, losses>>

\* place_copy on the other agents in order, until enough of them hold one.
Spread(m, failed) ==
    LET upTo[n \in 0..NumAgents] ==
          IF n = 0 THEN m.valid
          ELSE IF n \in m.live \ (failed \cup {m.x}) /\ ~Satisfied(m, upTo[n - 1])
               THEN upTo[n - 1] \cup {n} ELSE upTo[n - 1]
    IN  upTo[NumAgents]

DrainPlace(w) ==
    LET m == work[w]
        o == m.cur
    IN  /\ m.pc = "place"
        /\ \E failed \in SUBSET (m.live \ (m.valid \cup {m.x})) :
             LET valid == Spread(m, failed)
                 new   == valid \ m.valid
             IN  /\ Failing(failed)
                 /\ good' = [a \in Agents |-> IF a \in new THEN good[a] \cup {o} ELSE good[a]]
                 /\ bad' = [a \in Agents |-> IF a \in new THEN bad[a] \ {o} ELSE bad[a]]
                 /\ rows' = [rows EXCEPT ![o] = Mark(@, new, m.inc, "confirmed")]
                 /\ Become(w, [m EXCEPT !.pc = IF Satisfied(m, valid) THEN "orphan" ELSE "drain"])
        /\ UNCHANGED <<vol, active, refused, retired, history, health, ops, losses>>

\* set_placement_state
DrainOrphan(w) ==
    LET m == work[w] IN
    /\ m.pc = "orphan"
    /\ rows' = [rows EXCEPT ![m.cur][m.x].st = "orphaned"]
    /\ Become(w, [m EXCEPT !.pc = "drain"])
    /\ UNCHANGED <<active, refused, retired, history, health, agVars, envVars>>

DrainFinish(w) ==
    /\ work[w].pc = "drain" /\ work[w].todo = {}
    /\ Become(w, Idle)
    /\ UNCHANGED <<dbVars, agVars, envVars>>

-----------------------------------------------------------------------------
(* Retire *)

RetireCheck(w, o) ==
    LET m == work[w] IN
    /\ m.pc = "check" /\ o \in m.todo
    /\ \E failed \in SUBSET {a \in m.live : o \in good[a]} :
         LET valid == {a \in m.live : o \in good[a]} \ failed IN
         /\ Failing(failed)
         /\ Become(w, [m EXCEPT !.todo = @ \ {o}, !.risk = @ \/ ~Replicated(valid)])
    /\ UNCHANGED <<dbVars, agVars, ops, losses>>

Refused(m) == m.risk

\* retire_incarnation: whatever incarnation of x is active by now.
RetireFinish(w) ==
    LET m == work[w]
        x == m.x
    IN  /\ m.pc = "check" /\ m.todo = {}
        /\ IF Refused(m) \/ active[x] = 0 THEN UNCHANGED <<active, refused, retired, rows>>
           ELSE /\ active' = [active EXCEPT ![x] = 0]
                /\ refused' = [refused EXCEPT ![x] = @ \cup {active[x]}]
                /\ retired' = [retired EXCEPT ![x] = @ \cup {active[x]}]
                /\ rows' = [o \in Objects |-> IF rows[o][x].st = "none" THEN rows[o]
                                              ELSE [rows[o] EXCEPT ![x].st = "orphaned"]]
        /\ Become(w, Idle)
        /\ UNCHANGED <<history, health, agVars, envVars>>

-----------------------------------------------------------------------------
(* The machines *)

\* A retired volume is wiped, and its agent joins again with a blank one.
Wipe(a) ==
    /\ vol[a] \in retired[a] /\ vol[a] < MaxVolumes
    /\ vol' = [vol EXCEPT ![a] = @ + 1]
    /\ good' = [good EXCEPT ![a] = {}] /\ bad' = [bad EXCEPT ![a] = {}]
    /\ UNCHANGED <<dbVars, envVars, work>>

LoseVolume(a) ==
    /\ a \in Fragile /\ losses < MaxLosses /\ vol[a] < MaxVolumes
    /\ losses' = losses + 1
    /\ vol' = [vol EXCEPT ![a] = @ + 1]
    /\ good' = [good EXCEPT ![a] = {}] /\ bad' = [bad EXCEPT ![a] = {}]
    /\ UNCHANGED <<dbVars, ops, hiccups, work>>

Rot(a) ==
    /\ a \in Fragile /\ losses < MaxLosses
    /\ losses' = losses + 1
    /\ \E o \in good[a] : /\ good' = [good EXCEPT ![a] = @ \ {o}]
                          /\ bad' = [bad EXCEPT ![a] = @ \cup {o}]
    /\ UNCHANGED <<dbVars, vol, ops, hiccups, work>>

WorkerStep(w) ==
    \/ ScrubList(w) \/ (\E o \in Objects : ScrubVerify(w, o)) \/ ScrubRepair(w) \/ ScrubFinish(w)
    \/ (\E o \in Objects : DrainCheck(w, o)) \/ DrainPlace(w) \/ DrainOrphan(w) \/ DrainFinish(w)
    \/ (\E o \in Objects : RetireCheck(w, o)) \/ RetireFinish(w)

Activity ==
    \/ \E o \in Objects : UploadPut(o) \/ UploadCommit(o)
    \/ \E w \in Workers : WorkerStep(w)
    \/ \E w \in Workers, op \in Operations \ {"drain", "retire"} : Start(w, op, 1)
    \/ \E w \in Workers, op \in Operations \cap {"drain", "retire"}, x \in Agents : Start(w, op, x)
    \/ \E a \in Agents : Wipe(a) \/ LoseVolume(a) \/ Rot(a)

Next == UNCHANGED setting /\ Activity

Spec == Init /\ [][Next]_vars

\* scrub --repair --interval starts again and again, and what runs goes on, where
\* one operator repairs and drains.
Repeats(w) == Workers = {w} /\ Operations = {"repair", "drain"}

FairSpec ==
    /\ Spec
    /\ \A w \in Processes :
         /\ WF_vars(Repeats(w) /\ UNCHANGED setting /\ WorkerStep(w))
         /\ WF_vars(Repeats(w) /\ UNCHANGED setting /\ Start(w, "repair", 1))

-----------------------------------------------------------------------------
(* Properties *)

\* Intact copies on volumes that are not to be wiped.
Kept(o) == {a \in Agents : o \in good[a] /\ vol[a] \notin retired[a]}

\* Nothing else runs or is uploaded beside a retirement.
RetirementAlone == "retire" \in Operations => Cardinality(Workers) = 1 /\ history = Objects

\* Apart from one lost copy for each fault, every committed object keeps intact
\* copies in two failure domains on volumes that were not retired, whatever is
\* scrubbed, drained, retired and wiped, a retirement being alone
\* (retire, run_drain, repair_object).
RetirementSafe ==
    RetirementAlone => \A o \in history : Cardinality(Domains(Kept(o))) >= 2 - losses

\* An object that a scrub reports as durable is on intact copies in two domains
\* at the moment of the report, unless something was lost while it ran
\* (verify_object, classify, replace_object_health).
HealthHonest ==
    [][\A w \in Workers : (ScrubFinish(w) /\ losses = work[w].began) =>
         \A o \in Objects : health'[o] = "durable" =>
            Cardinality(Domains({a \in Agents : o \in good[a]})) >= 2]_vars

\* When faults stop and nobody retires an agent, repeated repairs bring every object that still has an
\* intact copy back to two domains and to a report that says so.
RepairConverges ==
    (Cardinality(Workers) = 1 /\ Operations = {"repair", "drain"}) =>
      <>[](\A o \in history : (\E a \in Agents : o \in good[a]) =>
            Cardinality(Domains({a \in Agents : o \in good[a]})) >= 2 /\ health[o] = "durable")

\* Retiring loses nothing, and a report is true when it is made (retire, scrub).
PlacementsHonest == [](TypeOK /\ RetirementSafe) /\ HealthHonest
=============================================================================
