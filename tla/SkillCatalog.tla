---------------------------- MODULE SkillCatalog ----------------------------
(* The skill registry: enabled skills in the memory of each process, skill rows and
   agent grants in the database they share, and the administrators' requests that
   change first the one and then the other. *)
EXTENDS Naturals

CONSTANTS
  SkillProcs,    \* processes with a registry: app and app-tls
  Skills,        \* ALL_SKILLS, the catalogue in code
  SkillAgents,   \* agents that execute skills under their name
  SkillAdmins    \* concurrent requests of administrators

VARIABLES
  registry,   \* SkillRegistry._skills and _enabled of each process
  skillRow,   \* is_enabled of each skills row, "none" without a row
  grants,     \* agent_skill_map
  skillReq,      \* requests under way
  managerOn,  \* skill_registry_manager_agent is enabled
  excused     \* history: processes and skills whose memory and row may have come apart

skillVars == <<registry, skillRow, grants, skillReq, managerOn, excused>>

NoRequest == [proc |-> "none", skill |-> "none", want |-> "none", step |-> "idle"]
Unborn == [s \in Skills |-> "unborn"]
Booted(p) == \E s \in Skills : registry[p][s] # "unborn"

SkillInit ==
  /\ registry = [p \in SkillProcs |-> Unborn] /\ skillRow = [s \in Skills |-> "none"]
  /\ grants = {} /\ skillReq = [a \in SkillAdmins |-> NoRequest] /\ managerOn = TRUE /\ excused = {}

(* Mutant: the rows are created but not read back. *)
SyncedState_CodeDefault(row) == [s \in Skills |-> "on"]

(* The row decides once there is one. *)
SyncedState(row) == row

(* get_skill_registry, on first use in a process: register everything, add missing rows,
   apply the rows.  Without the database every skill is on. *)
BootRegistry(p) ==
  /\ ~Booted(p)
  /\ \/ /\ skillRow' = [s \in Skills |-> IF skillRow[s] = "none" THEN "on" ELSE skillRow[s]]
        /\ registry' = [registry EXCEPT ![p] = SyncedState(skillRow')]
        /\ excused' = excused \ ({p} \X Skills)
     \/ /\ registry' = [registry EXCEPT ![p] = [s \in Skills |-> "on"]]
        /\ excused' = excused \cup ({p} \X Skills) /\ UNCHANGED skillRow
  /\ UNCHANGED <<grants, skillReq, managerOn>>

(* Another request of the same process is between memory and row. *)
Overlapping(a, p, s) ==
  IF \E b \in SkillAdmins \ {a} : skillReq[b].proc = p /\ skillReq[b].skill = s THEN {<<p, s>>} ELSE {}

(* A write of the row reaches no other process's memory. *)
Elsewhere(p, s) == (SkillProcs \ {p}) \X {s}

(* enable and disable change the memory of the process that serves the request, then the row. *)
Toggle(a, p, s, want) ==
  /\ skillReq[a] = NoRequest /\ managerOn /\ registry[p][s] \in {"on", "off"}
  /\ registry' = [registry EXCEPT ![p][s] = want]
  /\ skillReq' = [skillReq EXCEPT ![a] = [proc |-> p, skill |-> s, want |-> want, step |-> "persist"]]
  /\ excused' = excused \cup Overlapping(a, p, s)
  /\ UNCHANGED <<skillRow, grants, managerOn>>

(* A missing row or a failing database is raised; the memory stays changed. *)
PersistSkillEnabledState(a) ==
  LET s == skillReq[a].skill
      p == skillReq[a].proc
  IN /\ skillReq[a].step = "persist"
     /\ \/ /\ skillRow[s] # "none" /\ skillRow' = [skillRow EXCEPT ![s] = skillReq[a].want]
           /\ excused' = excused \cup Elsewhere(p, s)
        \/ excused' = excused \cup {<<p, s>>} /\ UNCHANGED skillRow
     /\ skillReq' = [skillReq EXCEPT ![a] = NoRequest]
     /\ UNCHANGED <<registry, grants, managerOn>>

(* Grants are purged and the row is switched off, then this process's memory forgets the
   skill. *)
DeleteSkill(a, p, s) ==
  /\ skillReq[a] = NoRequest /\ managerOn /\ skillRow[s] # "none"
  /\ grants' = {g \in grants : g[2] # s}
  /\ skillRow' = [skillRow EXCEPT ![s] = "off"]
  /\ skillReq' = [skillReq EXCEPT ![a] = [proc |-> p, skill |-> s, want |-> "off", step |-> "unregister"]]
  /\ excused' = excused \cup Overlapping(a, p, s) \cup Elsewhere(p, s)
  /\ UNCHANGED <<registry, managerOn>>

Unregister(a) ==
  /\ skillReq[a].step = "unregister" /\ Booted(skillReq[a].proc)
  /\ registry' = [registry EXCEPT ![skillReq[a].proc][skillReq[a].skill] = "absent"]
  /\ skillReq' = [skillReq EXCEPT ![a] = NoRequest]
  /\ UNCHANGED <<skillRow, grants, managerOn, excused>>

GrantSkillToAgent(ag, s) ==
  /\ managerOn /\ skillRow[s] # "none" /\ <<ag, s>> \notin grants
  /\ grants' = grants \cup {<<ag, s>>}
  /\ UNCHANGED <<registry, skillRow, skillReq, managerOn, excused>>

RevokeSkillFromAgent(g) ==
  /\ managerOn /\ grants' = grants \ {g}
  /\ UNCHANGED <<registry, skillRow, skillReq, managerOn, excused>>

SetManagerAgent ==
  /\ managerOn' = ~managerOn
  /\ UNCHANGED <<registry, skillRow, grants, skillReq, excused>>

(* A process dies with its memory and its requests. *)
RegistryDies(p) ==
  /\ Booted(p) /\ registry' = [registry EXCEPT ![p] = Unborn]
  /\ skillReq' = [a \in SkillAdmins |-> IF skillReq[a].proc = p THEN NoRequest ELSE skillReq[a]]
  /\ UNCHANGED <<skillRow, grants, managerOn, excused>>

(* SkillRegistry.execute goes ahead in process p: a caller that gives no agent's name needs
   no grant. *)
NoAgentName == "no agent name"
MayExecute(p, ag, s) ==
  registry[p][s] = "on" /\ (ag = NoAgentName \/ skillRow[s] = "none" \/ <<ag, s>> \in grants)

SkillNext ==
  \/ SetManagerAgent \/ \E p \in SkillProcs : BootRegistry(p) \/ RegistryDies(p)
  \/ \E a \in SkillAdmins :
       \/ PersistSkillEnabledState(a) \/ Unregister(a)
       \/ \E p \in SkillProcs, s \in Skills : DeleteSkill(a, p, s) \/ \E want \in {"on", "off"} : Toggle(a, p, s, want)
  \/ \E ag \in SkillAgents, s \in Skills : GrantSkillToAgent(ag, s)
  \/ \E g \in grants : RevokeSkillFromAgent(g)

SkillSpec == SkillInit /\ [][SkillNext]_skillVars

(* In no process can anyone, agent or unnamed caller, execute a skill whose row is off,
   across restarts, deletions and concurrent administrators.  Excepted are a process and
   skill of which a request is between memory and row, or since the process started two
   requests of it overlapped, a write failed, another process wrote the row, or the
   registry came up without the database. *)
DisabledSkillsDoNotRun ==
  \A p \in SkillProcs, ag \in SkillAgents \cup {NoAgentName}, s \in Skills :
    MayExecute(p, ag, s) /\ skillRow[s] = "off" =>
      <<p, s>> \in excused \/ \E a \in SkillAdmins : skillReq[a].proc = p /\ skillReq[a].skill = s
=============================================================================
