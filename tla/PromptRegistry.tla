---------------------------- MODULE PromptRegistry ----------------------------
(* Which prompt version an agent uses and whether it is enabled, while several
   administrators change both.  Every endpoint reads rows without locking them
   and commits later; an ORM row that already has the value it is given is not
   written at all.  One (agent, kind) pair of prompts is modelled, with its
   agent's control row.                                                        *)
EXTENDS Naturals, FiniteSets

CONSTANTS
  Admins,         \* prompt and agent requests in flight
  FileVersions,   \* versions that exist as v<N>.md
  MaxPrompts      \* bound on prompt versions

ASSUME PromptAssumption ==
  /\ MaxPrompts \in Nat \ {0}
  /\ 1 \in FileVersions /\ FileVersions \subseteq 1 .. MaxPrompts

VARIABLES
  prompts,      \* versions in the database, the active ones, and registry.yaml's
  admin,        \* what each administrator's request has read
  enabled,      \* AgentControlState: "none" is a missing row
  served        \* the version the agent's last run was given

promptVars == <<prompts, admin, enabled, served>>

NoAdmin == [phase |-> "idle", target |-> 0, active |-> {}, seen |-> {}]

PromptInit ==
  /\ prompts = [versions |-> {1}, active |-> {1}, file |-> 1]
  /\ admin = [a \in Admins |-> NoAdmin]
  /\ enabled = "none" /\ served = 0

-----------------------------------------------------------------------------
(* Prompt versions. *)

(* Mutant: the partial unique index on the active row is missing. *)
OneActiveIndex_Missing(active) == TRUE

(* uq_prompt_version_one_active *)
OneActiveIndex(active) == Cardinality(active) <= 1

(* activate and rollback read every version of the pair in one query. *)
ReadVersions(a) ==
  /\ admin[a].phase = "idle"
  /\ \E v \in prompts.versions :
       admin' = [admin EXCEPT ![a] = [phase |-> "activate", target |-> v,
                                      active |-> prompts.active, seen |-> prompts.versions]]
  /\ UNCHANGED <<prompts, enabled, served>>

(* The rows read as active and unlike the target are cleared; the target is set
   unless it was read as active.  A violated index or a deadlock rolls back. *)
Flipped(op) == IF op.target \in op.active THEN prompts.active
               ELSE (prompts.active \ op.active) \cup {op.target}

ActivateVersion(a) ==
  /\ admin[a].phase = "activate"
  /\ prompts' = IF OneActiveIndex(Flipped(admin[a]))
                  THEN [prompts EXCEPT !.active = Flipped(admin[a])] ELSE prompts
  /\ admin' = [admin EXCEPT ![a] = NoAdmin]
  /\ UNCHANGED <<enabled, served>>

(* rollback picks the highest version below the active one it read, and calls
   activate, which reads again. *)
RollbackPick(a) ==
  LET cur == CHOOSE v \in prompts.active : TRUE
      earlier == {v \in prompts.versions : prompts.active = {} \/ v < cur}
  IN /\ admin[a].phase = "idle" /\ earlier # {}
     /\ admin' = [admin EXCEPT ![a] = [NoAdmin EXCEPT !.phase = "rollback",
                    !.target = CHOOSE v \in earlier : \A w \in earlier : w <= v]]
     /\ UNCHANGED <<prompts, enabled, served>>

RollbackReads(a) ==
  /\ admin[a].phase = "rollback"
  /\ admin' = [admin EXCEPT ![a].phase = "activate", ![a].active = prompts.active]
  /\ UNCHANGED <<prompts, enabled, served>>

(* create_prompt_version: the next number is computed from what was read; the
   unique triple refuses a taken one. *)
CreateReads(a) ==
  /\ admin[a].phase = "idle" /\ Cardinality(prompts.versions) < MaxPrompts
  /\ admin' = [admin EXCEPT ![a] = [NoAdmin EXCEPT !.phase = "create", !.seen = prompts.versions]]
  /\ UNCHANGED <<prompts, enabled, served>>

CreatePromptVersion(a) ==
  LET next == Cardinality(admin[a].seen) + 1
  IN /\ admin[a].phase = "create"
     /\ prompts' = [prompts EXCEPT !.versions = @ \cup {next}]
     /\ admin' = [admin EXCEPT ![a] = NoAdmin]
     /\ UNCHANGED <<enabled, served>>

(* set_active_version: the file first, then the database if it knows the version
   and answers. *)
SetActiveVersion(a, v) ==
  /\ admin[a].phase = "idle" /\ v \in FileVersions
  /\ prompts' = [prompts EXCEPT !.file = v]
  /\ \/ UNCHANGED admin
     \/ /\ v \in prompts.versions
        /\ admin' = [admin EXCEPT ![a] = [phase |-> "activate", target |-> v,
                                          active |-> prompts.active, seen |-> prompts.versions]]
  /\ UNCHANGED <<enabled, served>>

(* get_active_prompt: the database's active row, the file when there is none. *)
ActivePrompt == IF prompts.active # {} THEN prompts.active ELSE {prompts.file}

-----------------------------------------------------------------------------
(* Agent control, for an agent other than the Audit Agent, which cannot be
   disabled: a missing row counts as enabled. *)

PutControlRow(to) == enabled' = to

SetAgentEnabled(to) ==
  /\ PutControlRow(to)
  /\ UNCHANGED <<prompts, admin, served>>

IsAgentEnabled == enabled # "off"

(* A run of the agent asks whether it is enabled, then for its prompt. *)
AgentRuns ==
  /\ IsAgentEnabled
  /\ served' \in ActivePrompt
  /\ UNCHANGED <<prompts, admin, enabled>>

PromptNext ==
  \/ \E a \in Admins :
       \/ ReadVersions(a) \/ ActivateVersion(a) \/ RollbackPick(a) \/ RollbackReads(a)
       \/ CreateReads(a) \/ CreatePromptVersion(a)
       \/ \E v \in FileVersions : SetActiveVersion(a, v)
  \/ \E to \in {"on", "off"} : SetAgentEnabled(to)
  \/ AgentRuns

PromptSpec == PromptInit /\ [][PromptNext]_promptVars

-----------------------------------------------------------------------------
(* Whatever activations, rollbacks and file swaps overlap, committed or rolled
   back, an agent has exactly one active prompt version. *)
ExactlyOneActivePrompt == Cardinality(prompts.active) = 1
=============================================================================
