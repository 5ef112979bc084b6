--------------------------- MODULE PromptVersions ---------------------------
(***************************************************************************)
(* The versions of one agent prompt (create_agent_prompt).                 *)
(*                                                                         *)
(* An administrator's request reads the latest version, reads the versions *)
(* it deactivates, and stores the next one; nothing is locked.  What keeps *)
(* overlapping requests apart is the unique constraint of name and         *)
(* version: whoever commits first takes the number of everybody who read   *)
(* before.  Prompts of different names do not touch each other.            *)
(***************************************************************************)
EXTENDS Naturals, FiniteSets

CONSTANT Edits  \* requests that store a version

ASSUME EditsAssumption == IsFiniteSet(Edits)

VARIABLES
    versions,   \* the version numbers stored
    active,     \* those with is_active
    activated,  \* history: those that were stored with is_active
    edit,       \* where each request is
    activate,   \* whether it activates its version
    number,     \* the number it computed
    doomed      \* the active versions it read, which it deactivates

promptVars == <<versions, active, activated, edit, activate, number, doomed>>

EditPCs == {"idle", "others", "write", "stored", "failed"}

Newest(S) == CHOOSE v \in S : \A w \in S : w <= v

\* A prompt nobody wrote yet, or the one that the seed stored.
PromptInit ==
    /\ \E first \in {{}, {1}} : versions = first /\ active = first /\ activated = first
    /\ edit = [r \in Edits |-> "idle"]
    /\ activate = [r \in Edits |-> FALSE]
    /\ number = [r \in Edits |-> 1]
    /\ doomed = [r \in Edits |-> {}]

\* The latest version plus one.
NextNumber(r) == IF versions = {} THEN 1 ELSE Newest(versions) + 1

ReadLatest(r) ==
    /\ edit[r] = "idle"
    /\ number' = [number EXCEPT ![r] = NextNumber(r)]
    /\ \E wish \in BOOLEAN :
         /\ activate' = [activate EXCEPT ![r] = wish]
         /\ edit' = [edit EXCEPT ![r] = IF wish THEN "others" ELSE "write"]
    /\ UNCHANGED <<versions, active, activated, doomed>>

\* Variant: only the version before is deactivated.
OthersLatest(r) == active \cap {number[r] - 1}

\* All active versions of the name.
Others(r) == active

\* A request that activates its version reads those it has to deactivate.
ReadOthers(r) ==
    /\ edit[r] = "others"
    /\ doomed' = [doomed EXCEPT ![r] = Others(r)]
    /\ edit' = [edit EXCEPT ![r] = "write"]
    /\ UNCHANGED <<versions, active, activated, activate, number>>

Own(r) == IF activate[r] THEN {number[r]} ELSE {}

\* The deactivated rows and the new one, or the number is taken.
StoreVersion(r) ==
    /\ edit[r] = "write"
    /\ \/ /\ number[r] \notin versions
          /\ versions' = versions \cup {number[r]}
          /\ active' = (active \ doomed[r]) \cup Own(r)
          /\ activated' = activated \cup Own(r)
          /\ edit' = [edit EXCEPT ![r] = "stored"]
       \/ /\ number[r] \in versions
          /\ edit' = [edit EXCEPT ![r] = "failed"]
          /\ UNCHANGED <<versions, active, activated>>
    /\ UNCHANGED <<activate, number, doomed>>

PromptNext == \E r \in Edits : ReadLatest(r) \/ ReadOthers(r) \/ StoreVersion(r)

PromptSpec == PromptInit /\ [][PromptNext]_promptVars

-----------------------------------------------------------------------------
(* Properties *)

\* The type of every variable.
PromptTypeOK ==
    /\ versions \subseteq Nat \ {0}
    /\ active \subseteq versions
    /\ activated \subseteq versions
    /\ edit \in [Edits -> EditPCs]
    /\ activate \in [Edits -> BOOLEAN]
    /\ number \in [Edits -> Nat \ {0}]
    /\ doomed \in [Edits -> SUBSET (Nat \ {0})]

\* However requests overlap, the versions are numbered without a gap, and the one
\* that is active is the newest that was ever stored as active
\* (create_agent_prompt).
PromptsInOrder ==
    /\ \A v \in versions : \A w \in 1 .. v : w \in versions
    /\ active = IF activated = {} THEN {} ELSE {Newest(activated)}
=============================================================================
