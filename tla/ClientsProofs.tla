---------------------------- MODULE ClientsProofs ----------------------------
(***************************************************************************)
(* Theorems about what people do at their clients, for any number of       *)
(* requests, versions, members, texts and clicks: the versions of a        *)
(* prompt, the model in service, the tab of the web client.                *)
(***************************************************************************)
EXTENDS PromptVersions, ModelRegistry, WebClient, FiniteSetTheorems, SequenceTheorems, TLAPS

-----------------------------------------------------------------------------
(* Prompts.  The unique constraint of name and version orders the edits: a  *)
(* request whose number is still free read the versions that are stored     *)
(* now, so that it deactivates all that is active; any other fails at its   *)
(* commit.                                                                  *)


Editing(r) == edit[r] \in {"others", "write"}

\* The numbers are 1 .. n, and requests hold one of them or the next.
Numbered ==
    \E n \in Nat :
        /\ versions = 1 .. n
        /\ \A r \in Edits : Editing(r) => number[r] \in 1 .. (n + 1)

\* A request only deactivates if it activates its own version.
DoomsOwnly ==
    \A r \in Edits :
        /\ edit[r] = "others" => activate[r] /\ doomed[r] = {}
        /\ edit[r] = "idle" => doomed[r] = {}
        /\ ~activate[r] => doomed[r] = {}

\* A request whose number is free has read every active version.
ReadIsCurrent ==
    \A r \in Edits :
        edit[r] = "write" /\ activate[r] /\ number[r] \notin versions => active \subseteq doomed[r]

ActiveIsNewest == active = IF activated = {} THEN {} ELSE {Newest(activated)}

PromptInv == PromptTypeOK /\ Numbered /\ DoomsOwnly /\ ReadIsCurrent /\ ActiveIsNewest

-----------------------------------------------------------------------------
\* The newest of some numbers is the one that none exceeds.
LEMMA NewestIs ==
    ASSUME NEW S \in SUBSET Nat, NEW k \in S, \A w \in S : w <= k
    PROVE  Newest(S) = k
<1>1. Newest(S) \in S /\ \A w \in S : w <= Newest(S)
  BY DEF Newest
<1>2. Newest(S) <= k /\ k <= Newest(S) /\ Newest(S) \in Nat
  BY <1>1
<1>. QED  BY <1>2

LEMMA PromptInitInv == PromptInit => PromptInv
<1> SUFFICES ASSUME PromptInit PROVE PromptInv
  OBVIOUS
<1>1. PICK first \in {{}, {1}} : versions = first /\ active = first /\ activated = first
  BY DEF PromptInit
<1>2. PromptTypeOK
  BY <1>1 DEF PromptInit, PromptTypeOK, EditPCs
<1>3. Numbered
  <2>1. CASE first = {}
    <3>1. versions = 1 .. 0
      BY <1>1, <2>1
    <3>. QED  BY <3>1 DEF PromptInit, Numbered, Editing
  <2>2. CASE first = {1}
    <3>1. versions = 1 .. 1
      BY <1>1, <2>2
    <3>. QED  BY <3>1 DEF PromptInit, Numbered, Editing
  <2>. QED  BY <2>1, <2>2
<1>4. DoomsOwnly /\ ReadIsCurrent
  BY DEF PromptInit, DoomsOwnly, ReadIsCurrent
<1>5. ActiveIsNewest
  <2>1. Newest({1}) = 1
    BY NewestIs
  <2>. QED  BY <1>1, <2>1 DEF ActiveIsNewest
<1>. QED  BY <1>2, <1>3, <1>4, <1>5 DEF PromptInv

\* The next number follows the last one.
LEMMA NextFollows ==
    ASSUME NEW n \in Nat, versions = 1 .. n, NEW r \in Edits
    PROVE  NextNumber(r) = n + 1
<1>1. CASE n = 0
  BY <1>1 DEF NextNumber
<1>2. CASE n # 0
  <2>1. n \in 1 .. n /\ \A w \in 1 .. n : w <= n
    BY <1>2
  <2>2. Newest(1 .. n) = n
    BY <2>1, NewestIs
  <2>. QED  BY <2>1, <2>2 DEF NextNumber
<1>. QED  BY <1>1, <1>2

LEMMA ReadLatestInv ==
    ASSUME PromptInv, NEW r \in Edits, ReadLatest(r)
    PROVE  PromptInv'
<1>1. PICK n \in Nat : versions = 1 .. n /\ \A q \in Edits : Editing(q) => number[q] \in 1 .. (n + 1)
  BY DEF PromptInv, Numbered
<1>2. NextNumber(r) = n + 1
  BY <1>1, NextFollows
<1>3. PICK wish \in BOOLEAN :
        /\ activate' = [activate EXCEPT ![r] = wish]
        /\ edit' = [edit EXCEPT ![r] = IF wish THEN "others" ELSE "write"]
  BY DEF ReadLatest
<1>4. PromptTypeOK'
  BY <1>2, <1>3 DEF ReadLatest, PromptInv, PromptTypeOK, EditPCs
<1>5. Numbered'
  BY <1>1, <1>2, <1>3 DEF ReadLatest, PromptInv, PromptTypeOK, Numbered, Editing
<1>6. DoomsOwnly'
  BY <1>3 DEF ReadLatest, PromptInv, PromptTypeOK, DoomsOwnly
<1>7. ReadIsCurrent'
  BY <1>3 DEF ReadLatest, PromptInv, PromptTypeOK, ReadIsCurrent
<1>8. ActiveIsNewest'
  BY DEF ReadLatest, PromptInv, ActiveIsNewest
<1>. QED  BY <1>4, <1>5, <1>6, <1>7, <1>8 DEF PromptInv

LEMMA ReadOthersInv ==
    ASSUME PromptInv, NEW r \in Edits, ReadOthers(r)
    PROVE  PromptInv'
<1>1. PromptTypeOK'
  BY DEF ReadOthers, Others, PromptInv, PromptTypeOK, EditPCs
<1>2. Numbered'
  BY DEF ReadOthers, PromptInv, PromptTypeOK, Numbered, Editing
<1>3. DoomsOwnly'
  BY DEF ReadOthers, PromptInv, PromptTypeOK, DoomsOwnly
<1>4. ReadIsCurrent'
  BY DEF ReadOthers, Others, PromptInv, PromptTypeOK, ReadIsCurrent
<1>5. ActiveIsNewest'
  BY DEF ReadOthers, PromptInv, ActiveIsNewest
<1>. QED  BY <1>1, <1>2, <1>3, <1>4, <1>5 DEF PromptInv

\* A commit with a free number takes it from all who hold it.
LEMMA StoreVersionInv ==
    ASSUME PromptInv, NEW r \in Edits, StoreVersion(r)
    PROVE  PromptInv'
<1>1. PICK n \in Nat : versions = 1 .. n /\ \A q \in Edits : Editing(q) => number[q] \in 1 .. (n + 1)
  BY DEF PromptInv, Numbered
<1>2. CASE number[r] \in versions
  BY <1>2 DEF StoreVersion, PromptInv, PromptTypeOK, EditPCs, Numbered, Editing, DoomsOwnly,
           ReadIsCurrent, ActiveIsNewest
<1>3. CASE number[r] \notin versions
  <2>1. /\ versions' = versions \cup {number[r]}
        /\ active' = (active \ doomed[r]) \cup Own(r)
        /\ activated' = activated \cup Own(r)
        /\ edit' = [edit EXCEPT ![r] = "stored"]
        /\ UNCHANGED <<activate, number, doomed>>
    BY <1>3 DEF StoreVersion
  <2>2. number[r] = n + 1 /\ edit[r] = "write"
    BY <1>1, <1>3 DEF StoreVersion, Editing
  <2>3. versions' = 1 .. (n + 1)
    BY <1>1, <2>1, <2>2
  <2>4. Numbered'
    <3>1. \A q \in Edits : Editing(q)' => number'[q] \in 1 .. (n + 2)
      BY <1>1, <2>1 DEF Editing, PromptInv, PromptTypeOK
    <3>. QED  BY <2>3, <3>1 DEF Numbered
  <2>5. PromptTypeOK'
    BY <2>1 DEF Own, PromptInv, PromptTypeOK, EditPCs
  <2>6. DoomsOwnly'
    BY <2>1 DEF PromptInv, PromptTypeOK, DoomsOwnly
  <2>7. ReadIsCurrent'
    <3>1. ASSUME NEW q \in Edits, edit'[q] = "write", number'[q] \notin versions'
          PROVE  FALSE
      <4>1. Editing(q) /\ number[q] \notin versions'
        BY <2>1, <3>1 DEF Editing, PromptInv, PromptTypeOK
      <4>. QED  BY <1>1, <2>3, <4>1
    <3>. QED  BY <3>1 DEF ReadIsCurrent
  <2>8. ActiveIsNewest'
    <3>1. CASE activate[r]
      <4>1. active' = {n + 1} /\ activated' = activated \cup {n + 1}
        BY <1>3, <2>1, <2>2, <3>1 DEF Own, PromptInv, ReadIsCurrent
      <4>2. activated' \in SUBSET Nat /\ \A w \in activated' : w <= n + 1
        BY <1>1, <4>1 DEF PromptInv, PromptTypeOK
      <4>3. Newest(activated') = n + 1
        BY <4>1, <4>2, NewestIs
      <4>. QED  BY <4>1, <4>3 DEF ActiveIsNewest
    <3>2. CASE ~activate[r]
      <4>1. active' = active /\ activated' = activated
        BY <2>1, <3>2 DEF Own, PromptInv, DoomsOwnly
      <4>. QED  BY <4>1 DEF PromptInv, ActiveIsNewest
    <3>. QED  BY <3>1, <3>2
  <2>. QED  BY <2>4, <2>5, <2>6, <2>7, <2>8 DEF PromptInv
<1>. QED  BY <1>2, <1>3

LEMMA PromptNextInv == PromptInv /\ [PromptNext]_promptVars => PromptInv'
<1> SUFFICES ASSUME PromptInv, [PromptNext]_promptVars PROVE PromptInv'
  OBVIOUS
<1>1. CASE UNCHANGED promptVars
  BY <1>1 DEF promptVars, PromptInv, PromptTypeOK, Numbered, Editing, DoomsOwnly, ReadIsCurrent,
           ActiveIsNewest
<1>2. CASE PromptNext
  BY <1>2, ReadLatestInv, ReadOthersInv, StoreVersionInv DEF PromptNext
<1>. QED  BY <1>1, <1>2

\* The types of the variables, for any requests (create_agent_prompt).
THEOREM PromptTypeCorrect == PromptSpec => []PromptTypeOK
<1>1. PromptSpec => []PromptInv
  BY PromptInitInv, PromptNextInv, PTL DEF PromptSpec
<1>. QED  BY <1>1, PTL DEF PromptInv

\* However many edits overlap, versions are numbered without a gap and the newest
\* that was stored as active is the one that is (create_agent_prompt).
THEOREM PromptsAlwaysInOrder == PromptSpec => []PromptsInOrder
<1>1. PromptSpec => []PromptInv
  BY PromptInitInv, PromptNextInv, PTL DEF PromptSpec
<1>2. PromptInv => PromptsInOrder
  <2> SUFFICES ASSUME PromptInv PROVE PromptsInOrder
    OBVIOUS
  <2>1. PICK n \in Nat : versions = 1 .. n
    BY DEF PromptInv, Numbered
  <2>. QED  BY <2>1 DEF PromptInv, ActiveIsNewest, PromptsInOrder
<1>. QED  BY <1>1, <1>2, PTL

-----------------------------------------------------------------------------
(* The model in service.  Time stamps are taken once and never again; alone, *)
(* a request holds the latest, and what it read is still so when it writes.  *)

Jobs == [version : Versions \cup {NoVersion}, to : States \cup {"absent"},
         was : States \cup {"absent", "deprecated"}]

RegistryTypeOK ==
    /\ state \in [Versions -> States \cup {"absent", "deprecated"}]
    /\ promoted \in [Versions -> Nat] /\ clock \in Nat
    /\ pc \in [Calls -> {"idle", "store", "others", "write", "done"}]
    /\ job \in [Calls -> Jobs]
    /\ others \in [Calls -> SUBSET Versions]
    /\ stamp \in [Calls -> Nat]
    /\ line \in Seq(Versions)

JobOK(r) ==
    /\ pc[r] = "idle" => stamp[r] = 0
    /\ pc[r] \in {"idle", "store", "others", "done"} => others[r] = {}
    /\ pc[r] = "write" /\ job[r].to # "active" => others[r] = {}
    /\ r \in Busy => job[r].to \in States /\ job[r].version \in Versions
    /\ pc[r] \in {"idle", "store"} => state[r] = "absent"
    /\ pc[r] = "store" => job[r].version = r
    /\ pc[r] \in {"others", "write"} => state[job[r].version] # "absent"
    /\ \A v \in others[r] : state[v] # "absent"
    /\ pc[r] = "others" => job[r].to = "active"
    /\ pc[r] \in {"store", "write"} /\ job[r].to = "active" => stamp[r] # 0

StampsOK ==
    /\ \A v \in Versions : promoted[v] <= clock
    /\ \A r \in Calls : stamp[r] <= clock
    /\ \A v, w \in Versions : promoted[v] # 0 /\ promoted[v] = promoted[w] => v = w
    /\ \A q, r \in Calls : stamp[r] # 0 /\ stamp[r] = stamp[q] => q = r
    /\ \A r \in Calls, v \in Versions : stamp[r] # 0 => stamp[r] # promoted[v]
    /\ \A v \in ActiveVersions : promoted[v] # 0

AloneOK(r) ==
    /\ stamp[r] # 0 => \A v \in Versions : promoted[v] < stamp[r]
    /\ pc[r] \in {"others", "write"} => job[r].was = state[job[r].version]
    /\ pc[r] = "write" /\ job[r].to = "active" => others[r] = ActiveVersions \ {job[r].version}

LineOK ==
    /\ ActiveVersions = {line[i] : i \in DOMAIN line}
    /\ \A i, j \in DOMAIN line : i < j => promoted[line[i]] < promoted[line[j]]

SerialOK == serial => LineOK /\ (\A q, r \in Busy : q = r) /\ \A r \in Busy : AloneOK(r)

RegistryInv == RegistryTypeOK /\ (\A r \in Calls : JobOK(r)) /\ StampsOK /\ SerialOK

LEMMA RegistryInitInv == RegistryInit => RegistryInv
<1> SUFFICES ASSUME RegistryInit PROVE RegistryInv
  OBVIOUS
<1>1. PICK first \in {"absent", DefaultState} :
         /\ state = [v \in Versions |-> IF v = Seed THEN first ELSE "absent"]
         /\ promoted = [v \in Versions |-> IF v = Seed /\ first = "active" THEN 1 ELSE 0]
         /\ line = IF first = "active" THEN <<Seed>> ELSE <<>>
  BY DEF RegistryInit
<1>2. /\ clock = 1 /\ pc = [r \in Calls |-> "idle"] /\ job = [r \in Calls |-> NoJob]
      /\ others = [r \in Calls |-> {}] /\ stamp = [r \in Calls |-> 0]
  BY DEF RegistryInit
<1>3. Seed \in Versions /\ Busy = {} /\ NoJob \in Jobs
  BY <1>2 DEF Versions, Busy, NoJob, Jobs
<1>4. RegistryTypeOK
  <2>1. line \in Seq(Versions)
    BY <1>1, <1>3
  <2>. QED  BY <1>1, <1>2, <1>3, <2>1, RegistryAssumption DEF RegistryTypeOK
<1>5. \A r \in Calls : JobOK(r)
  BY <1>1, <1>2, <1>3, RegistryAssumption DEF JobOK, Versions
<1>6. StampsOK
  BY <1>1, <1>2, RegistryAssumption DEF StampsOK, ActiveVersions
<1>7. LineOK
  <2>1. CASE first = "active"
    <3>1. line = <<Seed>> /\ ActiveVersions = {Seed}
      BY <1>1, <1>3, <2>1 DEF ActiveVersions
    <3>. QED  BY <3>1 DEF LineOK
  <2>2. CASE first # "active"
    <3>1. line = <<>> /\ ActiveVersions = {}
      BY <1>1, <2>2 DEF ActiveVersions
    <3>. QED  BY <3>1 DEF LineOK
  <2>. QED  BY <2>1, <2>2
<1>. QED  BY <1>3, <1>4, <1>5, <1>6, <1>7 DEF RegistryInv, SerialOK

\* Taking a stamp, or not, when a request begins or has read the active versions.
LEMMA StampsKeep ==
    ASSUME RegistryInv, NEW r \in Calls, UNCHANGED registry,
           TakeStamp(r) \/ UNCHANGED <<stamp, clock>>
    PROVE  /\ StampsOK' /\ clock' \in Nat /\ stamp' \in [Calls -> Nat]
           /\ \A q \in Calls : q # r => stamp'[q] = stamp[q]
           /\ TakeStamp(r) => stamp'[r] # 0 /\ \A v \in Versions : promoted[v] < stamp'[r]
<1>1. /\ stamp \in [Calls -> Nat] /\ clock \in Nat /\ promoted \in [Versions -> Nat]
      /\ StampsOK /\ UNCHANGED <<state, promoted>> /\ ActiveVersions' = ActiveVersions
      /\ ActiveVersions \subseteq Versions
  BY DEF RegistryInv, RegistryTypeOK, registry, ActiveVersions
<1>2. CASE TakeStamp(r)
  <2>1. /\ clock' = clock + 1 /\ stamp' \in [Calls -> Nat] /\ stamp'[r] = clock + 1
        /\ \A q \in Calls : q # r => stamp'[q] = stamp[q]
    BY <1>1, <1>2 DEF TakeStamp
  <2>2. \A q \in Calls : stamp[q] < clock + 1 /\ stamp[q] \in Nat
    BY <1>1 DEF StampsOK
  <2>3. \A v \in Versions : promoted[v] < clock + 1 /\ promoted[v] \in Nat
    BY <1>1 DEF StampsOK
  <2>4. \A q \in Calls : stamp'[q] <= clock'
    BY <1>1, <2>1, <2>2
  <2>5. \A v \in Versions : promoted'[v] <= clock'
    BY <1>1, <2>1, <2>3
  <2>6. \A q, s \in Calls : stamp'[s] # 0 /\ stamp'[s] = stamp'[q] => q = s
    BY <1>1, <2>1, <2>2 DEF StampsOK
  <2>7. \A q \in Calls, v \in Versions : stamp'[q] # 0 => stamp'[q] # promoted'[v]
    BY <1>1, <2>1, <2>3 DEF StampsOK
  <2>8. StampsOK'
    BY <1>1, <2>4, <2>5, <2>6, <2>7 DEF StampsOK
  <2>. QED  BY <1>1, <2>1, <2>3, <2>8
<1>3. CASE UNCHANGED <<stamp, clock>> /\ ~TakeStamp(r)
  BY <1>1, <1>3 DEF StampsOK
<1>. QED  BY <1>2, <1>3

LEMMA StartInv ==
    ASSUME RegistryInv, NEW r \in Calls, NEW where \in {"store", "others", "write"},
           NEW about \in Jobs, Start(r, where, about),
           TakeStamp(r) \/ UNCHANGED <<stamp, clock>>,
           about.to \in States, about.version \in Versions,
           where = "store" => about.version = r /\ (about.to = "active" => TakeStamp(r)),
           where = "others" => about.to = "active",
           where = "write" => about.to # "active",
           where # "store" => about.was = state[about.version] /\ about.was # "absent"
    PROVE  RegistryInv'
<1>1. /\ pc[r] = "idle" /\ pc' = [pc EXCEPT ![r] = where] /\ job' = [job EXCEPT ![r] = about]
      /\ serial' = (serial /\ Busy = {}) /\ UNCHANGED <<registry, state, promoted, others, line>>
      /\ ActiveVersions' = ActiveVersions
  BY DEF Start, registry, ActiveVersions
<1>2. /\ StampsOK' /\ clock' \in Nat /\ stamp' \in [Calls -> Nat]
      /\ \A q \in Calls : q # r => stamp'[q] = stamp[q]
      /\ TakeStamp(r) => stamp'[r] # 0 /\ \A v \in Versions : promoted[v] < stamp'[r]
  BY <1>1, StampsKeep
<1>3. RegistryTypeOK'
  BY <1>1, <1>2 DEF RegistryInv, RegistryTypeOK
<1>4. /\ pc'[r] = where /\ job'[r] = about /\ Busy' = Busy \cup {r}
      /\ \A q \in Calls : q # r => pc'[q] = pc[q] /\ job'[q] = job[q]
  BY <1>1 DEF RegistryInv, RegistryTypeOK, Busy
<1>5. ASSUME NEW q \in Calls PROVE JobOK(q)'
  <2>1. CASE q = r
    <3>1. others'[r] = {} /\ state'[r] = "absent"
      BY <1>1 DEF RegistryInv, JobOK
    <3>. QED  BY <1>1, <1>2, <1>4, <2>1, <3>1 DEF JobOK
  <2>2. CASE q # r
    <3>1. /\ JobOK(q) /\ pc'[q] = pc[q] /\ job'[q] = job[q] /\ stamp'[q] = stamp[q]
          /\ others'[q] = others[q] /\ state' = state /\ (q \in Busy' <=> q \in Busy)
      BY <1>1, <1>2, <1>4, <2>2 DEF RegistryInv
    <3>. QED  BY <3>1 DEF JobOK
  <2>. QED  BY <2>1, <2>2
<1>6. SerialOK'
  <2> SUFFICES ASSUME serial' PROVE LineOK' /\ (\A p, q \in Busy' : p = q) /\ \A q \in Busy' : AloneOK(q)'
    BY DEF SerialOK
  <2>1. serial /\ Busy' = {r} /\ LineOK
    BY <1>1, <1>4 DEF RegistryInv, SerialOK
  <2>2. LineOK'
    BY <1>1, <2>1 DEF LineOK
  <2>3. stamp'[r] # 0 => \A v \in Versions : promoted'[v] < stamp'[r]
    <3>1. CASE TakeStamp(r)
      BY <1>1, <1>2, <3>1
    <3>2. CASE UNCHANGED <<stamp, clock>>
      BY <1>1, <3>2 DEF RegistryInv, JobOK
    <3>. QED  BY <3>1, <3>2
  <2>4. AloneOK(r)'
    BY <1>1, <1>4, <2>3 DEF AloneOK
  <2>. QED  BY <2>1, <2>2, <2>4
<1>. QED  BY <1>2, <1>3, <1>5, <1>6 DEF RegistryInv

LEMMA StartAnyInv ==
    ASSUME RegistryInv, NEW r \in Calls, StartTraining(r) \/ StartListing(r) \/ StartPromotion(r)
    PROVE  RegistryInv'
<1>1. r \in Versions
  BY DEF Versions
<1>2. ASSUME StartTraining(r) PROVE RegistryInv'
  <2>1. PICK to \in States :
           /\ Start(r, "store", [version |-> r, to |-> to, was |-> "absent"])
           /\ Stamped(r, to)
    BY <1>2 DEF StartTraining
  <2>2. [version |-> r, to |-> to, was |-> "absent"] \in Jobs
    BY <1>1 DEF Jobs
  <2>4. (TakeStamp(r) \/ UNCHANGED <<stamp, clock>>) /\ (to = "active" => TakeStamp(r))
    BY <2>1 DEF Stamped
  <2>. QED  BY <1>1, <2>1, <2>2, <2>4, StartInv
<1>3. ASSUME StartListing(r) PROVE RegistryInv'
  <2>1. /\ Start(r, "store", [version |-> r, to |-> DefaultState, was |-> "absent"])
        /\ Stamped(r, DefaultState)
    BY <1>3 DEF StartListing
  <2>2. [version |-> r, to |-> DefaultState, was |-> "absent"] \in Jobs
    BY <1>1, RegistryAssumption DEF Jobs
  <2>3. (TakeStamp(r) \/ UNCHANGED <<stamp, clock>>) /\ (DefaultState = "active" => TakeStamp(r))
    BY <2>1 DEF Stamped
  <2>. QED  BY <1>1, <2>1, <2>2, <2>3, RegistryAssumption, StartInv
<1>4. ASSUME StartPromotion(r) PROVE RegistryInv'
  <2>1. PICK v \in Versions, to \in States :
         /\ state[v] # "absent"
         /\ Start(r, IF to = "active" THEN "others" ELSE "write",
                  [version |-> v, to |-> to, was |-> state[v]])
    BY <1>4 DEF StartPromotion
  <2>2. [version |-> v, to |-> to, was |-> state[v]] \in Jobs
    BY DEF Jobs, RegistryInv, RegistryTypeOK
  <2>3. UNCHANGED <<stamp, clock>>
    BY <1>4 DEF StartPromotion
  <2>4. CASE to = "active"
    BY <2>1, <2>2, <2>3, <2>4, StartInv
  <2>5. CASE to # "active"
    BY <2>1, <2>2, <2>3, <2>5, StartInv
  <2>. QED  BY <2>4, <2>5
<1>. QED  BY <1>2, <1>3, <1>4

LEMMA ReadActiveInv == ASSUME RegistryInv, NEW r \in Calls, ReadActive(r) PROVE RegistryInv'
<1>1. /\ pc[r] = "others" /\ pc' = [pc EXCEPT ![r] = "write"]
      /\ others' = [others EXCEPT ![r] = ActiveVersions \ {job[r].version}]
      /\ TakeStamp(r) /\ UNCHANGED <<registry, state, promoted, job, line, serial>>
      /\ ActiveVersions' = ActiveVersions
  BY DEF ReadActive, registry, ActiveVersions
<1>2. /\ StampsOK' /\ clock' \in Nat /\ stamp' \in [Calls -> Nat]
      /\ \A q \in Calls : q # r => stamp'[q] = stamp[q]
      /\ stamp'[r] # 0 /\ \A v \in Versions : promoted[v] < stamp'[r]
  BY <1>1, StampsKeep
<1>3. RegistryTypeOK'
  BY <1>1, <1>2 DEF RegistryInv, RegistryTypeOK, ActiveVersions
<1>4. /\ pc'[r] = "write" /\ others'[r] = ActiveVersions \ {job[r].version} /\ Busy' = Busy
      /\ \A q \in Calls : q # r => pc'[q] = pc[q] /\ others'[q] = others[q]
      /\ \A v \in ActiveVersions : state[v] # "absent"
  BY <1>1 DEF RegistryInv, RegistryTypeOK, Busy, ActiveVersions
<1>5. ASSUME NEW q \in Calls PROVE JobOK(q)'
  <2>1. JobOK(q) /\ JobOK(r)
    BY DEF RegistryInv
  <2>2. CASE q = r
    BY <1>1, <1>2, <1>4, <2>1, <2>2 DEF JobOK
  <2>3. CASE q # r
    BY <1>1, <1>2, <1>4, <2>1, <2>3 DEF JobOK
  <2>. QED  BY <2>2, <2>3
<1>6. SerialOK'
  <2> SUFFICES ASSUME serial PROVE LineOK' /\ (\A p, q \in Busy' : p = q) /\ \A q \in Busy' : AloneOK(q)'
    BY <1>1 DEF SerialOK
  <2>1. LineOK /\ (\A p, q \in Busy : p = q) /\ \A q \in Busy : AloneOK(q)
    BY DEF RegistryInv, SerialOK
  <2>2. Busy = {r}
    BY <1>1, <2>1 DEF Busy
  <2>3. LineOK'
    BY <1>1, <2>1 DEF LineOK
  <2>4. AloneOK(r)'
    BY <1>1, <1>2, <1>4, <2>1, <2>2 DEF AloneOK
  <2>. QED  BY <1>4, <2>2, <2>3, <2>4
<1>. QED  BY <1>2, <1>3, <1>5, <1>6 DEF RegistryInv

\* What a request that ends leaves of the others.
LEMMA EndKeeps ==
    ASSUME RegistryInv, NEW r \in Busy, End(r)
    PROVE  /\ r \in Calls /\ pc' \in [Calls -> {"idle", "store", "others", "write", "done"}]
           /\ job' \in [Calls -> Jobs] /\ others' \in [Calls -> SUBSET Versions]
           /\ stamp' \in [Calls -> Nat] /\ clock' = clock /\ serial' = serial
           /\ pc'[r] = "done" /\ others'[r] = {} /\ stamp'[r] = 0 /\ Busy' = Busy \ {r}
           /\ \A q \in Calls : q # r => /\ pc'[q] = pc[q] /\ job'[q] = job[q]
                                        /\ others'[q] = others[q] /\ stamp'[q] = stamp[q]
           /\ serial => Busy' = {}
<1>1. NoJob \in Jobs /\ r \in Calls
  BY DEF NoJob, Jobs, Busy
<1>2. /\ pc' \in [Calls -> {"idle", "store", "others", "write", "done"}]
      /\ job' \in [Calls -> Jobs] /\ others' \in [Calls -> SUBSET Versions]
      /\ stamp' \in [Calls -> Nat] /\ clock' = clock /\ serial' = serial
      /\ pc'[r] = "done" /\ others'[r] = {} /\ stamp'[r] = 0
      /\ \A q \in Calls : q # r => /\ pc'[q] = pc[q] /\ job'[q] = job[q]
                                   /\ others'[q] = others[q] /\ stamp'[q] = stamp[q]
  BY <1>1 DEF RegistryInv, RegistryTypeOK, End
<1>3. Busy' = Busy \ {r}
  BY <1>2 DEF Busy
<1>4. serial => Busy' = {}
  BY <1>3 DEF RegistryInv, SerialOK
<1>. QED  BY <1>1, <1>2, <1>3, <1>4

\* The rows a request writes at its end keep the invariant if they give one version its stamp.
LEMMA EndInv ==
    ASSUME RegistryInv, NEW r \in Busy, End(r),
           state' \in [Versions -> States \cup {"absent", "deprecated"}], line' \in Seq(Versions),
           \A v \in Versions : state[v] # "absent" => state'[v] # "absent",
           \A q \in Calls : pc[q] \in {"idle", "store"} /\ q # r => state'[q] = state[q],
           NEW x \in Versions,
           promoted' = promoted \/ promoted' = [promoted EXCEPT ![x] = stamp[r]],
           \A v \in Versions : state'[v] = "active" => promoted'[v] # 0,
           serial => LineOK'
    PROVE  RegistryInv'
<1>1. /\ r \in Calls /\ pc' \in [Calls -> {"idle", "store", "others", "write", "done"}]
      /\ job' \in [Calls -> Jobs] /\ others' \in [Calls -> SUBSET Versions]
      /\ stamp' \in [Calls -> Nat] /\ clock' = clock /\ serial' = serial
      /\ pc'[r] = "done" /\ others'[r] = {} /\ stamp'[r] = 0 /\ Busy' = Busy \ {r}
      /\ \A q \in Calls : q # r => /\ pc'[q] = pc[q] /\ job'[q] = job[q]
                                   /\ others'[q] = others[q] /\ stamp'[q] = stamp[q]
      /\ serial => Busy' = {}
  BY EndKeeps
<1>2. /\ promoted \in [Versions -> Nat] /\ stamp \in [Calls -> Nat] /\ clock \in Nat /\ StampsOK
  BY DEF RegistryInv, RegistryTypeOK
<1>3. promoted' \in [Versions -> Nat]
  BY <1>1, <1>2
<1>4. RegistryTypeOK'
  BY <1>1, <1>2, <1>3 DEF RegistryTypeOK
<1>5. StampsOK'
  <2>1. \A v \in Versions : promoted'[v] = promoted[v] \/ (v = x /\ promoted'[v] = stamp[r])
    BY <1>2
  <2>2. \A v \in Versions : promoted'[v] <= clock'
    BY <1>1, <1>2, <2>1 DEF StampsOK
  <2>3. \A q \in Calls : stamp'[q] <= clock'
    BY <1>1, <1>2 DEF StampsOK
  <2>4. \A v, w \in Versions : promoted'[v] # 0 /\ promoted'[v] = promoted'[w] => v = w
    BY <1>1, <1>2, <2>1 DEF StampsOK
  <2>5. \A q, s \in Calls : stamp'[s] # 0 /\ stamp'[s] = stamp'[q] => q = s
    BY <1>1, <1>2 DEF StampsOK
  <2>6. \A q \in Calls, v \in Versions : stamp'[q] # 0 => stamp'[q] # promoted'[v]
    <3> SUFFICES ASSUME NEW q \in Calls, NEW v \in Versions, stamp'[q] # 0
                 PROVE  stamp'[q] # promoted'[v]
      OBVIOUS
    <3>1. q # r /\ stamp'[q] = stamp[q] /\ stamp[q] # 0
      BY <1>1
    <3>2. stamp[q] # promoted[v] /\ stamp[q] # stamp[r]
      BY <1>1, <1>2, <3>1 DEF StampsOK
    <3>. QED  BY <2>1, <3>1, <3>2
  <2>7. \A v \in ActiveVersions' : promoted'[v] # 0
    BY DEF ActiveVersions
  <2>. QED  BY <2>2, <2>3, <2>4, <2>5, <2>6, <2>7 DEF StampsOK
<1>6. ASSUME NEW q \in Calls PROVE JobOK(q)'
  <2>1. JobOK(q)
    BY DEF RegistryInv
  <2>2. CASE q = r
    BY <1>1, <2>2 DEF JobOK
  <2>3. CASE q # r
    <3>1. /\ pc'[q] = pc[q] /\ job'[q] = job[q] /\ others'[q] = others[q] /\ stamp'[q] = stamp[q]
          /\ (q \in Busy' <=> q \in Busy) /\ others[q] \subseteq Versions
      BY <1>1, <2>3 DEF RegistryInv, RegistryTypeOK
    <3>2. pc[q] \in {"others", "write"} => q \in Busy
      BY DEF Busy
    <3>. QED  BY <2>1, <2>3, <3>1, <3>2 DEF JobOK
  <2>. QED  BY <2>2, <2>3
<1>7. SerialOK'
  BY <1>1 DEF SerialOK
<1>. QED  BY <1>4, <1>5, <1>6, <1>7 DEF RegistryInv

LEMMA StoreInv == ASSUME RegistryInv, NEW r \in Calls, Store(r) PROVE RegistryInv'
<1>1. /\ pc[r] = "store" /\ End(r) /\ r \in Busy /\ r \in Versions
      /\ state' = [state EXCEPT ![r] = job[r].to]
      /\ promoted' = [promoted EXCEPT ![r] = stamp[r]]
      /\ line' = IF job[r].to = "active" THEN Append(line, r) ELSE line
  BY DEF Store, Busy, Versions
<1>2. /\ RegistryTypeOK /\ JobOK(r) /\ StampsOK /\ job[r].to \in States /\ state[r] = "absent"
      /\ job[r].to = "active" => stamp[r] # 0
  BY <1>1 DEF RegistryInv, JobOK
<1>3. /\ state' \in [Versions -> States \cup {"absent", "deprecated"}] /\ line' \in Seq(Versions)
      /\ \A v \in Versions : v # r => state'[v] = state[v] /\ promoted'[v] = promoted[v]
      /\ state'[r] = job[r].to /\ promoted'[r] = stamp[r]
  BY <1>1, <1>2 DEF RegistryTypeOK
<1>4. \A v \in Versions : state[v] # "absent" => state'[v] # "absent"
  BY <1>2, <1>3
<1>5. \A q \in Calls : pc[q] \in {"idle", "store"} /\ q # r => state'[q] = state[q]
  BY <1>3 DEF Versions
<1>6. \A v \in Versions : state'[v] = "active" => promoted'[v] # 0
  BY <1>2, <1>3 DEF StampsOK, ActiveVersions
<1>7. ASSUME serial PROVE LineOK'
  <2>1. LineOK /\ AloneOK(r)
    BY <1>1, <1>7 DEF RegistryInv, SerialOK
  <2>2. /\ line \in Seq(Versions) /\ \A i \in DOMAIN line : line[i] # r /\ line[i] \in Versions
    BY <1>2, <2>1 DEF LineOK, RegistryTypeOK, ActiveVersions
  <2>3. CASE job[r].to = "active"
    <3>1. /\ line' = Append(line, r) /\ DOMAIN line' = 1..(Len(line) + 1) /\ Len(line) \in Nat
          /\ DOMAIN line = 1..Len(line)
          /\ line'[Len(line) + 1] = r /\ \A i \in 1..Len(line) : line'[i] = line[i]
      BY <1>1, <2>2, <2>3
    <3>2. ActiveVersions' = ActiveVersions \cup {r}
      BY <1>1, <1>3, <2>3 DEF ActiveVersions
    <3>3. \A i \in DOMAIN line' : i \in DOMAIN line \/ i = Len(line) + 1
      BY <3>1
    <3>4. ActiveVersions' = {line'[i] : i \in DOMAIN line'}
      BY <2>1, <3>1, <3>2, <3>3 DEF LineOK
    <3>5. ASSUME NEW i \in DOMAIN line', NEW j \in DOMAIN line', i < j
          PROVE  promoted'[line'[i]] < promoted'[line'[j]]
      <4>1. i \in DOMAIN line /\ line'[i] = line[i] /\ promoted'[line[i]] = promoted[line[i]]
        BY <1>3, <2>2, <3>1, <3>3, <3>5
      <4>2. CASE j \in DOMAIN line
        <5>1. line'[j] = line[j] /\ promoted'[line[j]] = promoted[line[j]]
          BY <1>3, <2>2, <3>1, <4>2
        <5>. QED  BY <2>1, <3>5, <4>1, <4>2, <5>1 DEF LineOK
      <4>3. CASE j = Len(line) + 1
        <5>1. promoted[line[i]] < stamp[r]
          BY <1>2, <2>1, <2>2, <2>3, <4>1 DEF AloneOK
        <5>. QED  BY <1>3, <3>1, <4>1, <4>3, <5>1
      <4>. QED  BY <3>3, <4>2, <4>3
    <3>. QED  BY <3>4, <3>5 DEF LineOK
  <2>4. CASE job[r].to # "active"
    <3>1. ActiveVersions' = ActiveVersions
      BY <1>2, <1>3, <2>4 DEF ActiveVersions
    <3>2. line' = line /\ \A i \in DOMAIN line : promoted'[line[i]] = promoted[line[i]]
      BY <1>1, <1>3, <2>2, <2>4
    <3>. QED  BY <2>1, <3>1, <3>2 DEF LineOK
  <2>. QED  BY <2>3, <2>4
<1>. QED  BY <1>1, <1>3, <1>4, <1>5, <1>6, <1>7, EndInv

\* A nonempty set of numbers has a least one.
LEMMA LeastNumber ==
    ASSUME NEW I, I \subseteq Nat, I # {}
    PROVE  \E k \in I : \A i \in I : k <= i
<1> DEFINE R == OpToRel(<, Nat)
<1>1. \A i, j \in Nat : i < j => <<i, j>> \in R
  BY DEF OpToRel
<1>2. IsWellFoundedOn(R, Nat)
  BY NatLessThanWellFounded
<1> HIDE DEF R
<1>3. PICK k \in I : \A i \in I : <<i, k>> \notin R
  BY <1>2, WFMin
<1>4. ASSUME NEW i \in I PROVE k <= i
  <2>1. i \in Nat /\ k \in Nat /\ <<i, k>> \notin R
    BY <1>3
  <2>2. ~(i < k)
    BY <1>1, <2>1
  <2>. QED  BY <2>1, <2>2
<1>. QED  BY <1>3, <1>4

\* A sequence without its k-th element.
LEMMA RemoveAtIs ==
    ASSUME NEW S, NEW s \in Seq(S), NEW k \in 1..Len(s)
    PROVE  /\ RemoveAt(s, k) \in Seq(S) /\ DOMAIN RemoveAt(s, k) = 1..(Len(s) - 1)
           /\ \A i \in 1..(Len(s) - 1) : RemoveAt(s, k)[i] = IF i < k THEN s[i] ELSE s[i + 1]
<1> DEFINE n == Len(s)
           a == SubSeq(s, 1, k - 1)
           b == SubSeq(s, k + 1, n)
<1>1. n \in Nat /\ k \in Int /\ 1 <= k /\ k <= n /\ \A i \in 1..n : s[i] \in S
  OBVIOUS
<1>2. a \in Seq(S) /\ Len(a) = k - 1 /\ \A i \in 1..(k - 1) : a[i] = s[i]
  <2>1. \A i \in 1..(k - 1) : s[i] \in S
    BY <1>1
  <2>2. /\ a \in Seq(S) /\ Len(a) = IF 1 <= k - 1 THEN (k - 1) - 1 + 1 ELSE 0
        /\ \A i \in 1..((k - 1) - 1 + 1) : a[i] = s[1 + i - 1]
    BY <1>1, <2>1, SubSeqProperties
  <2>. QED  BY <1>1, <2>2
<1>3. b \in Seq(S) /\ Len(b) = n - k /\ \A i \in 1..(n - k) : b[i] = s[k + i]
  <2>1. \A i \in (k + 1)..n : s[i] \in S
    BY <1>1
  <2>2. /\ b \in Seq(S) /\ Len(b) = IF k + 1 <= n THEN n - (k + 1) + 1 ELSE 0
        /\ \A i \in 1..(n - (k + 1) + 1) : b[i] = s[(k + 1) + i - 1]
    BY <1>1, <2>1, SubSeqProperties
  <2>. QED  BY <1>1, <2>2
<1> HIDE DEF a, b
<1>4. /\ a \o b \in Seq(S) /\ Len(a \o b) = Len(a) + Len(b)
      /\ \A i \in 1..(Len(a) + Len(b)) : (a \o b)[i] = IF i <= Len(a) THEN a[i] ELSE b[i - Len(a)]
  BY <1>2, <1>3, ConcatProperties
<1>5. RemoveAt(s, k) = a \o b
  BY DEF RemoveAt, a, b
<1>6. PICK t : t = a \o b
  OBVIOUS
<1>7. t \in Seq(S) /\ Len(t) = n - 1
  BY <1>1, <1>2, <1>3, <1>4, <1>6
<1>8. ASSUME NEW i \in 1..(n - 1) PROVE t[i] = IF i < k THEN s[i] ELSE s[i + 1]
  <2>1. t[i] = IF i <= k - 1 THEN a[i] ELSE b[i - (k - 1)]
    BY <1>1, <1>2, <1>3, <1>4, <1>6, <1>8
  <2>2. CASE i < k
    BY <1>1, <1>2, <1>8, <2>1, <2>2
  <2>3. CASE ~(i < k)
    <3>1. i - (k - 1) \in 1..(n - k) /\ k + (i - (k - 1)) = i + 1 /\ ~(i <= k - 1)
      BY <1>1, <1>8, <2>3
    <3>. QED  BY <1>3, <2>1, <2>3, <3>1
  <2>. QED  BY <2>2, <2>3
<1>9. RemoveAt(s, k) = t
  BY <1>5, <1>6
<1>10. DOMAIN t = 1..(n - 1)
  BY <1>1, <1>7
<1>11. \A i \in 1..(n - 1) : t[i] = IF i < k THEN s[i] ELSE s[i + 1]
  BY <1>8, Zenon
<1>. QED  BY <1>7, <1>9, <1>10, <1>11, Zenon

\* What the removal of a member leaves of a sequence, when no member comes twice.
LEMMA RemoveFirstIs ==
    ASSUME NEW S, NEW s \in Seq(S), NEW x, \A i, j \in DOMAIN s : i < j => s[i] # s[j]
    PROVE  LET t == RemoveFirst(s, x)
           IN  /\ t \in Seq(S)
               /\ {t[i] : i \in DOMAIN t} = {s[i] : i \in DOMAIN s} \ {x}
               /\ \A i, j \in DOMAIN t : i < j =>
                    \E k, l \in DOMAIN s : k < l /\ t[i] = s[k] /\ t[j] = s[l]
<1> DEFINE n == Len(s)
           I == {i \in 1..Len(s) : s[i] = x}
<1>1. n \in Nat /\ DOMAIN s = 1..n /\ \A i \in 1..n : s[i] \in S
  OBVIOUS
<1>2. CASE I = {}
  <2>1. ~\E i \in 1..Len(s) : s[i] = x
    BY <1>2
  <2>2. RemoveFirst(s, x) = s
    BY <2>1 DEF RemoveFirst
  <2>3. {s[i] : i \in DOMAIN s} = {s[i] : i \in DOMAIN s} \ {x}
    BY <1>1, <2>1
  <2>. QED  BY <2>2, <2>3
<1>3. CASE I # {}
  <2>1. PICK k \in 1..n : s[k] = x
    BY <1>3
  <2>2. \A i \in 1..n : i # k => s[i] # x
    BY <1>1, <2>1
  <2>3. I = {k}
    BY <2>1, <2>2
  <2>4. Min({k}) = k
    BY <2>1 DEF Min
  <2>5. SelectInSeq(s, LAMBDA v : v = x) = k
    BY <2>3, <2>4, Zenon DEF SelectInSeq
  <2>6. PICK t : t = RemoveAt(s, k)
    OBVIOUS
  <2>7. RemoveFirst(s, x) = t
    BY <2>1, <2>5, <2>6 DEF RemoveFirst
  <2>8. /\ t \in Seq(S) /\ DOMAIN t = 1..(n - 1)
        /\ \A i \in 1..(n - 1) : t[i] = IF i < k THEN s[i] ELSE s[i + 1]
    BY <1>1, <2>1, <2>6, RemoveAtIs
  <2>9. {t[i] : i \in DOMAIN t} = {s[i] : i \in DOMAIN s} \ {x}
    <3>1. ASSUME NEW i \in DOMAIN t PROVE t[i] \in {s[j] : j \in DOMAIN s} \ {x}
      <4>1. CASE i < k
        BY <1>1, <2>2, <2>8, <3>1, <4>1
      <4>2. CASE ~(i < k)
        <5>1. i + 1 \in 1..n /\ i + 1 # k /\ t[i] = s[i + 1]
          BY <1>1, <2>1, <2>8, <3>1, <4>2
        <5>. QED  BY <1>1, <2>2, <5>1
      <4>. QED  BY <4>1, <4>2
    <3>2. ASSUME NEW j \in DOMAIN s, s[j] # x PROVE \E i \in DOMAIN t : t[i] = s[j]
      <4>1. CASE j < k
        BY <1>1, <2>1, <2>8, <4>1
      <4>2. CASE j > k
        <5>1. j - 1 \in 1..(n - 1) /\ ~(j - 1 < k) /\ (j - 1) + 1 = j
          BY <1>1, <2>1, <4>2
        <5>. QED  BY <2>8, <5>1
      <4>. QED  BY <1>1, <2>1, <3>2, <4>1, <4>2
    <3>. QED  BY <3>1, <3>2
  <2>10. ASSUME NEW i \in DOMAIN t, NEW j \in DOMAIN t, i < j
         PROVE  \E a, b \in DOMAIN s : a < b /\ t[i] = s[a] /\ t[j] = s[b]
    <3> DEFINE a == IF i < k THEN i ELSE i + 1
               b == IF j < k THEN j ELSE j + 1
    <3>1. a \in 1..n /\ b \in 1..n /\ a < b
      BY <1>1, <2>1, <2>8, <2>10
    <3>2. t[i] = s[a] /\ t[j] = s[b]
      BY <2>8
    <3>. QED  BY <1>1, <3>1, <3>2
  <2> HIDE DEF n, I
  <2>. QED  BY <2>7, <2>8, <2>9, <2>10
<1>. QED  BY <1>2, <1>3

\* A sequence without its first x is a sequence of the same elements.
LEMMA RemoveFirstTyped ==
    ASSUME NEW S, NEW s \in Seq(S), NEW x
    PROVE  RemoveFirst(s, x) \in Seq(S)
<1> DEFINE n == Len(s)
           I == {i \in 1..Len(s) : s[i] = x}
<1>1. n \in Nat /\ DOMAIN s = 1..n /\ \A i \in 1..n : s[i] \in S
  OBVIOUS
<1>2. CASE I = {}
  <2>1. RemoveFirst(s, x) = s
    BY <1>2 DEF RemoveFirst
  <2>. QED  BY <2>1
<1>3. CASE I # {}
  <2>1. PICK k \in I : \A i \in I : k <= i
    <3>1. I \subseteq Nat
      BY <1>1
    <3> HIDE DEF I
    <3>. QED  BY <1>3, <3>1, LeastNumber
  <2>2. Min(I) \in I
    BY <1>1, <2>1 DEF Min
  <2>3. SelectInSeq(s, LAMBDA v : v = x) = Min(I)
    BY <1>3 DEF SelectInSeq
  <2>4. PICK m \in 1..n : m = SelectInSeq(s, LAMBDA v : v = x)
    BY <2>2, <2>3
  <2>5. RemoveFirst(s, x) = RemoveAt(s, m)
    BY <1>3, <2>4 DEF RemoveFirst
  <2>. QED  BY <2>4, <2>5, RemoveAtIs
<1>. QED  BY <1>2, <1>3

LEMMA WriteInv == ASSUME RegistryInv, NEW r \in Calls, Write(r) PROVE RegistryInv'
<1>1. /\ pc[r] = "write" /\ End(r) /\ r \in Busy
      /\ state' = StatesAfter(r)
      /\ promoted' = IF job[r].to = "active"
                     THEN [promoted EXCEPT ![job[r].version] = stamp[r]] ELSE promoted
      /\ line' = IF job[r].to = "active" THEN <<job[r].version>>
                 ELSE RemoveFirst(line, job[r].version)
  BY DEF Write, Busy
<1>2. /\ RegistryTypeOK /\ JobOK(r) /\ StampsOK
  BY DEF RegistryInv
<1>3. PICK x \in Versions, to \in States : x = job[r].version /\ to = job[r].to
  BY <1>1, <1>2 DEF JobOK
<1>4. /\ others[r] \subseteq Versions /\ \A v \in others[r] : state[v] # "absent"
      /\ to = "active" => stamp[r] # 0
      /\ to # "active" => others[r] = {}
      /\ state[x] # "absent"
  BY <1>1, <1>2, <1>3 DEF RegistryTypeOK, JobOK
<1>5. \A v \in Versions : state'[v] = IF v \in others[r] THEN "deprecated"
                                      ELSE IF v = x /\ to # job[r].was THEN to ELSE state[v]
  BY <1>1, <1>3 DEF StatesAfter
<1>6. /\ state' \in [Versions -> States \cup {"absent", "deprecated"}]
      /\ \A v \in Versions : state[v] # "absent" => state'[v] # "absent"
  BY <1>1, <1>2, <1>3, <1>5, RegistryAssumption DEF RegistryTypeOK, StatesAfter
<1>7. \A q \in Calls : pc[q] \in {"idle", "store"} /\ q # r => state'[q] = state[q]
  BY <1>4, <1>5 DEF RegistryInv, JobOK, Versions
<1>8. /\ promoted' = IF to = "active" THEN [promoted EXCEPT ![x] = stamp[r]] ELSE promoted
      /\ promoted \in [Versions -> Nat]
  BY <1>1, <1>2, <1>3 DEF RegistryTypeOK
<1>9. \A v \in Versions : state'[v] = "active" => promoted'[v] # 0
  <2>1. \A v \in Versions : state'[v] = "active" => state[v] = "active" \/ (v = x /\ to = "active")
    BY <1>5
  <2>. QED  BY <1>2, <1>4, <1>8, <2>1 DEF StampsOK, ActiveVersions
<1>10. ASSUME serial PROVE LineOK'
  <2>1. LineOK /\ AloneOK(r)
    BY <1>1, <1>10 DEF RegistryInv, SerialOK
  <2>2. job[r].was = state[x]
    BY <1>1, <1>3, <2>1 DEF AloneOK
  <2>3. CASE to = "active"
    <3>1. others[r] = ActiveVersions \ {x} /\ line' = <<x>>
      BY <1>1, <1>3, <2>1, <2>3 DEF AloneOK
    <3>2. \A v \in Versions : state'[v] = "active" <=> v = x
      BY <1>5, <2>2, <2>3, <3>1 DEF ActiveVersions
    <3>3. ActiveVersions' = {x}
      BY <3>2 DEF ActiveVersions
    <3>. QED  BY <3>1, <3>3 DEF LineOK
  <2>4. CASE to # "active"
    <3>1. line' = RemoveFirst(line, x) /\ promoted' = promoted
      BY <1>1, <1>3, <1>8, <2>4
    <3>2. \A v \in Versions : state'[v] = "active" <=> state[v] = "active" /\ v # x
      BY <1>4, <1>5, <2>2, <2>4
    <3>3. ActiveVersions' = ActiveVersions \ {x}
      BY <3>2 DEF ActiveVersions
    <3>4. /\ line \in Seq(Versions) /\ \A i \in DOMAIN line : promoted[line[i]] \in Nat
          /\ \A i, j \in DOMAIN line : i < j => line[i] # line[j]
      BY <1>2, <1>8, <2>1 DEF RegistryTypeOK, LineOK
    <3>5. /\ {line'[i] : i \in DOMAIN line'} = {line[i] : i \in DOMAIN line} \ {x}
          /\ \A i, j \in DOMAIN line' : i < j =>
               \E k, l \in DOMAIN line : k < l /\ line'[i] = line[k] /\ line'[j] = line[l]
      BY <3>1, <3>4, RemoveFirstIs
    <3>. QED  BY <2>1, <3>1, <3>3, <3>5 DEF LineOK
  <2>. QED  BY <2>3, <2>4
<1>11. line' \in Seq(Versions)
  <2>1. <<x>> \in Seq(Versions) /\ RemoveFirst(line, x) \in Seq(Versions)
    BY <1>2, <1>3, RemoveFirstTyped DEF RegistryTypeOK
  <2>. QED  BY <1>1, <1>3, <2>1
<1>. QED  BY <1>1, <1>6, <1>7, <1>8, <1>9, <1>10, <1>11, EndInv

LEMMA LoseInv == ASSUME RegistryInv, NEW r \in Calls, Lose(r) PROVE RegistryInv'
<1>1. /\ r \in Busy /\ End(r) /\ UNCHANGED <<state, promoted, line>>
      /\ ActiveVersions' = ActiveVersions /\ Seed \in Versions
  BY DEF Lose, registry, ActiveVersions, Versions
<1>2. RegistryTypeOK /\ StampsOK
  BY DEF RegistryInv
<1>3. \A v \in Versions : state'[v] = "active" => promoted'[v] # 0
  BY <1>1, <1>2 DEF StampsOK, ActiveVersions
<1>4. serial => LineOK'
  BY <1>1 DEF RegistryInv, SerialOK, LineOK
<1>5. /\ state' \in [Versions -> States \cup {"absent", "deprecated"}] /\ line' \in Seq(Versions)
      /\ \A v \in Versions : state[v] # "absent" => state'[v] # "absent"
      /\ \A q \in Calls : pc[q] \in {"idle", "store"} /\ q # r => state'[q] = state[q]
  BY <1>1, <1>2 DEF RegistryTypeOK
<1>. QED  BY <1>1, <1>3, <1>4, <1>5, EndInv

LEMMA RegistryNextInv == RegistryInv /\ [RegistryNext]_registryVars => RegistryInv'
<1> SUFFICES ASSUME RegistryInv, [RegistryNext]_registryVars PROVE RegistryInv'
  OBVIOUS
<1>1. ASSUME NEW r \in Calls, StartTraining(r) \/ StartListing(r) \/ StartPromotion(r)
      PROVE  RegistryInv'
  BY <1>1, StartAnyInv
<1>2. ASSUME NEW r \in Calls, ReadActive(r) PROVE RegistryInv'
  BY <1>2, ReadActiveInv
<1>3. ASSUME NEW r \in Calls, Store(r) PROVE RegistryInv'
  BY <1>3, StoreInv
<1>4. ASSUME NEW r \in Calls, Write(r) PROVE RegistryInv'
  BY <1>4, WriteInv
<1>5. ASSUME NEW r \in Calls, Lose(r) PROVE RegistryInv'
  BY <1>5, LoseInv
<1>6. CASE UNCHANGED registryVars
  <2>1. /\ UNCHANGED <<state, promoted, clock, pc, job, others, stamp, line, serial>>
        /\ ActiveVersions' = ActiveVersions /\ Busy' = Busy
    BY <1>6 DEF registryVars, registry, ActiveVersions, Busy
  <2>2. RegistryTypeOK' /\ StampsOK' /\ LineOK' = LineOK
    BY <2>1 DEF RegistryInv, RegistryTypeOK, StampsOK, LineOK
  <2>3. \A r \in Calls : JobOK(r)' /\ AloneOK(r)' = AloneOK(r)
    BY <2>1 DEF RegistryInv, JobOK, AloneOK
  <2>4. SerialOK'
    BY <2>1, <2>2, <2>3 DEF RegistryInv, SerialOK, Busy
  <2>. QED  BY <2>2, <2>3, <2>4 DEF RegistryInv
<1>. QED  BY <1>1, <1>2, <1>3, <1>4, <1>5, <1>6 DEF RegistryNext

LEMMA RegistryInvWellDefined == RegistryInv => ServiceWellDefined
<1> SUFFICES ASSUME RegistryInv PROVE ServiceWellDefined
  OBVIOUS
<1>1. \A v, w \in ActiveVersions : promoted[v] # 0 /\ (promoted[v] = promoted[w] => v = w)
  BY DEF RegistryInv, StampsOK, ActiveVersions
<1>2. ASSUME serial PROVE ActiveVersions = {line[i] : i \in DOMAIN line}
  BY <1>2 DEF RegistryInv, SerialOK, LineOK
<1>3. ASSUME serial, line # <<>> PROVE Latest(ActiveVersions) = line[Len(line)]
  <2>1. LineOK /\ line \in Seq(Versions) /\ promoted \in [Versions -> Nat]
    BY <1>3 DEF RegistryInv, SerialOK, RegistryTypeOK
  <2>2. PICK n \in Nat \ {0} : n = Len(line) /\ DOMAIN line = 1..n
    BY <1>3, <2>1, EmptySeq, LenProperties
  <2>3. line[n] \in ActiveVersions /\ ActiveVersions \subseteq Versions
    BY <2>1, <2>2 DEF LineOK, ActiveVersions
  <2>4. ASSUME NEW w \in ActiveVersions PROVE promoted[w] <= promoted[line[n]]
    <3>1. PICK i \in 1..n : w = line[i]
      BY <2>1, <2>2 DEF LineOK
    <3>2. CASE i = n
      BY <2>1, <2>3, <3>1, <3>2
    <3>3. CASE i < n
      BY <2>1, <2>2, <2>3, <3>1, <3>3 DEF LineOK
    <3>. QED  BY <3>2, <3>3
  <2>5. ASSUME NEW v \in ActiveVersions, \A w \in ActiveVersions : promoted[w] <= promoted[v]
        PROVE  v = line[n]
    <3>1. promoted[v] = promoted[line[n]]
      BY <2>1, <2>3, <2>4, <2>5
    <3>. QED  BY <1>1, <2>3, <3>1
  <2>6. \A v : v \in ActiveVersions /\ (\A w \in ActiveVersions : promoted[w] <= promoted[v]) <=> v = line[n]
    BY <2>3, <2>4, <2>5
  <2>7. (CHOOSE v \in ActiveVersions : \A w \in ActiveVersions : promoted[w] <= promoted[v]) = line[n]
    BY <2>6, Zenon
  <2>. QED  BY <2>2, <2>3, <2>7 DEF Latest
<1>. QED  BY <1>1, <1>2, <1>3 DEF ServiceWellDefined

\* However the requests of a model name overlap, an active version has a stamp of its
\* own, so that latest_model_version has one answer; when they do not overlap the
\* active versions are those a promotion leaves, and the last to come serves
\* (services/ml.py).
THEOREM ServiceIsAlwaysWellDefined == RegistrySpec => []ServiceWellDefined
<1>1. RegistryInit => RegistryInv
  BY RegistryInitInv
<1>2. RegistryInv /\ [RegistryNext]_registryVars => RegistryInv'
  BY RegistryNextInv
<1>3. RegistryInv => ServiceWellDefined
  BY RegistryInvWellDefined
<1>. QED  BY <1>1, <1>2, <1>3, PTL DEF RegistrySpec

-----------------------------------------------------------------------------
(* The tab.  A session is granted when the call that logs in has returned:  *)
(* from then on its account is fixed.  A refresh covers what was reported   *)
(* as published if it has not been served yet, or has received it all; in   *)
(* order, a refresh that does not cover it is followed by a later one that  *)
(* does.                                                                    *)

Accounts == Members \cup {Nobody}
Abouts == Members \cup Texts \cup {Nobody}
Wheres == {"idle", "waits", "ok", "failed", "done"}
Kinds == {"none", "login", "logout", "profile", "reply", "post", "follow", "refresh"}
Calling == [kind : Kinds, session : Clicks \cup {NoSession}, about : Abouts]
Rows == [id : Clicks, key : Accounts \X Abouts, what : [by : Accounts, text : Abouts]]
Lists == [feed : SUBSET Rows, follows : SUBSET Members]
Stores == [profile : Accounts, of : Accounts, feed : SUBSET Rows, drafts : SUBSET Clicks,
           follows : SUBSET Members]

WebTypeOK ==
    /\ session \in Clicks \cup {NoSession} /\ saved \in Clicks \cup {NoSession} /\ store \in Stores
    /\ at \in [Clicks -> Wheres] /\ call \in [Clicks -> Calling] /\ got \in [Clicks -> Lists]
    /\ wire \subseteq Clicks /\ owner \in [Clicks -> Accounts] /\ posts \subseteq Rows
    /\ since \in [Clicks -> Nat] /\ inOrder \in BOOLEAN

Granted(s) == s \in Clicks /\ at[s] # "idle" /\ call[s].kind # "login"
IsPosted(w) == \E p \in posts : p.what = w

CallOK(c) ==
    /\ c \in wire => at[c] \notin {"idle", "ok"}
    /\ at[c] = "idle" => call[c] = NoCall
    /\ call[c].kind = "login" => call[c].session = NoSession /\ call[c].about \in Members
    /\ call[c].kind \notin {"none", "login"} => Granted(call[c].session)
    /\ call[c].kind = "post" /\ at[c] = "ok" => IsPosted(What(c))
    /\ call[c].kind = "follow" /\ at[c] = "ok" => <<Who(c), call[c].about>> \in followed
    /\ call[c].kind = "refresh" /\ at[c] = "ok" =>
         \A m \in got[c].follows : <<Who(c), m>> \in followed

PostsOK ==
    /\ \A p \in posts : p.key = <<p.what.by, p.what.text>>
    /\ \A p, q \in posts : p.key = q.key => p = q
    /\ \A t \in told : IsPosted(t)

TabOK ==
    /\ saved = session /\ (session # NoSession => Granted(session))
    /\ \A d \in store.drafts : d \in Pending /\ call[d].kind \in {"post", "refresh"}

Covers(c) == at[c] = "ok" => \A t \in told : \E p \in got[c].feed : p.what = t
Fresh(c) == /\ c \in Pending /\ since[c] # 0
            /\ call[c].kind = "refresh" /\ call[c].session = session

\* A follow under way that shows m as followed.
Following(c, m) ==
    c \in Pending /\ call[c] = [kind |-> "follow", session |-> session, about |-> m]

FollowsOK ==
    IF session = NoSession THEN store.follows = {}
    ELSE \A m \in store.follows :
            <<owner[session], m>> \in followed \/ \E c \in Clicks : Following(c, m)

ShownOK ==
    session # NoSession =>
        /\ \/ store.profile = owner[session] /\ store.of = owner[session]
           \/ \E c \in Clicks : Fresh(c)
        /\ \/ \A t \in told : \E p \in store.feed : p.what = t
           \/ \E c \in Clicks : Fresh(c) /\ Covers(c)
        /\ \A d \in Clicks :
             Fresh(d) => Covers(d) \/ \E c \in Clicks : Fresh(c) /\ since[c] > since[d] /\ Covers(c)

WebInv ==
    /\ WebTypeOK /\ (\A c \in Clicks : CallOK(c)) /\ PostsOK /\ TabOK
    /\ inOrder => FollowsOK /\ ShownOK

LEMMA ClicksAreNumbers == Clicks \subseteq Nat /\ NoSession \notin Clicks
BY WebAssumption DEF Clicks, NoSession

LEMMA WebInitInv == WebInit => WebInv
<1> SUFFICES ASSUME WebInit PROVE WebInv
  OBVIOUS
<1> USE DEF WebInit
<1>1. /\ Blank \in Stores /\ NoCall \in Calling /\ NoLists \in Lists
      /\ Blank.follows = {} /\ Blank.drafts = {} /\ NoCall.kind = "none"
  BY DEF Blank, Stores, Accounts, NoCall, Calling, Kinds, Abouts, NoLists, Lists
<1>2. WebTypeOK
  BY <1>1 DEF WebTypeOK, Wheres, Accounts
<1>3. \A c \in Clicks : CallOK(c)
  BY <1>1 DEF CallOK
<1>4. PostsOK /\ TabOK /\ FollowsOK /\ ShownOK
  BY <1>1 DEF PostsOK, TabOK, FollowsOK, ShownOK
<1>. QED  BY <1>2, <1>3, <1>4 DEF WebInv

\* Some call has the latest since.
LEMMA LatestSince ==
    ASSUME NEW n \in Nat \ {0}, NEW f \in [1..n -> Nat]
    PROVE  \E m \in 1..n : \A i \in 1..n : f[i] <= f[m]
<1> DEFINE Ends(k) == \E m \in 1..k : \A i \in 1..k : f[i] <= f[m]
           B == {k \in 1..n : ~Ends(k)}
<1>1. SUFFICES ASSUME ~Ends(n) PROVE FALSE
  OBVIOUS
<1>2. PICK k \in B : \A i \in B : k <= i
  <2>1. B \subseteq Nat /\ n \in B
    BY <1>1
  <2> HIDE DEF B
  <2>. QED  BY <2>1, LeastNumber
<1>3. k # 1
  <2>1. 1 \in 1..1 /\ \A i \in 1..1 : f[i] <= f[1]
    OBVIOUS
  <2>2. Ends(1)
    BY <2>1
  <2>. QED  BY <1>2, <2>2
<1>4. k - 1 \in 1..n /\ ~(k <= k - 1)
  BY <1>2, <1>3
<1>5. Ends(k - 1)
  BY <1>2, <1>4
<1>6. PICK m \in 1..(k - 1) : \A i \in 1..(k - 1) : f[i] <= f[m]
  BY <1>5
<1>7. CASE f[k] <= f[m]
  <2>1. m \in 1..k /\ \A i \in 1..k : f[i] <= f[m]
    BY <1>2, <1>6, <1>7
  <2>. QED  BY <1>2, <2>1
<1>8. CASE ~(f[k] <= f[m])
  <2>1. k \in 1..k /\ \A i \in 1..k : f[i] <= f[k]
    BY <1>2, <1>6, <1>8
  <2>. QED  BY <1>2, <2>1
<1>. QED  BY <1>7, <1>8

LEMMA NowIsLater ==
    ASSUME WebTypeOK, NEW c \in Clicks
    PROVE  Now \in Nat \ {0} /\ \A d \in Clicks : since[d] < Now
<1> DEFINE S == {since[d] : d \in Clicks}
<1>1. MaxClicks \in Nat \ {0} /\ since \in [1..MaxClicks -> Nat] /\ Clicks = 1..MaxClicks
  BY WebAssumption DEF WebTypeOK, Clicks
<1>2. PICK m \in Clicks : \A d \in Clicks : since[d] <= since[m]
  BY <1>1, LatestSince
<1>3. since[m] \in S /\ \A y \in S : since[m] >= y
  BY <1>1, <1>2
<1>4. Max(S) \in S /\ \A y \in S : Max(S) >= y
  BY <1>3 DEF Max
<1>5. S \subseteq Nat /\ (\A d \in Clicks : since[d] \in S) /\ Now = 1 + Max(S)
  BY <1>1 DEF Now
<1> HIDE DEF S
<1>6. Max(S) \in Nat
  BY <1>4, <1>5
<1>7. \A d \in Clicks : since[d] <= Max(S) /\ since[d] \in Nat
  BY <1>4, <1>5
<1>. QED  BY <1>5, <1>6, <1>7

\* A step leaves a call alone; a step takes nothing back.
Untouched(d) ==
    at'[d] = at[d] /\ call'[d] = call[d] /\ got'[d] = got[d] /\ (d \in wire' => d \in wire)
Grows ==
    /\ posts \subseteq posts' /\ followed \subseteq followed'
    /\ \A s \in Clicks : Granted(s) => Granted(s)' /\ owner'[s] = owner[s]

LEMMA GrantedKept ==
    ASSUME NEW c \in Clicks, \A d \in Clicks : d # c => at'[d] = at[d] /\ call'[d] = call[d],
           at'[c] # "idle", Granted(c) => call'[c].kind # "login",
           \A d \in Clicks : owner'[d] = owner[d] \/ (d = c /\ call[c].kind = "login"),
           posts \subseteq posts', followed \subseteq followed'
    PROVE  Grows
BY DEF Grows, Granted

LEMMA CallKept ==
    ASSUME NEW d \in Clicks, CallOK(d), Grows, Untouched(d)
    PROVE  CallOK(d)'
<1> USE DEF Untouched
<1>1. call[d].kind \notin {"none", "login"} => Granted(call[d].session)
  BY DEF CallOK
<1>2. call[d].kind \notin {"none", "login"} =>
        Granted(call[d].session)' /\ owner'[call[d].session] = owner[call[d].session]
  BY <1>1 DEF Grows, Granted
<1>3. call[d].kind = "post" /\ at[d] = "ok" => IsPosted(What(d))'
  BY <1>2 DEF CallOK, Grows, IsPosted, What, Who
<1>4. call[d].kind = "follow" /\ at[d] = "ok" => (<<Who(d), call[d].about>> \in followed)'
  BY <1>2 DEF CallOK, Grows, Who
<1>5. call[d].kind = "refresh" /\ at[d] = "ok" => (\A m \in got[d].follows : <<Who(d), m>> \in followed)'
  BY <1>2 DEF CallOK, Grows, Who
<1>. QED  BY <1>2, <1>3, <1>4, <1>5 DEF CallOK

LEMMA ShownKept ==
    ASSUME ShownOK, session' = session, session # NoSession => owner'[session] = owner[session],
           told' = told, store'.feed = store.feed, store'.of = store.of,
           store'.profile = store.profile \/ store'.profile = owner[session],
           \A d \in Clicks : /\ Fresh(d)' <=> Fresh(d)
                             /\ Fresh(d) => since'[d] = since[d] /\ (Covers(d) => Covers(d)')
    PROVE  ShownOK'
<1> SUFFICES ASSUME session # NoSession PROVE ShownOK'
  BY DEF ShownOK
<1>1. \/ store'.profile = owner'[session'] /\ store'.of = owner'[session']
      \/ \E c \in Clicks : Fresh(c)'
  BY DEF ShownOK
<1>2. \/ \A t \in told' : \E p \in store'.feed : p.what = t
      \/ \E c \in Clicks : Fresh(c)' /\ Covers(c)'
  BY DEF ShownOK
<1>3. \A d \in Clicks :
        Fresh(d)' => Covers(d)' \/ \E c \in Clicks : Fresh(c)' /\ since'[c] > since'[d] /\ Covers(c)'
  BY DEF ShownOK
<1>. QED  BY <1>1, <1>2, <1>3 DEF ShownOK

\* A refresh that is sent covers everything.
LEMMA ShownSent ==
    ASSUME NEW c \in Clicks, Fresh(c)', at'[c] = "waits",
           \A d \in Clicks : d # c /\ Fresh(d)' => since'[d] < since'[c]
    PROVE  ShownOK'
<1>1. Covers(c)'
  BY DEF Covers
<1>2. \A d \in Clicks : Fresh(d)' => Covers(d)' \/ (Fresh(c)' /\ since'[c] > since'[d] /\ Covers(c)')
  BY <1>1
<1>. QED  BY <1>1, <1>2 DEF ShownOK

LEMMA FollowsKept ==
    ASSUME FollowsOK, session' = session, session # NoSession => owner'[session] = owner[session],
           followed \subseteq followed', store'.follows \subseteq store.follows,
           \A c \in Clicks, m \in store'.follows :
              Following(c, m) => Following(c, m)' \/ <<owner[session], m>> \in followed'
    PROVE  FollowsOK'
BY DEF FollowsOK

LEMMA ClickInv ==
    ASSUME WebInv, NEW c \in Clicks, NEW kind \in Kinds \ {"none", "refresh"}, NEW about \in Abouts,
           Click(c, kind, about), kind = "login" <=> session = NoSession,
           kind = "login" => about \in Members,
           store' \in Stores, store'.profile = store.profile, store'.of = store.of,
           store'.feed = store.feed,
           store'.drafts = store.drafts \/ (kind = "post" /\ store'.drafts = store.drafts \cup {c}),
           \/ store'.follows = store.follows
           \/ kind = "follow" /\ session # NoSession /\ store'.follows = store.follows \cup {about}
    PROVE  WebInv'
<1> DEFINE does == [kind |-> kind, session |-> session, about |-> about]
<1>1. /\ at[c] = "idle" /\ at' = [at EXCEPT ![c] = "waits"] /\ call' = [call EXCEPT ![c] = does]
      /\ wire' = wire \cup {c} /\ since' = [since EXCEPT ![c] = Now]
      /\ UNCHANGED <<session, saved, told, got, owner, dead, posts, followed, inOrder>>
  BY ClicksAreNumbers DEF Click, IsNext, Send, server
<1>2. WebTypeOK /\ CallOK(c) /\ PostsOK /\ TabOK /\ Now \in Nat \ {0} /\ does \in Calling
  BY NowIsLater DEF WebInv, WebTypeOK, Calling
<1>3. /\ at'[c] = "waits" /\ call'[c] = does
      /\ \A d \in Clicks : d # c => Untouched(d) /\ since'[d] = since[d]
  BY <1>1, <1>2 DEF WebTypeOK, Untouched
<1>4. WebTypeOK'
  BY <1>1, <1>2 DEF WebTypeOK, Wheres
<1>5. Grows
  BY <1>1, <1>3, GrantedKept DEF Untouched, Granted
<1>6. \A d \in Clicks : d # c => CallOK(d)'
  BY <1>3, <1>5, CallKept DEF WebInv
<1>7. session # NoSession => session # c /\ Granted(session) /\ Granted(session)' /\ owner'[session] = owner[session]
  BY <1>1, <1>2, <1>5 DEF TabOK, Grows, Granted
<1>8. CallOK(c)'
  BY <1>1, <1>3, <1>7 DEF CallOK
<1>9. PostsOK'
  BY <1>1, <1>2 DEF PostsOK, IsPosted
<1>10. TabOK'
  <2>1. \A d \in store.drafts : d # c /\ d \in Clicks /\ d \in Pending /\ call[d].kind \in {"post", "refresh"}
    BY <1>1, <1>2 DEF TabOK, Pending
  <2>2. \A d \in store.drafts : (d \in Pending)' /\ call'[d].kind \in {"post", "refresh"}
    BY <1>3, <2>1 DEF Pending, Untouched
  <2>3. (c \in Pending)' /\ call'[c].kind = kind
    BY <1>3 DEF Pending
  <2>4. \A d \in store'.drafts : (d \in Pending)' /\ call'[d].kind \in {"post", "refresh"}
    BY <2>2, <2>3
  <2>. QED  BY <1>1, <1>2, <1>7, <2>4 DEF TabOK
<1>11. ASSUME inOrder' PROVE FollowsOK' /\ ShownOK'
  <2>1. FollowsOK /\ ShownOK
    BY <1>1, <1>11 DEF WebInv
  <2>2. \A d \in Clicks : /\ Fresh(d)' <=> Fresh(d)
                          /\ Fresh(d) => since'[d] = since[d] /\ (Covers(d) => Covers(d)')
    <3>1. ~Fresh(c) /\ ~Fresh(c)'
      BY <1>1, <1>3 DEF Fresh, Pending
    <3>2. \A d \in Clicks : d # c => (Fresh(d)' <=> Fresh(d)) /\ (Covers(d) => Covers(d)')
      BY <1>1, <1>3 DEF Fresh, Covers, Pending, Untouched
    <3>. QED  BY <1>3, <3>1, <3>2
  <2>3. ShownOK'
    BY <1>1, <1>7, <2>1, <2>2, ShownKept
  <2>4. \A d \in Clicks, m \in store.follows : Following(d, m) => Following(d, m)'
    BY <1>1, <1>3 DEF Following, Pending, Untouched
  <2>5. CASE store'.follows = store.follows
    BY <1>1, <1>7, <2>1, <2>3, <2>4, <2>5 DEF FollowsOK
  <2>6. CASE kind = "follow" /\ session # NoSession /\ store'.follows = store.follows \cup {about}
    <3>1. Following(c, about)'
      BY <1>1, <1>3, <2>6 DEF Following, Pending
    <3>. QED  BY <1>1, <1>7, <2>1, <2>3, <2>4, <2>6, <3>1 DEF FollowsOK
  <2>. QED  BY <2>3, <2>5, <2>6
<1>. QED  BY <1>4, <1>6, <1>8, <1>9, <1>10, <1>11 DEF WebInv

LEMMA ClicksInv ==
    ASSUME WebInv, NEW c \in Clicks, LogIn(c) \/ PublishPost(c) \/ Follow(c) \/ Request(c)
    PROVE  WebInv'
<1>1. store \in Stores
  BY DEF WebInv, WebTypeOK
<1>2. ASSUME LogIn(c) PROVE WebInv'
  <2>1. PICK m \in Members : Click(c, "login", m) /\ session = NoSession /\ store' = store
    BY <1>2 DEF LogIn
  <2>2. "login" \in Kinds \ {"none", "refresh"} /\ m \in Abouts
    BY DEF Kinds, Abouts
  <2>. QED  BY <1>1, <2>1, <2>2, ClickInv
<1>3. ASSUME PublishPost(c) PROVE WebInv'
  <2>1. PICK x \in Abouts : /\ Click(c, "post", x) /\ session # NoSession
                            /\ store' = [store EXCEPT !.drafts = @ \cup {c}]
    BY <1>3 DEF PublishPost, Abouts
  <2>2. /\ store' \in Stores /\ store'.profile = store.profile /\ store'.of = store.of
        /\ store'.feed = store.feed /\ store'.drafts = store.drafts \cup {c}
        /\ store'.follows = store.follows
    BY <1>1, <2>1 DEF Stores
  <2>3. "post" \in Kinds \ {"none", "refresh"}
    BY DEF Kinds
  <2>. QED  BY <2>1, <2>2, <2>3, ClickInv
<1>4. ASSUME Follow(c) PROVE WebInv'
  <2>1. PICK m \in Members : /\ Click(c, "follow", m) /\ session # NoSession
                             /\ store' = [store EXCEPT !.follows = @ \cup {m}]
    BY <1>4 DEF Follow
  <2>2. /\ store' \in Stores /\ store'.profile = store.profile /\ store'.of = store.of
        /\ store'.feed = store.feed /\ store'.drafts = store.drafts
        /\ store'.follows = store.follows \cup {m} /\ m \in Abouts
    BY <1>1, <2>1 DEF Stores, Abouts
  <2>3. "follow" \in Kinds \ {"none", "refresh"}
    BY DEF Kinds
  <2>. QED  BY <2>1, <2>2, <2>3, ClickInv
<1>5. ASSUME Request(c) PROVE WebInv'
  <2>1. PICK kind \in {"logout", "profile", "reply"} :
           Click(c, kind, Nobody) /\ session # NoSession /\ store' = store
    BY <1>5 DEF Request
  <2>2. kind \in Kinds \ {"none", "refresh"} /\ Nobody \in Abouts /\ kind # "login"
    BY DEF Kinds, Abouts
  <2>. QED  BY <1>1, <2>1, <2>2, ClickInv
<1>. QED  BY <1>2, <1>3, <1>4, <1>5

\* What serving a call leaves, if the answer says what has been done.
LEMMA ServedInv ==
    ASSUME WebInv, NEW c \in wire, NEW accepted \in BOOLEAN, Served(c, accepted),
           owner' \in [Clicks -> Accounts], posts' \subseteq Rows, got' \in [Clicks -> Lists],
           \A d \in Clicks : owner'[d] = owner[d] \/ (d = c /\ call[c].kind = "login"),
           posts \subseteq posts', followed \subseteq followed',
           \A d \in Clicks : d # c => got'[d] = got[d],
           \A p \in posts' : p.key = <<p.what.by, p.what.text>>,
           \A p, q \in posts' : p.key = q.key => p = q,
           accepted /\ call[c].kind = "post" => \E p \in posts' : p.what = What(c),
           accepted /\ call[c].kind = "follow" => <<Who(c), call[c].about>> \in followed',
           accepted /\ call[c].kind = "refresh" =>
             /\ \A m \in got'[c].follows : <<Who(c), m>> \in followed'
             /\ \A t \in told : \E p \in got'[c].feed : p.what = t
    PROVE  WebInv'
<1>1. /\ wire' = wire \ {c}
      /\ at' = IF at[c] # "waits" THEN at ELSE [at EXCEPT ![c] = IF accepted THEN "ok" ELSE "failed"]
      /\ call' = IF at[c] = "done" THEN [call EXCEPT ![c] = NoCall] ELSE call
      /\ UNCHANGED <<session, saved, store, told, since, inOrder>>
  BY DEF Served, tab, order
<1>2. /\ WebTypeOK /\ c \in Clicks /\ CallOK(c) /\ PostsOK /\ TabOK
      /\ NoCall \in Calling /\ NoCall.kind = "none"
  BY DEF WebInv, WebTypeOK, NoCall, Calling, Kinds, Abouts
<1>3. at[c] \in {"waits", "failed", "done"}
  BY <1>2 DEF WebTypeOK, Wheres, CallOK
<1>4. /\ \A d \in Clicks : d # c => Untouched(d)
      /\ at'[c] = IF at[c] # "waits" THEN at[c] ELSE IF accepted THEN "ok" ELSE "failed"
      /\ call'[c] = IF at[c] = "done" THEN NoCall ELSE call[c]
      /\ c \notin wire'
  BY <1>1, <1>2 DEF WebTypeOK, Untouched
<1>5. WebTypeOK'
  <2>1. at' \in [Clicks -> Wheres] /\ call' \in [Clicks -> Calling]
    BY <1>1, <1>2 DEF WebTypeOK, Wheres
  <2>. QED  BY <1>1, <1>2, <2>1 DEF WebTypeOK
<1>6. Grows
  <2>1. \A d \in Clicks : d # c => at'[d] = at[d] /\ call'[d] = call[d]
    BY <1>4 DEF Untouched
  <2>2. at'[c] # "idle" /\ (Granted(c) => call'[c].kind # "login")
    BY <1>2, <1>3, <1>4 DEF Granted
  <2>. QED  BY <1>2, <2>1, <2>2, GrantedKept
<1>7. \A d \in Clicks : d # c => CallOK(d)'
  BY <1>4, <1>6, CallKept DEF WebInv
<1>8. CallOK(c)'
  <2>1. CASE at[c] = "done"
    BY <1>2, <1>4, <2>1 DEF CallOK
  <2>2. CASE at[c] # "done"
    <3>1. /\ call'[c] = call[c] /\ at'[c] # "idle" /\ c \notin wire'
          /\ at'[c] = "ok" => accepted
      BY <1>3, <1>4, <2>2
    <3>2. call[c].kind \notin {"none", "login"} =>
            Granted(call[c].session)' /\ owner'[call[c].session] = owner[call[c].session]
      BY <1>2, <1>6, <3>1 DEF CallOK, Grows, Granted
    <3>3. call[c].kind \notin {"none", "login"} => (Who(c))' = Who(c) /\ (What(c))' = What(c)
      BY <3>1, <3>2 DEF Who, What
    <3>4. call[c].kind = "post" /\ at'[c] = "ok" => IsPosted(What(c))'
      BY <3>1, <3>3 DEF IsPosted
    <3>5. call[c].kind = "follow" /\ at'[c] = "ok" => (<<Who(c), call[c].about>> \in followed)'
      BY <3>1, <3>3
    <3>6. call[c].kind = "refresh" /\ at'[c] = "ok" => (\A m \in got[c].follows : <<Who(c), m>> \in followed)'
      BY <3>1, <3>3
    <3>. QED  BY <1>2, <3>1, <3>2, <3>4, <3>5, <3>6 DEF CallOK
  <2>. QED  BY <2>1, <2>2
<1>9. PostsOK'
  BY <1>1, <1>2 DEF PostsOK, IsPosted
<1>10. session # NoSession => Granted(session) /\ Granted(session)' /\ owner'[session] = owner[session]
  BY <1>1, <1>2, <1>6 DEF TabOK, Grows, Granted
<1>11. \A d \in Clicks : d \in Pending => (d \in Pending)' /\ call'[d] = call[d]
  BY <1>3, <1>4 DEF Pending, Untouched
<1>12. TabOK'
  <2>1. \A d \in store.drafts : d \in Clicks /\ d \in Pending /\ call[d].kind \in {"post", "refresh"}
    BY <1>2 DEF TabOK, Pending
  <2>. QED  BY <1>1, <1>2, <1>10, <1>11, <2>1 DEF TabOK
<1>13. ASSUME inOrder' PROVE FollowsOK' /\ ShownOK'
  <2>1. FollowsOK /\ ShownOK
    BY <1>1, <1>13 DEF WebInv
  <2>2. \A d \in Clicks : /\ Fresh(d)' <=> Fresh(d)
                          /\ Fresh(d) => since'[d] = since[d] /\ (Covers(d) => Covers(d)')
    <3>1. \A d \in Clicks : (d \in Pending)' <=> d \in Pending
      BY <1>3, <1>4 DEF Pending, Untouched
    <3>2. \A d \in Clicks : (Fresh(d)' <=> Fresh(d)) /\ since'[d] = since[d]
      BY <1>1, <1>11, <3>1 DEF Fresh
    <3>3. \A d \in Clicks : d # c /\ Covers(d) => Covers(d)'
      BY <1>1, <1>4 DEF Covers, Untouched
    <3>4. Fresh(c) => Covers(c)'
      BY <1>1, <1>3, <1>4 DEF Covers, Fresh
    <3>. QED  BY <3>2, <3>3, <3>4
  <2>3. ShownOK'
    BY <1>1, <1>10, <2>1, <2>2, ShownKept
  <2>4. \A d \in Clicks, m \in store'.follows : Following(d, m) => Following(d, m)'
    BY <1>1, <1>11 DEF Following
  <2>5. FollowsOK'
    BY <1>1, <1>10, <2>1, <2>4, FollowsKept
  <2>. QED  BY <2>3, <2>5
<1>. QED  BY <1>5, <1>7, <1>8, <1>9, <1>12, <1>13 DEF WebInv

LEMMA ServesInv ==
    ASSUME WebInv, NEW c \in Clicks,
           ServeLogin(c) \/ ServeLogout(c) \/ ServeOther(c) \/ ServeFollow(c)
    PROVE  WebInv'
<1>1. /\ owner \in [Clicks -> Accounts] /\ posts \subseteq Rows /\ got \in [Clicks -> Lists]
      /\ PostsOK /\ CallOK(c)
  BY DEF WebInv, WebTypeOK
<1>2. ASSUME ServeLogin(c) PROVE WebInv'
  <2>1. /\ c \in wire /\ call[c].kind = "login" /\ Served(c, TRUE)
        /\ owner' = [owner EXCEPT ![c] = call[c].about] /\ UNCHANGED <<got, posts, followed>>
    BY <1>2 DEF ServeLogin, Arrives
  <2>2. owner' \in [Clicks -> Accounts]
    BY <1>1, <2>1 DEF CallOK, Accounts
  <2>. QED  BY <1>1, <2>1, <2>2, ServedInv DEF PostsOK
<1>3. ASSUME ServeLogout(c) PROVE WebInv'
  <2>1. /\ c \in wire /\ call[c].kind = "logout" /\ Served(c, Alive(c)) /\ Alive(c) \in BOOLEAN
        /\ UNCHANGED <<got, posts, followed, owner>>
    BY <1>3 DEF ServeLogout, Arrives, Alive
  <2>. QED  BY <1>1, <2>1, ServedInv DEF PostsOK
<1>4. ASSUME ServeOther(c) PROVE WebInv'
  <2>1. /\ c \in wire /\ call[c].kind \in {"profile", "reply"} /\ Served(c, Alive(c))
        /\ Alive(c) \in BOOLEAN /\ UNCHANGED <<got, posts, followed, owner>>
    BY <1>4 DEF ServeOther, Arrives, Alive, server
  <2>. QED  BY <1>1, <2>1, ServedInv DEF PostsOK
<1>5. ASSUME ServeFollow(c) PROVE WebInv'
  <2> DEFINE fits == Alive(c) /\ Who(c) # call[c].about
             link == <<Who(c), call[c].about>>
  <2>1. /\ c \in wire /\ call[c].kind = "follow"
        /\ \E accepted \in IF fits /\ link \in followed THEN BOOLEAN ELSE {fits} : Served(c, accepted)
        /\ followed' = IF fits THEN followed \cup {link} ELSE followed
        /\ UNCHANGED <<got, posts, owner>>
    BY <1>5 DEF ServeFollow, Arrives
  <2>2. PICK accepted \in BOOLEAN : Served(c, accepted) /\ (accepted => fits)
    BY <2>1
  <2>3. accepted => <<Who(c), call[c].about>> \in followed'
    BY <2>1, <2>2
  <2>4. followed \subseteq followed'
    BY <2>1
  <2>. QED  BY <1>1, <2>1, <2>2, <2>3, <2>4, ServedInv DEF PostsOK
<1>. QED  BY <1>2, <1>3, <1>4, <1>5

LEMMA ServePostInv == ASSUME WebInv, NEW c \in Clicks, ServePost(c) PROVE WebInv'
<1> DEFINE fits == Alive(c) /\ call[c].about \in Keyable
           known == \E p \in posts : p.key = Key(c)
           row == [id |-> c, key |-> Key(c), what |-> What(c)]
<1>1. /\ owner \in [Clicks -> Accounts] /\ posts \subseteq Rows /\ got \in [Clicks -> Lists]
      /\ PostsOK /\ call[c] \in Calling /\ CallOK(c)
  BY DEF WebInv, WebTypeOK
<1>2. /\ c \in wire /\ call[c].kind = "post" /\ UNCHANGED <<got, followed, owner>>
      /\ \E accepted \in IF fits /\ known THEN BOOLEAN ELSE {fits} : Served(c, accepted)
      /\ posts' = IF fits /\ ~known THEN posts \cup {row} ELSE posts
  BY DEF ServePost, Arrives
<1>3. PICK accepted \in BOOLEAN : Served(c, accepted) /\ (accepted => fits)
  BY <1>2
<1>4. Who(c) \in Accounts
  BY <1>1, <1>2 DEF CallOK, Granted, Who
<1>5. /\ Key(c) = <<Who(c), call[c].about>> /\ What(c) = [by |-> Who(c), text |-> call[c].about]
      /\ row \in Rows /\ row.key = <<row.what.by, row.what.text>>
  BY <1>1, <1>4 DEF Key, What, Rows, Calling
<1>6. \A p \in posts : p.key = Key(c) => p.what = What(c)
  <2> SUFFICES ASSUME NEW p \in posts, p.key = Key(c) PROVE p.what = What(c)
    OBVIOUS
  <2>1. p.what \in [by : Accounts, text : Abouts] /\ <<p.what.by, p.what.text>> = Key(c)
    BY <1>1 DEF PostsOK, Rows
  <2>. QED  BY <1>5, <2>1
<1>7. /\ posts' \subseteq Rows /\ posts \subseteq posts'
      /\ \A p \in posts' : p.key = <<p.what.by, p.what.text>>
  BY <1>1, <1>2, <1>5 DEF PostsOK
<1>8. \A p, q \in posts' : p.key = q.key => p = q
  BY <1>1, <1>2, <1>5 DEF PostsOK
<1>9. accepted => \E p \in posts' : p.what = What(c)
  <2>1. CASE known
    BY <1>6, <1>7, <2>1
  <2>2. CASE ~known /\ accepted
    <3>1. row \in posts' /\ row.what = What(c)
      BY <1>2, <1>3, <2>2
    <3>. QED  BY <3>1
  <2>. QED  BY <2>1, <2>2
<1>. QED  BY <1>1, <1>2, <1>3, <1>7, <1>8, <1>9, ServedInv

LEMMA ServeRefreshInv == ASSUME WebInv, NEW c \in Clicks, ServeRefresh(c) PROVE WebInv'
<1> DEFINE lists == [feed |-> posts, follows |-> {m \in Members : <<Who(c), m>> \in followed}]
<1>1. /\ owner \in [Clicks -> Accounts] /\ posts \subseteq Rows /\ got \in [Clicks -> Lists]
      /\ PostsOK /\ lists \in Lists
  BY DEF WebInv, WebTypeOK, Lists
<1>2. /\ c \in wire /\ call[c].kind = "refresh" /\ Served(c, Alive(c)) /\ Alive(c) \in BOOLEAN
      /\ got' = IF ~Alive(c) THEN got ELSE [got EXCEPT ![c] = lists]
      /\ UNCHANGED <<owner, posts, followed>>
  BY DEF ServeRefresh, Arrives, Alive, server
<1>3. /\ got' \in [Clicks -> Lists] /\ \A d \in Clicks : d # c => got'[d] = got[d]
      /\ Alive(c) => got'[c] = lists
  BY <1>1, <1>2
<1>4. Alive(c) => /\ \A m \in got'[c].follows : <<Who(c), m>> \in followed'
                  /\ \A t \in told : \E p \in got'[c].feed : p.what = t
  BY <1>1, <1>2, <1>3 DEF PostsOK, IsPosted
<1>. QED  BY <1>1, <1>2, <1>3, <1>4, ServedInv DEF PostsOK

\* What a call that is closed leaves of the calls.
LEMMA ClosedCalls ==
    ASSUME WebInv, NEW c \in Clicks, at[c] \in {"ok", "failed"}, NEW overtaken, Close(c, overtaken),
           UNCHANGED server
    PROVE  /\ at' \in [Clicks -> Wheres] /\ call' \in [Clicks -> Calling] /\ got' \in [Clicks -> Lists]
           /\ since' \in [Clicks -> Nat] /\ UNCHANGED <<wire, owner, dead, posts, followed>>
           /\ \A d \in Clicks : d # c => Untouched(d)
           /\ \A d \in Clicks : since'[d] = IF d = c \/ d \in overtaken THEN 0 ELSE since[d]
           /\ at'[c] = "done" /\ Grows /\ \A d \in Clicks : CallOK(d)'
<1>1. /\ since' = [d \in Clicks |-> IF d = c \/ d \in overtaken THEN 0 ELSE since[d]]
      /\ at' = [at EXCEPT ![c] = "done"] /\ got' = [got EXCEPT ![c] = NoLists]
      /\ call' = IF c \in wire THEN call ELSE [call EXCEPT ![c] = NoCall]
      /\ UNCHANGED <<wire, owner, dead, posts, followed>>
  BY DEF Close, server
<1>2. /\ WebTypeOK /\ CallOK(c) /\ NoCall \in Calling /\ NoCall.kind = "none" /\ NoLists \in Lists
  BY DEF WebInv, NoCall, Calling, Kinds, Abouts, NoLists, Lists
<1>3. /\ at' \in [Clicks -> Wheres] /\ call' \in [Clicks -> Calling] /\ got' \in [Clicks -> Lists]
      /\ since' \in [Clicks -> Nat]
  BY <1>1, <1>2 DEF WebTypeOK, Wheres
<1>4. /\ \A d \in Clicks : d # c => Untouched(d)
      /\ at'[c] = "done" /\ call'[c] \in {call[c], NoCall}
      /\ \A d \in Clicks : since'[d] = IF d = c \/ d \in overtaken THEN 0 ELSE since[d]
  BY <1>1, <1>2 DEF WebTypeOK, Untouched
<1>5. Grows
  <2>1. \A d \in Clicks : d # c => at'[d] = at[d] /\ call'[d] = call[d]
    BY <1>4 DEF Untouched
  <2>2. at'[c] # "idle" /\ (Granted(c) => call'[c].kind # "login")
    BY <1>2, <1>4 DEF Granted
  <2>. QED  BY <1>1, <2>1, <2>2, GrantedKept
<1>6. \A d \in Clicks : d # c => CallOK(d)'
  BY <1>4, <1>5, CallKept DEF WebInv
<1>7. CallOK(c)'
  <2>1. CASE call'[c] = NoCall
    BY <1>2, <1>4, <2>1 DEF CallOK
  <2>2. CASE call'[c] = call[c]
    <3>1. call[c].kind \notin {"none", "login"} => Granted(call[c].session)'
      BY <1>2, <1>5, <2>2 DEF CallOK, Grows, Granted
    <3>. QED  BY <1>2, <1>4, <2>2, <3>1 DEF CallOK
  <2>. QED  BY <1>4, <2>1, <2>2
<1>. QED  BY <1>1, <1>3, <1>4, <1>5, <1>6, <1>7

\* A call other than a refresh ends.
LEMMA CloseInv ==
    ASSUME WebInv, NEW c \in Clicks, NEW answer \in {"ok", "failed"}, Return(c, answer), Close(c, {}),
           UNCHANGED <<session, saved, told>>, call[c].kind # "refresh",
           store' \in Stores, store'.feed = store.feed, store'.of = store.of,
           store'.profile = store.profile \/ (call[c].kind = "profile" /\ store'.profile = Who(c)),
           store'.drafts \subseteq store.drafts, call[c].kind = "post" => c \notin store'.drafts,
           store'.follows \subseteq store.follows,
           call[c].kind = "follow" /\ answer = "failed" => call[c].about \notin store'.follows
    PROVE  WebInv'
<1>1. /\ at[c] = answer /\ inOrder' = (inOrder /\ since[c] # 0 /\ call[c].session = session)
      /\ UNCHANGED server
  BY DEF Return
<1>2. /\ WebTypeOK /\ CallOK(c) /\ PostsOK /\ TabOK
  BY DEF WebInv
<1>3. /\ at' \in [Clicks -> Wheres] /\ call' \in [Clicks -> Calling] /\ got' \in [Clicks -> Lists]
      /\ since' \in [Clicks -> Nat] /\ UNCHANGED <<wire, owner, dead, posts, followed>>
      /\ \A d \in Clicks : d # c => Untouched(d) /\ since'[d] = since[d]
      /\ at'[c] = "done" /\ Grows /\ \A d \in Clicks : CallOK(d)'
  BY <1>1, ClosedCalls
<1>4. WebTypeOK'
  BY <1>1, <1>2, <1>3 DEF WebTypeOK
<1>5. PostsOK'
  BY <1>2, <1>3 DEF PostsOK, IsPosted
<1>6. session # NoSession => Granted(session) /\ Granted(session)' /\ owner'[session] = owner[session]
  BY <1>2, <1>3 DEF TabOK, Grows, Granted
<1>7. TabOK'
  <2>1. \A d \in store'.drafts : /\ d \in Clicks /\ d # c /\ d \in Pending
                                 /\ call[d].kind \in {"post", "refresh"}
    BY <1>2 DEF TabOK, Pending
  <2>2. \A d \in store'.drafts : (d \in Pending)' /\ call'[d].kind \in {"post", "refresh"}
    BY <1>3, <2>1 DEF Untouched, Pending
  <2>. QED  BY <1>2, <1>6, <2>2 DEF TabOK
<1>8. ASSUME inOrder' PROVE FollowsOK' /\ ShownOK'
  <2>1. FollowsOK /\ ShownOK /\ call[c].session = session
    BY <1>1, <1>8 DEF WebInv
  <2>2. \A d \in Clicks : /\ Fresh(d)' <=> Fresh(d)
                          /\ Fresh(d) => since'[d] = since[d] /\ (Covers(d) => Covers(d)')
    <3>1. ~Fresh(c) /\ ~Fresh(c)'
      BY <1>3 DEF Fresh, Pending
    <3>2. \A d \in Clicks : d # c => (Fresh(d)' <=> Fresh(d)) /\ (Covers(d) => Covers(d)')
      BY <1>3 DEF Fresh, Covers, Pending, Untouched
    <3>. QED  BY <1>3, <3>1, <3>2
  <2>3. ShownOK'
    BY <1>6, <2>1, <2>2, ShownKept DEF Who
  <2>4. \A d \in Clicks, m \in store'.follows :
           Following(d, m) => Following(d, m)' \/ <<owner[session], m>> \in followed'
    <3> SUFFICES ASSUME NEW d \in Clicks, NEW m \in store'.follows, Following(d, m)
                 PROVE  Following(d, m)' \/ <<owner[session], m>> \in followed'
      OBVIOUS
    <3>1. CASE d = c
      <4>1. call[c].kind = "follow" /\ call[c].about = m /\ at[c] = "ok"
        BY <1>1, <3>1 DEF Following
      <4>. QED  BY <1>2, <1>3, <2>1, <4>1 DEF CallOK, Who
    <3>2. CASE d # c
      BY <1>3, <3>2 DEF Following, Pending, Untouched
    <3>. QED  BY <3>1, <3>2
  <2>5. FollowsOK'
    BY <1>3, <1>6, <2>1, <2>4, FollowsKept
  <2>. QED  BY <2>3, <2>5
<1>. QED  BY <1>3, <1>4, <1>5, <1>7, <1>8 DEF WebInv

\* The tab is left without a session.
LEMMA ForgetInv ==
    ASSUME WebInv, NEW c \in Clicks, NEW answer \in {"ok", "failed"}, Return(c, answer),
           NEW overtaken, Close(c, overtaken), told' = told, Forget
    PROVE  WebInv'
<1>1. at[c] = answer /\ UNCHANGED server /\ inOrder' \in BOOLEAN
  BY DEF Return, WebInv, WebTypeOK
<1>2. /\ WebTypeOK /\ CallOK(c) /\ PostsOK /\ TabOK /\ Blank \in Stores
      /\ Blank.drafts = {} /\ Blank.follows = {}
  BY DEF WebInv, Blank, Stores, Accounts
<1>3. /\ at' \in [Clicks -> Wheres] /\ call' \in [Clicks -> Calling] /\ got' \in [Clicks -> Lists]
      /\ since' \in [Clicks -> Nat] /\ UNCHANGED <<wire, owner, dead, posts, followed>>
      /\ \A d \in Clicks : CallOK(d)'
  BY <1>1, ClosedCalls
<1>4. session' = NoSession /\ saved' = NoSession /\ store' = Blank
  BY DEF Forget
<1>5. WebTypeOK'
  BY <1>1, <1>2, <1>3, <1>4 DEF WebTypeOK
<1>6. PostsOK' /\ TabOK' /\ FollowsOK' /\ ShownOK'
  BY <1>2, <1>3, <1>4 DEF PostsOK, IsPosted, TabOK, FollowsOK, ShownOK
<1>. QED  BY <1>3, <1>5, <1>6 DEF WebInv

\* A call goes on with a refresh.
LEMMA SentInv ==
    ASSUME WebInv, NEW c \in Clicks, Return(c, "ok"), NEW s \in Clicks, Refresh(c, s), UNCHANGED store,
           call[c].kind \in {"login", "post", "reply"},
           IF call[c].kind = "login" THEN s = c /\ session' = c /\ saved' = c
           ELSE s = call[c].session /\ UNCHANGED <<session, saved>>,
           \A t \in told' : IsPosted(t)
    PROVE  WebInv'
<1> DEFINE does == [call[c] EXCEPT !.kind = "refresh", !.session = s]
<1>1. /\ at[c] = "ok" /\ inOrder' = (inOrder /\ since[c] # 0 /\ call[c].session = session)
      /\ call' = [call EXCEPT ![c] = does] /\ at' = [at EXCEPT ![c] = "waits"]
      /\ wire' = wire \cup {c} /\ since' = [since EXCEPT ![c] = Now]
      /\ UNCHANGED <<store, got, owner, dead, posts, followed>>
  BY DEF Return, Refresh, Send, server
<1>2. /\ WebTypeOK /\ CallOK(c) /\ PostsOK /\ TabOK /\ Now \in Nat \ {0}
      /\ \A d \in Clicks : since[d] < Now
  BY NowIsLater DEF WebInv
<1>3. does \in Calling /\ does.kind = "refresh" /\ does.session = s
  BY <1>2 DEF WebTypeOK, Calling, Kinds
<1>4. /\ at'[c] = "waits" /\ call'[c] = does /\ since'[c] = Now
      /\ \A d \in Clicks : d # c => Untouched(d) /\ since'[d] = since[d]
  BY <1>1, <1>2 DEF WebTypeOK, Untouched
<1>5. session' \in Clicks \cup {NoSession} /\ saved' \in Clicks \cup {NoSession}
  BY <1>2 DEF WebTypeOK
<1>6. WebTypeOK'
  BY <1>1, <1>2, <1>3, <1>5 DEF WebTypeOK, Wheres
<1>7. Grows
  BY <1>1, <1>3, <1>4, GrantedKept DEF Untouched
<1>8. \A d \in Clicks : d # c => CallOK(d)'
  BY <1>4, <1>7, CallKept DEF WebInv
<1>9. at'[s] # "idle" /\ call'[s].kind # "login"
  <2>1. CASE s = c
    BY <1>3, <1>4, <2>1
  <2>2. CASE s # c
    BY <1>2, <1>4, <2>2 DEF CallOK, Granted, Untouched
  <2>. QED  BY <2>1, <2>2
<1>10. CallOK(c)'
  BY <1>3, <1>4, <1>9 DEF CallOK, Granted
<1>11. PostsOK'
  BY <1>1, <1>2 DEF PostsOK, IsPosted
<1>12. session' # NoSession => Granted(session)'
  BY <1>2, <1>7, <1>9 DEF TabOK, Grows, Granted
<1>13. TabOK'
  <2>1. \A d \in store.drafts : d \in Clicks /\ d \in Pending /\ call[d].kind \in {"post", "refresh"}
    BY <1>2 DEF TabOK, Pending
  <2>2. \A d \in store.drafts : (d \in Pending)' /\ call'[d].kind \in {"post", "refresh"}
    BY <1>3, <1>4, <2>1 DEF Untouched, Pending
  <2>. QED  BY <1>1, <1>2, <1>12, <2>2 DEF TabOK
<1>14. ASSUME inOrder' PROVE FollowsOK' /\ ShownOK'
  <2>1. FollowsOK /\ call[c].session = session /\ session' = s
    BY <1>1, <1>14 DEF WebInv
  <2>2. Fresh(c)'
    BY <1>2, <1>3, <1>4, <2>1 DEF Fresh, Pending
  <2>3. \A d \in Clicks : d # c /\ Fresh(d)' => since'[d] < since'[c]
    BY <1>2, <1>4
  <2>4. ShownOK'
    BY <1>4, <2>2, <2>3, ShownSent
  <2>5. CASE call[c].kind = "login"
    BY <1>1, <1>2, <2>1, <2>4, <2>5 DEF CallOK, FollowsOK
  <2>6. CASE call[c].kind # "login"
    <3>1. session' = session /\ (session # NoSession => owner'[session] = owner[session])
      BY <1>1, <2>6
    <3>2. \A d \in Clicks, m \in store'.follows : Following(d, m) => Following(d, m)'
      BY <1>4, <3>1 DEF Following, Pending, Untouched
    <3>. QED  BY <1>1, <2>1, <2>4, <3>1, <3>2, FollowsKept
  <2>. QED  BY <2>5, <2>6
<1>. QED  BY <1>6, <1>8, <1>10, <1>11, <1>13, <1>14 DEF WebInv

\* A refresh replaces what is shown.
LEMMA RefreshedInv ==
    ASSUME WebInv, NEW c \in Clicks, call[c].kind = "refresh", Return(c, "ok"),
           store' = Refreshed(c), UNCHANGED <<session, saved, told>>,
           Close(c, {d \in Pending : since[d] < since[c]})
    PROVE  WebInv'
<1>1. /\ at[c] = "ok" /\ inOrder' = (inOrder /\ since[c] # 0 /\ call[c].session = session)
      /\ UNCHANGED server
  BY DEF Return
<1>2. /\ WebTypeOK /\ CallOK(c) /\ PostsOK /\ TabOK
  BY DEF WebInv
<1>3. /\ at' \in [Clicks -> Wheres] /\ call' \in [Clicks -> Calling] /\ got' \in [Clicks -> Lists]
      /\ since' \in [Clicks -> Nat] /\ UNCHANGED <<wire, owner, dead, posts, followed>>
      /\ \A d \in Clicks : d # c => Untouched(d)
      /\ \A d \in Clicks : since'[d] = IF d = c \/ d \in {e \in Pending : since[e] < since[c]}
                                       THEN 0 ELSE since[d]
      /\ at'[c] = "done" /\ Grows /\ \A d \in Clicks : CallOK(d)'
  <2> DEFINE O == {e \in Pending : since[e] < since[c]}
  <2>1. Close(c, O)
    OBVIOUS
  <2> HIDE DEF O
  <2>2. /\ at' \in [Clicks -> Wheres] /\ call' \in [Clicks -> Calling] /\ got' \in [Clicks -> Lists]
        /\ since' \in [Clicks -> Nat] /\ UNCHANGED <<wire, owner, dead, posts, followed>>
        /\ \A d \in Clicks : d # c => Untouched(d)
        /\ \A d \in Clicks : since'[d] = IF d = c \/ d \in O THEN 0 ELSE since[d]
        /\ at'[c] = "done" /\ Grows /\ \A d \in Clicks : CallOK(d)'
    BY <1>1, <2>1, ClosedCalls
  <2>. QED  BY <2>2 DEF O
<1>4. Granted(call[c].session) /\ Who(c) \in Accounts /\ got[c] \in Lists
  BY <1>2 DEF CallOK, Granted, WebTypeOK, Who
<1>5. /\ store' \in Stores /\ store'.drafts = {} /\ store'.follows = got[c].follows
      /\ store'.feed = got[c].feed /\ store'.profile = Who(c) /\ store'.of = Who(c)
  BY <1>4 DEF Refreshed, Stores, Lists
<1>6. WebTypeOK'
  BY <1>1, <1>2, <1>3, <1>5 DEF WebTypeOK
<1>7. PostsOK'
  BY <1>2, <1>3 DEF PostsOK, IsPosted
<1>8. session # NoSession => Granted(session)'
  BY <1>2, <1>3 DEF TabOK, Grows, Granted
<1>9. TabOK'
  BY <1>2, <1>5, <1>8 DEF TabOK
<1>10. ASSUME inOrder' PROVE FollowsOK' /\ ShownOK'
  <2>1. ShownOK /\ call[c].session = session /\ Fresh(c) /\ Who(c) = owner[session]
        /\ session # NoSession
    BY <1>1, <1>4, <1>10, ClicksAreNumbers DEF WebInv, Fresh, Pending, Who, Granted
  <2>2. FollowsOK'
    BY <1>1, <1>2, <1>3, <1>5, <2>1 DEF FollowsOK, CallOK
  <2>3. \A d \in Clicks : Fresh(d)' => /\ d # c /\ Fresh(d) /\ since'[d] = since[d] /\ since[d] >= since[c]
                                       /\ (Covers(d) => Covers(d)')
    <3> SUFFICES ASSUME NEW d \in Clicks, Fresh(d)'
                 PROVE  /\ d # c /\ Fresh(d) /\ since'[d] = since[d] /\ since[d] >= since[c]
                        /\ (Covers(d) => Covers(d)')
      OBVIOUS
    <3>1. d # c /\ since'[d] # 0
      BY <1>3 DEF Fresh, Pending
    <3>2. Untouched(d) /\ d \in Pending
      BY <1>3, <3>1 DEF Untouched, Fresh, Pending
    <3>3. since'[d] = since[d] /\ ~(since[d] < since[c])
      BY <1>3, <3>1, <3>2
    <3>. QED  BY <1>2, <3>1, <3>2, <3>3 DEF Untouched, Fresh, Covers, WebTypeOK
  <2>4. \A d \in Clicks : d # c /\ Fresh(d) /\ since[d] >= since[c] /\ Covers(d) => Fresh(d)' /\ Covers(d)'
                                                                          /\ since'[d] = since[d]
    <3> SUFFICES ASSUME NEW d \in Clicks, d # c, Fresh(d), since[d] >= since[c], Covers(d)
                 PROVE  Fresh(d)' /\ Covers(d)' /\ since'[d] = since[d]
      OBVIOUS
    <3>1. Untouched(d) /\ ~(since[d] < since[c])
      BY <1>2, <1>3 DEF WebTypeOK
    <3>2. since'[d] = since[d]
      BY <1>3, <3>1
    <3>. QED  BY <3>1, <3>2 DEF Untouched, Fresh, Covers, Pending
  <2>5. \/ \A t \in told' : \E p \in store'.feed : p.what = t
        \/ \E d \in Clicks : Fresh(d)' /\ Covers(d)'
    <3>1. CASE Covers(c)
      BY <1>1, <1>5, <3>1 DEF Covers
    <3>2. CASE ~Covers(c)
      <4>1. PICK d \in Clicks : Fresh(d) /\ since[d] > since[c] /\ Covers(d)
        BY <2>1, <3>2 DEF ShownOK
      <4>2. since[d] >= since[c] /\ d # c
        BY <1>2, <4>1 DEF WebTypeOK
      <4>. QED  BY <2>4, <4>1, <4>2
    <3>. QED  BY <3>1, <3>2
  <2>6. \A d \in Clicks : Fresh(d)' =>
           Covers(d)' \/ \E e \in Clicks : Fresh(e)' /\ since'[e] > since'[d] /\ Covers(e)'
    <3> SUFFICES ASSUME NEW d \in Clicks, Fresh(d)', ~Covers(d)'
                 PROVE  \E e \in Clicks : Fresh(e)' /\ since'[e] > since'[d] /\ Covers(e)'
      OBVIOUS
    <3>1. PICK e \in Clicks : Fresh(e) /\ since[e] > since[d] /\ Covers(e)
      BY <2>1, <2>3 DEF ShownOK
    <3>2. since[e] >= since[c] /\ e # c
      BY <1>2, <2>3, <3>1 DEF WebTypeOK
    <3>. QED  BY <2>3, <2>4, <3>1, <3>2
  <2>7. store'.profile = owner'[session'] /\ store'.of = owner'[session']
    BY <1>3, <1>5, <2>1
  <2>. QED  BY <2>2, <2>5, <2>6, <2>7 DEF ShownOK
<1>. QED  BY <1>3, <1>6, <1>7, <1>9, <1>10 DEF WebInv

LEMMA ReturnsInv ==
    ASSUME WebInv, NEW c \in Clicks,
           \/ LoginReturns(c) \/ LogoutReturns(c) \/ PostReturns(c) \/ FollowReturns(c)
           \/ ProfileReturns(c) \/ ReplyReturns(c) \/ RefreshReturns(c)
    PROVE  WebInv'
<1>1. WebTypeOK /\ CallOK(c) /\ PostsOK /\ store \in Stores
  BY DEF WebInv, WebTypeOK
<1>2. ASSUME LoginReturns(c) PROVE WebInv'
  <2>1. call[c].kind = "login" /\ told' = told
    BY <1>2 DEF LoginReturns
  <2>2. ASSUME Return(c, "ok"), saved' = c, session' = c, Refresh(c, c), store' = store PROVE WebInv'
    BY <1>1, <2>1, <2>2, SentInv DEF PostsOK
  <2>3. ASSUME Return(c, "failed"), Close(c, {}), UNCHANGED <<session, saved, store>> PROVE WebInv'
    BY <1>1, <2>1, <2>3, CloseInv
  <2>. QED  BY <1>2, <2>2, <2>3 DEF LoginReturns
<1>3. ASSUME LogoutReturns(c) PROVE WebInv'
  <2>1. PICK answer \in {"ok", "failed"} : Return(c, answer)
    BY <1>3 DEF LogoutReturns
  <2>2. Forget /\ Close(c, {}) /\ told' = told
    BY <1>3 DEF LogoutReturns
  <2>. QED  BY <2>1, <2>2, ForgetInv
<1>4. ASSUME PostReturns(c) PROVE WebInv'
  <2>1. call[c].kind = "post" /\ UNCHANGED <<session, saved>>
    BY <1>4 DEF PostReturns
  <2>2. ASSUME Return(c, "ok"), told' = told \cup {What(c)}, Refresh(c, call[c].session), store' = store
        PROVE  WebInv'
    <3>1. call[c].session \in Clicks /\ IsPosted(What(c))
      BY <1>1, <2>1, <2>2 DEF CallOK, Granted, Return
    <3>2. \A t \in told' : IsPosted(t)
      BY <1>1, <2>2, <3>1 DEF PostsOK
    <3>. QED  BY <2>1, <2>2, <3>1, <3>2, SentInv
  <2>3. ASSUME Return(c, "failed"), store' = [store EXCEPT !.drafts = @ \ {c}], Close(c, {}), told' = told
        PROVE  WebInv'
    <3>1. /\ store' \in Stores /\ store'.feed = store.feed /\ store'.of = store.of
          /\ store'.profile = store.profile /\ store'.drafts = store.drafts \ {c}
          /\ store'.follows = store.follows
      BY <1>1, <2>3 DEF Stores
    <3>. QED  BY <2>1, <2>3, <3>1, CloseInv
  <2>. QED  BY <1>4, <2>2, <2>3 DEF PostReturns
<1>5. ASSUME FollowReturns(c) PROVE WebInv'
  <2>1. call[c].kind = "follow" /\ Close(c, {}) /\ UNCHANGED <<session, saved, told>>
    BY <1>5 DEF FollowReturns
  <2>2. ASSUME Return(c, "ok"), store' = store PROVE WebInv'
    BY <1>1, <2>1, <2>2, CloseInv
  <2>3. ASSUME Return(c, "failed"), store' = [store EXCEPT !.follows = @ \ {call[c].about}] PROVE WebInv'
    <3>1. /\ store' \in Stores /\ store'.feed = store.feed /\ store'.of = store.of
          /\ store'.profile = store.profile /\ store'.drafts = store.drafts
          /\ store'.follows = store.follows \ {call[c].about}
      BY <1>1, <2>3 DEF Stores
    <3>. QED  BY <2>1, <2>3, <3>1, CloseInv
  <2>. QED  BY <1>5, <2>2, <2>3 DEF FollowReturns
<1>6. ASSUME ProfileReturns(c) PROVE WebInv'
  <2>1. call[c].kind = "profile" /\ Close(c, {}) /\ UNCHANGED <<session, saved, told>>
    BY <1>6 DEF ProfileReturns
  <2>2. ASSUME Return(c, "ok"), store' = [store EXCEPT !.profile = Who(c)] PROVE WebInv'
    <3>1. Who(c) \in Accounts
      BY <1>1, <2>1 DEF CallOK, Granted, WebTypeOK, Who
    <3>2. /\ store' \in Stores /\ store'.feed = store.feed /\ store'.of = store.of
          /\ store'.profile = Who(c) /\ store'.drafts = store.drafts /\ store'.follows = store.follows
      BY <1>1, <2>2, <3>1 DEF Stores
    <3>. QED  BY <2>1, <2>2, <3>2, CloseInv
  <2>3. ASSUME Return(c, "failed"), store' = store PROVE WebInv'
    BY <1>1, <2>1, <2>3, CloseInv
  <2>. QED  BY <1>6, <2>2, <2>3 DEF ProfileReturns
<1>7. ASSUME ReplyReturns(c) PROVE WebInv'
  <2>1. call[c].kind = "reply" /\ UNCHANGED <<session, saved, store, told>>
    BY <1>7 DEF ReplyReturns
  <2>2. ASSUME Return(c, "ok"), Refresh(c, call[c].session) PROVE WebInv'
    <3>1. call[c].session \in Clicks
      BY <1>1, <2>1 DEF CallOK, Granted
    <3>. QED  BY <1>1, <2>1, <2>2, <3>1, SentInv DEF PostsOK
  <2>3. ASSUME Return(c, "failed"), Close(c, {}) PROVE WebInv'
    BY <1>1, <2>1, <2>3, CloseInv
  <2>. QED  BY <1>7, <2>2, <2>3 DEF ReplyReturns
<1>8. ASSUME RefreshReturns(c) PROVE WebInv'
  <2> DEFINE O == {d \in Pending : since[d] < since[c]}
  <2>1. call[c].kind = "refresh" /\ Close(c, O) /\ told' = told
    BY <1>8 DEF RefreshReturns
  <2>2. ASSUME Return(c, "ok"), store' = Refreshed(c), UNCHANGED <<session, saved>> PROVE WebInv'
    BY <2>1, <2>2, RefreshedInv
  <2>3. ASSUME Return(c, "failed"), Forget PROVE WebInv'
    <3> HIDE DEF O
    <3>. QED  BY <2>1, <2>3, ForgetInv
  <2>. QED  BY <1>8, <2>2, <2>3 DEF RefreshReturns
<1>. QED  BY <1>2, <1>3, <1>4, <1>5, <1>6, <1>7, <1>8

LEMMA LoseAnswerInv == ASSUME WebInv, NEW c \in Clicks, LoseAnswer(c) PROVE WebInv'
<1>1. /\ at[c] \in {"waits", "ok"} /\ at' = [at EXCEPT ![c] = "failed"]
      /\ wire' \in {wire, wire \ {c}}
      /\ UNCHANGED <<session, saved, store, told, call, got, owner, posts, followed, since, inOrder>>
  BY DEF LoseAnswer, tab, server, order
<1>2. WebTypeOK /\ CallOK(c) /\ PostsOK /\ TabOK
  BY DEF WebInv
<1>3. at'[c] = "failed" /\ \A d \in Clicks : d # c => Untouched(d)
  BY <1>1, <1>2 DEF WebTypeOK, Untouched
<1>4. WebTypeOK'
  BY <1>1, <1>2 DEF WebTypeOK, Wheres
<1>5. Grows
  BY <1>1, <1>3 DEF Grows, Granted, Untouched
<1>6. \A d \in Clicks : d # c => CallOK(d)'
  BY <1>3, <1>5, CallKept DEF WebInv
<1>7. CallOK(c)'
  <2>1. call[c].kind \notin {"none", "login"} => Granted(call[c].session)'
    BY <1>1, <1>2, <1>5 DEF CallOK, Grows, Granted
  <2>. QED  BY <1>1, <1>2, <1>3, <2>1 DEF CallOK
<1>8. \A d \in Clicks : (d \in Pending)' <=> d \in Pending
  BY <1>1, <1>3 DEF Pending, Untouched
<1>9. PostsOK' /\ (session # NoSession => Granted(session)')
  BY <1>1, <1>2, <1>5 DEF PostsOK, IsPosted, TabOK, Grows, Granted
<1>10. TabOK'
  <2>1. \A d \in store.drafts : d \in Clicks /\ d \in Pending /\ call[d].kind \in {"post", "refresh"}
    BY <1>2 DEF TabOK, Pending
  <2>. QED  BY <1>1, <1>2, <1>8, <1>9, <2>1 DEF TabOK
<1>11. ASSUME inOrder' PROVE FollowsOK' /\ ShownOK'
  <2>1. FollowsOK /\ ShownOK
    BY <1>1, <1>11 DEF WebInv
  <2>2. \A d \in Clicks : /\ Fresh(d)' <=> Fresh(d)
                          /\ Fresh(d) => since'[d] = since[d] /\ (Covers(d) => Covers(d)')
    BY <1>1, <1>3, <1>8 DEF Fresh, Covers, Untouched
  <2>3. \A d \in Clicks, m \in store'.follows : Following(d, m) => Following(d, m)'
    BY <1>1, <1>8 DEF Following
  <2>4. ShownOK'
    BY <1>1, <2>1, <2>2, ShownKept
  <2>5. FollowsOK'
    BY <1>1, <2>1, <2>3, FollowsKept
  <2>. QED  BY <2>4, <2>5
<1>. QED  BY <1>4, <1>6, <1>7, <1>9, <1>10, <1>11 DEF WebInv

LEMMA ReloadInv == ASSUME WebInv, NEW c \in Clicks, Reload(c) PROVE WebInv'
<1> DEFINE late == {d \in wire : call[d].kind # "refresh"}
           next == IF saved = NoSession THEN {} ELSE {c}
           does == [kind |-> "refresh", session |-> saved, about |-> Nobody]
<1>1. /\ IsNext(c) /\ session' = saved /\ store' = Blank
      /\ at' = [d \in Clicks |-> IF d \in next THEN "waits"
                                 ELSE IF at[d] = "idle" THEN "idle" ELSE "done"]
      /\ wire' = late \cup next
      /\ call' = [d \in Clicks |-> IF d \in next THEN does ELSE IF d \in late THEN call[d] ELSE NoCall]
      /\ since' = [d \in Clicks |-> IF d \in next THEN 1 ELSE 0]
      /\ got' = [d \in Clicks |-> NoLists]
      /\ UNCHANGED <<saved, told, owner, posts, followed, inOrder>>
  BY DEF Reload, server
<1>2. /\ WebTypeOK /\ PostsOK /\ TabOK /\ \A d \in Clicks : CallOK(d)
      /\ NoLists \in Lists /\ NoCall \in Calling /\ NoCall.kind = "none"
      /\ Blank \in Stores /\ Blank.drafts = {} /\ Blank.follows = {}
  BY DEF WebInv, NoLists, Lists, NoCall, Calling, Kinds, Abouts, Blank, Stores, Accounts
<1>3. at[c] = "idle" /\ c \notin wire /\ does \in Calling /\ does.kind = "refresh" /\ does.session = saved
  <2>1. at[c] = "idle"
    BY <1>1, ClicksAreNumbers DEF IsNext
  <2>2. c \notin wire
    BY <1>2, <2>1 DEF CallOK
  <2>3. saved \in Clicks \cup {NoSession}
    BY <1>2 DEF WebTypeOK
  <2>4. does \in Calling /\ does.kind = "refresh" /\ does.session = saved
    BY <2>3 DEF Calling, Kinds, Abouts
  <2>. QED  BY <2>1, <2>2, <2>4
<1> HIDE DEF does
<1>4. WebTypeOK'
  BY <1>1, <1>2, <1>3 DEF WebTypeOK, Wheres
<1>5. /\ \A s \in Clicks : Granted(s) => at'[s] # "idle" /\ call'[s].kind # "login"
      /\ saved # NoSession => at'[c] = "waits" /\ call'[c] = does /\ since'[c] = 1
      /\ \A d \in Clicks : d \notin next =>
            /\ at'[d] = IF at[d] = "idle" THEN "idle" ELSE "done"
            /\ call'[d] = IF d \in late THEN call[d] ELSE NoCall
            /\ d \in wire' => d \in late
  BY <1>1, <1>2, <1>3 DEF Granted
<1>6. \A d \in Clicks : CallOK(d)'
  <2> SUFFICES ASSUME NEW d \in Clicks PROVE CallOK(d)'
    OBVIOUS
  <2>1. CASE d \in next
    <3>1. at'[d] = "waits" /\ call'[d] = does /\ Granted(saved)
      BY <1>2, <1>5, <2>1 DEF TabOK
    <3>. QED  BY <1>3, <1>5, <3>1 DEF CallOK, Granted
  <2>2. CASE d \notin next
    <3>1. CallOK(d)
      BY <1>2
    <3>2. CASE d \in late
      <4>1. at'[d] = "done" /\ call'[d] = call[d] /\ call[d].kind # "refresh"
        BY <1>5, <2>2, <3>1, <3>2 DEF CallOK
      <4>. QED  BY <1>5, <3>1, <4>1 DEF CallOK, Granted
    <3>3. CASE d \notin late
      BY <1>2, <1>5, <2>2, <3>3 DEF CallOK
    <3>. QED  BY <3>2, <3>3
  <2>. QED  BY <2>1, <2>2
<1>7. PostsOK'
  BY <1>1, <1>2 DEF PostsOK, IsPosted
<1>8. TabOK'
  BY <1>1, <1>2, <1>5 DEF TabOK, Granted
<1>9. FollowsOK'
  BY <1>1, <1>2 DEF FollowsOK
<1>10. ShownOK'
  <2>1. CASE saved = NoSession
    BY <1>1, <2>1 DEF ShownOK
  <2>2. CASE saved # NoSession
    <3>1. Fresh(c)'
      BY <1>1, <1>3, <1>5, <2>2 DEF Fresh, Pending
    <3>2. \A d \in Clicks : d # c => ~Fresh(d)'
      BY <1>5, <2>2 DEF Fresh, Pending
    <3>. QED  BY <1>5, <2>2, <3>1, <3>2, ShownSent
  <2>. QED  BY <2>1, <2>2
<1>. QED  BY <1>4, <1>6, <1>7, <1>8, <1>9, <1>10 DEF WebInv

LEMMA RestInv ==
    ASSUME WebInv, UNCHANGED <<session, saved, store, told, at, call, got, wire, owner, posts,
                               followed, since, inOrder>>
    PROVE  WebInv'
<1>1. WebTypeOK' /\ PostsOK' /\ TabOK'
  BY DEF WebInv, WebTypeOK, PostsOK, IsPosted, TabOK, Granted, Pending
<1>2. \A c \in Clicks : CallOK(c)'
  <2>1. Grows /\ \A c \in Clicks : Untouched(c)
    BY DEF Grows, Granted, Untouched
  <2>. QED  BY <2>1, CallKept DEF WebInv
<1>3. ASSUME inOrder' PROVE FollowsOK' /\ ShownOK'
  <2>1. FollowsOK /\ ShownOK
    BY <1>3 DEF WebInv
  <2>2. /\ \A d \in Clicks : (Fresh(d)' <=> Fresh(d)) /\ (Covers(d)' <=> Covers(d))
        /\ \A d \in Clicks, m \in store'.follows : Following(d, m) => Following(d, m)'
    BY DEF Fresh, Covers, Following, Pending
  <2>3. ShownOK'
    BY <2>1, <2>2, ShownKept
  <2>4. FollowsOK'
    BY <2>1, <2>2, FollowsKept
  <2>. QED  BY <2>3, <2>4
<1>. QED  BY <1>1, <1>2, <1>3 DEF WebInv

LEMMA WebNextInv == WebInv /\ [WebNext]_webVars => WebInv'
<1> SUFFICES ASSUME WebInv, [WebNext]_webVars PROVE WebInv'
  OBVIOUS
<1>1. ASSUME NEW c \in Clicks, LogIn(c) \/ PublishPost(c) \/ Follow(c) \/ Request(c) PROVE WebInv'
  BY <1>1, ClicksInv
<1>2. ASSUME NEW c \in Clicks, ServeLogin(c) \/ ServeLogout(c) \/ ServeOther(c) \/ ServeFollow(c)
      PROVE  WebInv'
  BY <1>2, ServesInv
<1>3. ASSUME NEW c \in Clicks, ServePost(c) \/ ServeRefresh(c) PROVE WebInv'
  BY <1>3, ServePostInv, ServeRefreshInv
<1>4. ASSUME NEW c \in Clicks,
             \/ LoginReturns(c) \/ LogoutReturns(c) \/ PostReturns(c) \/ FollowReturns(c)
             \/ ProfileReturns(c) \/ ReplyReturns(c) \/ RefreshReturns(c)
      PROVE  WebInv'
  BY <1>4, ReturnsInv
<1>5. ASSUME NEW c \in Clicks, LoseAnswer(c) \/ Reload(c) PROVE WebInv'
  BY <1>5, LoseAnswerInv, ReloadInv
<1>6. ASSUME NEW c \in Clicks, SessionExpires(c) PROVE WebInv'
  BY <1>6, RestInv DEF SessionExpires, tab, order
<1>7. CASE UNCHANGED webVars
  BY <1>7, RestInv DEF webVars, tab, server, order
<1>. QED  BY <1>1, <1>2, <1>3, <1>4, <1>5, <1>6, <1>7 DEF WebNext

LEMMA WebInvAlways == WebSpec => []WebInv
<1>1. WebInit => WebInv
  BY WebInitInv
<1>2. WebInv /\ [WebNext]_webVars => WebInv'
  BY WebNextInv
<1>. QED  BY <1>1, <1>2, PTL DEF WebSpec

\* However often a member clicks, loses answers or loads the page again, an account
\* publishes a text at most once, and what the tab reports as published is
\* (app-shell.tsx createPost, routes/social.py).
THEOREM TextsArePublishedOnce == WebSpec => []PublishedOnce
<1>1. WebInv => PublishedOnce
  <2> SUFFICES ASSUME WebInv PROVE PublishedOnce
    OBVIOUS
  <2>1. \A p, q \in posts : p.what = q.what => p = q
    BY DEF WebInv, PostsOK
  <2>2. \A t \in told : \E p \in posts : p.what = t
    BY DEF WebInv, PostsOK, IsPosted
  <2>. QED  BY <2>1, <2>2 DEF PublishedOnce
<1>. QED  BY <1>1, WebInvAlways, PTL

\* When nothing is under way, no optimistic post is left; unless a call was overtaken
\* or outlived its session, the tab shows the account of its session, what it follows
\* and all it reported (app-shell.tsx refreshAll, logout, login).
THEOREM StoreAlwaysFollowsSession == WebSpec => []StoreFollowsSession
<1>1. WebInv => StoreFollowsSession
  <2> SUFFICES ASSUME WebInv, Pending = {} PROVE StoreFollowsSession
    BY DEF StoreFollowsSession
  <2>1. store.drafts = {}
    BY DEF WebInv, TabOK
  <2>2. (\A c \in Clicks : ~Fresh(c)) /\ \A c \in Clicks, m \in store.follows : ~Following(c, m)
    BY DEF Fresh, Following
  <2>3. ASSUME inOrder, session # NoSession
        PROVE  /\ store.profile = owner[session] /\ store.of = owner[session]
               /\ \A m \in store.follows : <<owner[session], m>> \in followed
               /\ \A t \in told : \E p \in store.feed : p.what = t
    BY <2>2, <2>3 DEF WebInv, FollowsOK, ShownOK
  <2>. QED  BY <2>1, <2>3 DEF StoreFollowsSession
<1>. QED  BY <1>1, WebInvAlways, PTL

=============================================================================
