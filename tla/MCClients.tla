------------------------------ MODULE MCClients ------------------------------
(* What people do at their clients: administrators store prompts and promote   *)
(* models, a member uses a browser tab.  No two of these share rows: each is   *)
(* explored while the others rest.                                             *)
EXTENDS PromptVersions, ModelRegistry, WebClient

PromptsRest == PromptInit /\ versions = {}
RegistryRests == RegistryInit /\ line = <<>>

Init ==
    \/ PromptInit /\ RegistryRests /\ WebInit
    \/ PromptsRest /\ RegistryInit /\ WebInit

Next ==
    \/ RegistryRests /\ WebInit /\ PromptNext /\ UNCHANGED <<registryVars, webVars>>
    \/ PromptsRest /\ WebInit /\ RegistryNext /\ UNCHANGED <<promptVars, webVars>>
    \/ PromptsRest /\ RegistryRests /\ WebNext /\ UNCHANGED <<promptVars, registryVars>>

Spec == Init /\ [][Next]_<<promptVars, registryVars, webVars>>
=============================================================================
