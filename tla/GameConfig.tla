----------------------------- MODULE GameConfig ------------------------------
(***************************************************************************)
(* utils/gameturbo_config_apply.py: a game's acceleration configuration    *)
(* and the two kinds of edits the language model may make to it.           *)
(***************************************************************************)
CONSTANTS Patterns, \* domains that may be sent past the tunnel
          Ports, Rules,
          NoRule

ASSUME RuleAssumption == NoRule \notin Rules

Gids == {"right", "wrong"}
Tables == [Ports -> Rules \union {NoRule}]

\* The fields that edits change.
Configs == [game_id : Gids, direct_patterns : SUBSET Patterns, port_rules : Tables]

\* "void": entries that the merge skips, blank patterns and rules without a port.
Patches == [direct_patterns : SUBSET Patterns, port_rules : Tables, void : BOOLEAN]

Untouched == [p \in Ports |-> NoRule]

\* _merge_port_rules: a rule replaces the one of its port.
MergePortRules(table, updates) ==
  [p \in Ports |-> IF updates[p] = NoRule THEN table[p] ELSE updates[p]]

\* apply_gameturbo_config_patch; patterns are only ever added.
ApplyPatch(config, patch) ==
  [config EXCEPT !.direct_patterns = @ \union patch.direct_patterns,
                 !.port_rules = MergePortRules(@, patch.port_rules)]

\* _patch_has_actionable_changes: it proposes something, useful or not.
Actionable(patch) ==
  patch.direct_patterns # {} \/ patch.port_rules # Untouched \/ patch.void

\* What the model proposes after a failed deploy.  NoGid: no other id.
NoGid == "no id"
Fixes == [game_id : Gids \union {NoGid}, direct_patterns : SUBSET Patterns,
          port_rules : Tables]

\* apply_deploy_recovery_patch, with the id of the task for a missing one.
ApplyFix(config, fix) ==
  ApplyPatch([config EXCEPT !.game_id = IF fix.game_id = NoGid THEN "right"
                                        ELSE fix.game_id],
             fix)
=============================================================================
