-------------------------- MODULE MCConfigRecovery ---------------------------
EXTENDS ConfigRecovery

\* A configuration with and without a pattern, a rule and the right id.
MCStarts == {[game_id |-> g, direct_patterns |-> {}, port_rules |-> Untouched] : g \in Gids}

MCProposals ==
  {p \in Patches : p.void => p.direct_patterns = {} /\ p.port_rules = Untouched}

MCRepairs == {f \in Fixes : f.game_id = "wrong" => f.direct_patterns = {}}
=============================================================================
