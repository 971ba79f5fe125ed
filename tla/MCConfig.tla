------------------------------ MODULE MCConfig ------------------------------
(* Instances of Config: hand-written files, and the changes users ask for.  *)
EXTENDS Config, TLC

CONSTANTS main, review, codex, claude

MCPlatforms == {"discord", "telegram", "wecom", "slack"}
MCEnvironments ==
    {[p \in MCPlatforms |-> None], [p \in MCPlatforms |-> IF p = "discord" THEN FALSE ELSE None]}

Absent == [enabled |-> None, mention |-> None, mode |-> None, agent |-> None, ready |-> FALSE, instances |-> <<>>]
Bot(enabled, mention) == [enabled |-> enabled, mention |-> mention, mode |-> None, ready |-> TRUE, agent |-> None]

\* Only what one needs: an agent that is not called main, which is the default one
\* by its flag, and two bots.
Short ==
    [flat |-> FALSE, profiles |-> {claude}, default |-> None, flagged |-> review,
     agents |-> [a \in Agents |-> IF a = review THEN [profile |-> claude, workspace |-> "own"] ELSE None],
     channels |-> [p \in MCPlatforms |->
        CASE p = "discord" -> [Absent EXCEPT !.enabled = TRUE, !.ready = TRUE]
          [] p = "telegram" -> [Absent EXCEPT !.instances = <<Bot(None, FALSE)>>]
          [] p = "slack" -> None
          [] OTHER -> Absent],
     skills |-> [enabled |-> None, disabled |-> {}]]

\* With workspaces of the old layout, and bots that are switched on and off.
Old ==
    [DefaultFile EXCEPT
        !.agents[main].workspace = "old",
        !.skills.disabled = {"sum"},
        !.channels["telegram"].instances = <<Bot(TRUE, FALSE), Bot(FALSE, TRUE)>>,
        !.channels["slack"] = [Absent EXCEPT !.instances = <<Bot(TRUE, FALSE)>>, !.enabled = TRUE, !.mention = FALSE]]

Flat == [Short EXCEPT !.flat = TRUE, !.default = review, !.agents[review].workspace = "old"]

MCInitialFiles == {None, Short, Old, Flat}
MCAsked ==
    {[kind |-> "agent", agent |-> review, profile |-> claude, workspace |-> "own", asDefault |-> FALSE],
     [kind |-> "agent", agent |-> main, profile |-> codex, workspace |-> "new", asDefault |-> TRUE],
     [kind |-> "default", agent |-> review],
     [kind |-> "channel", platform |-> "wecom", values |-> [enabled |-> TRUE, mode |-> "webhook", ready |-> TRUE]],
     [kind |-> "channel", platform |-> "discord", values |-> [enabled |-> FALSE, mention |-> TRUE, agent |-> review]],
     [kind |-> "set", platform |-> "slack", values |-> [agent |-> review]],
     [kind |-> "skills", name |-> "echo", on |-> FALSE, names |-> {}],
     [kind |-> "skills", name |-> "sum", on |-> TRUE, names |-> {}],
     [kind |-> "bootstrap"]}

Alike == Permutations(Workers) \cup Permutations(Files)
=============================================================================
