---------------------------- MODULE MCChannels ----------------------------
EXTENDS Channels, TLC

\* One of each kind; Telegram and Discord want a mention in groups.
SomeAdapters ==
    {[platform |-> "telegram", mode |-> "polling", mention |-> TRUE],
     [platform |-> "telegram", mode |-> "webhook", mention |-> FALSE],
     [platform |-> "feishu", mode |-> "webhook", mention |-> FALSE],
     [platform |-> "wecom", mode |-> "webhook", mention |-> FALSE],
     [platform |-> "discord", mode |-> "gateway", mention |-> TRUE]}

\* A question and a /cancel in a direct chat, and a picture in a group.
SomeMessages ==
    {[kind |-> k, form |-> "plain", direct |-> TRUE, mention |-> FALSE] : k \in {"ask", "cancel"}}
    \cup {[kind |-> "ask", form |-> "media", direct |-> FALSE, mention |-> TRUE]}

Symmetry == Permutations(Events)
=============================================================================
