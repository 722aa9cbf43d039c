--------------------------- MODULE MCEventRouter ---------------------------
\* Instances of EventRouter for TLC.
EXTENDS EventRouter

Do(a, k, open) == [do |-> a, kind |-> k, failOpen |-> open]

\* A rule that answers the agent's events, and one that hands a command on.
Send1 == [on |-> {"out"}, actions |-> <<Do("cap", "out", FALSE)>>, consume |-> TRUE]
Forward == [on |-> {"chat"}, consume |-> FALSE,
            actions |-> <<Do("emit", "own", TRUE), Do("agent", "chat", FALSE)>>]
Trash == [on |-> {"chat", "out"}, actions |-> <<Do("drop", "out", FALSE)>>, consume |-> FALSE]
Quiet == [on |-> {"out"}, actions |-> <<>>, consume |-> FALSE]

\* No rule for messages, and rules of every kind of action.
TwoRuleSets == {<<Quiet, Send1>>, <<Forward, Send1, Trash>>}

\* Messages are emitted again, to be routed in their turn.
OneRuleSet ==
  {<<[on |-> {"chat"}, consume |-> FALSE,
      actions |-> <<Do("emit", "out", TRUE), Do("agent", "chat", FALSE)>>], Send1>>}
=============================================================================
