-------------------------- MODULE MCEchoDispersal --------------------------
EXTENDS EchoDispersal

\* What can still matter: a replica that has handled the proposal ignores its
\* chunks, a vote after the certificate counts no more, and what is on its way to
\* a replica that has stopped is never handled.
Matters(m) ==
  /\ m.to \in running
  /\ \/ m.type # "vote" /\ m.to \notin finished_propose
     \/ m.type = "vote" /\ ~ Certified

View == <<running, finished_propose, voted, {m \in net : Matters(m)},
          [r \in running \ finished_propose |-> prop_chunks[r]]>>

\* A reduction: a message that no longer matters is handled before anything
\* else.  That changes nothing a property sees, and takes nothing from the rest.
Useless == {m \in net : m.to \in running /\ ~ Matters(m)}

UselessFirst ==
  IF Useless = {} THEN Next
  ELSE LET m == CHOOSE u \in Useless : TRUE
       IN Receive(m.to) /\ net' = net \ {m}

FairReducedSpec ==
  Init /\ [][UselessFirst]_vars /\ \A r \in Replica : WF_vars(Receive(r))

=============================================================================
