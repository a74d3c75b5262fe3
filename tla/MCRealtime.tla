----------------------------- MODULE MCRealtime -----------------------------
EXTENDS RealtimeManager

\* A standard device whose peer was lost takes a third offer to replace a peer; a browser
\* needs an event to start.
Plan == [standard |-> [sockets |-> 1, offers |-> 3, events |-> 1],
         live     |-> [sockets |-> 2, offers |-> 2, events |-> 1],
         browser  |-> [sockets |-> 2, offers |-> 2, events |-> 2]]
=============================================================================
