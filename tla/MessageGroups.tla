--------------------------- MODULE MessageGroups ---------------------------
(* How WebAppVeMessageManager keeps the messages of one task, and what a    *)
(* polling client is answered (webapp-ve-message-manager.mts,               *)
(* handleGetMessages in webapp-ve-route-handlers.mts).                      *)
(*                                                                          *)
(* A group is the sequence of its messages. Of a message's text nothing is  *)
(* kept; exit is its exit code ("open" is -1), error whether it carries an  *)
(* error, and kind and step say which command it tells of.                  *)
EXTENDS Integers, Sequences

NoIndex == -1

Exits == {"ok", "failed", "open"}

MessageKinds == {"stage", "handoff", "chunk", "result", "error", "nested",
                 "rollback", "rollbackError", "closing"}

Message == [kind : MessageKinds, step : Nat, index : Nat \cup {NoIndex}, exit : Exits,
            error : BOOLEAN, partial : BOOLEAN, finished : BOOLEAN]

Name(m) == <<m.kind, m.step>>

----------------------------------------------------------------------------
Indexed(g, n) == {k \in DOMAIN g : g[k].index = n}

Known(g, m) == m.index # NoIndex /\ Indexed(g, m.index) # {}

\* Array.find: the first message with this index.
PlaceOf(g, m) ==
    CHOOSE k \in Indexed(g, m.index) : \A j \in Indexed(g, m.index) : k <= j

\* A partial message without index: the last command is taken to have ended well.
Cleared(e) == [e EXCEPT !.partial = FALSE, !.exit = "ok", !.error = FALSE]

\* A final message replaces the one with its index; a field that it does not
\* set stays.
Merged(e, m) ==
    [m EXCEPT !.error = m.exit # "ok" /\ (m.error \/ e.error),
              !.finished = m.finished \/ e.finished]

\* A new final message settles the messages below it.
Settled(e, m) ==
    LET saved == e.exit = "open" /\ m.exit = "ok" IN
    IF e.index # NoIndex /\ e.index < m.index
    THEN [e EXCEPT !.partial = FALSE,
                   !.exit = IF saved THEN "ok" ELSE @,
                   !.error = @ /\ ~saved]
    ELSE e

\* handlePartialMessage: what is not handled is appended.
RecordedPartial(g, m) ==
    IF Known(g, m)
    THEN [g EXCEPT ![PlaceOf(g, m)].exit = m.exit, ![PlaceOf(g, m)].error = m.error]
    ELSE IF m.index = NoIndex /\ g # <<>>
         THEN [g EXCEPT ![Len(g)] = Cleared(@)]
         ELSE Append(g, m)

\* handleFinalMessage: what is not handled is appended.
RecordedFinal(g, m) ==
    IF Known(g, m)
    THEN [g EXCEPT ![PlaceOf(g, m)] = Merged(@, m)]
    ELSE Append(IF m.index = NoIndex THEN g ELSE [k \in DOMAIN g |-> Settled(g[k], m)], m)

\* handleExecutionMessage
Recorded(g, m) == IF m.partial THEN RecordedPartial(g, m) ELSE RecordedFinal(g, m)

\* One message after the other.
RecordedAll(g, ms) ==
    LET upTo[n \in 0 .. Len(ms)] == IF n = 0 THEN g ELSE Recorded(upTo[n - 1], ms[n])
    IN upTo[Len(ms)]

\* injectMessages: messages of another deployer keep their index.
AdoptedOne(g, m) == IF Known(g, m) THEN g ELSE Append(g, m)

Adopted(g, ms) ==
    LET upTo[n \in 0 .. Len(ms)] == IF n = 0 THEN g ELSE AdoptedOne(upTo[n - 1], ms[n])
    IN upTo[Len(ms)]

\* handleGetMessages for one group: the places of the messages that are sent.
\* Without a cursor (NoIndex) it is all of them.
Answer(g, since) == {k \in DOMAIN g : since = NoIndex \/ g[k].index > since}
=============================================================================
