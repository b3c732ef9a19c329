---------------------------- MODULE TdClientView ----------------------------
(***************************************************************************)
(* TdClient seen as a CallService: a call is served when TDLib answers it, *)
(* which its thread learns later, from whichever thread receives.          *)
(***************************************************************************)
EXTENDS TdClient

\* The answers for t that are in the queue or in hand.
Replies(t) == {r \in {hand} \cup Range(queue) : r.to # 0 /\ r.of = t}

\* The call as it will be when its answer has been handled.
Settled(t) == IF Replies(t) = {} THEN call[t]
              ELSE Answered(call[t], CHOOSE r \in Replies(t) : TRUE)

Pending(t) == call[t].pc \in {"bump", "emplace"} \/ \E q \in asked : q.of = t

Stage(t) == IF At(t, "idle") THEN "out"
            ELSE IF Pending(t) THEN "asked"
            ELSE IF Settled(t).wait THEN "lost"
            ELSE "served"

SeenCall(t) == [stage |-> Stage(t), kind |-> call[t].kind,
                file |-> Settled(t).file, msg |-> Settled(t).msg]
Seen == [t \in Threads |-> SeenCall(t)]

Abstract == INSTANCE CallService
              WITH Callers <- Threads, calls <- Seen, here <- stored, last <- lastMsg, chat <- posted,
                   broken <- raced

\* Calls of several threads do not disturb each other: each is served once,
\* between its beginning and its return, a download or a deletion changes the
\* disk once, a SendFile makes one message and returns with it, and nobody
\* returns with an answer to another call: until threads meet at
\* current_query_id_ or handlers_, which are used without the mutex.
ImplementsCallService == Abstract!Spec
=============================================================================
