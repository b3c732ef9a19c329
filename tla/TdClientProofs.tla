--------------------------- MODULE TdClientProofs ---------------------------
(***************************************************************************)
(* Proofs about TdClient, for every number of threads, files and calls.    *)
(*                                                                         *)
(* Types hold wherever threads meet.  Until they have met in a data race,  *)
(* every call gets its own answer from its own handler, and TdClient       *)
(* implements CallService.                                                 *)
(***************************************************************************)
EXTENDS TdClientView, FiniteSetTheorems, SequenceTheorems, TLAPS

-----------------------------------------------------------------------------
(* Types.                                                                  *)

\* What TDLib sends has the type of a response.
LEMMA ResponseOK ==
  ASSUME NEW q \in Requests, NEW ok \in BOOLEAN, NEW f \in Files \cup {NoFile}, NEW m \in Nat,
         NEW d \in BOOLEAN, NEW u \in BOOLEAN
  PROVE  /\ Answer(q, ok, f, m) \in Responses
         /\ FileUpdate(f, d, u) \in Responses
         /\ SentUpdate(m) \in Responses
         /\ Nothing \in Responses
<1>1. (f \in uploaded) \in BOOLEAN
  OBVIOUS
<1>2. PICK b \in BOOLEAN : b = (f \in uploaded)
  BY <1>1
<1>3. Answer(q, ok, f, m) \in Responses
  BY <1>2 DEF Answer, Responses, Requests
<1>4. FileUpdate(f, d, u) \in Responses
  BY DEF FileUpdate, Responses
<1>5. SentUpdate(m) \in Responses
  BY DEF SentUpdate, Responses
<1>6. Nothing \in Responses
  BY DEF Nothing, FileUpdate, Responses
<1> QED BY <1>3, <1>4, <1>5, <1>6

\* Only the place of one call changes.
LEMMA GotoOK ==
  ASSUME call \in [Threads -> Calls], NEW t \in Threads, NEW l \in PCs, Goto(t, l)
  PROVE  /\ call' \in [Threads -> Calls]
         /\ call'[t].pc = l
         /\ \A u \in Threads : u # t => call'[u] = call[u]
         /\ \A u \in Threads : /\ call'[u].id = call[u].id /\ call'[u].wait = call[u].wait
                               /\ call'[u].kind = call[u].kind /\ call'[u].of = call[u].of
                               /\ call'[u].file = call[u].file /\ call'[u].msg = call[u].msg
BY DEF Goto, Calls

\* What a new call looks like.
LEMMA BeginOK ==
  ASSUME TypeOK, NEW t \in Threads, NEW k \in Kinds, NEW f \in Files \cup {NoFile}, Begin(t, k, f)
  PROVE  /\ call' \in [Threads -> Calls]
         /\ call'[t].pc = "bump" /\ call'[t].id = current /\ call'[t].wait = TRUE
         /\ call'[t].kind = k /\ call'[t].file = f /\ call[t].pc = "idle" /\ Meets(t, {"bump"})
         /\ \A u \in Threads : u # t => call'[u] = call[u]
         /\ UNCHANGED <<current, handlers, mtx, hand, results, tdlib>>
<1>1. NoCall \in Calls
  BY DEF NoCall, Calls, PCs, Kinds
<1>2. /\ call[t].pc = "idle" /\ Meets(t, {"bump"}) /\ current \in Nat /\ call \in [Threads -> Calls]
      /\ UNCHANGED <<current, handlers, mtx, hand, results, tdlib>>
      /\ call' = [call EXCEPT ![t] = [NoCall EXCEPT !.pc = "bump", !.kind = k, !.file = f,
                                                    !.id = current, !.wait = TRUE]]
  BY Zenon DEF Begin, At, TypeOK
<1>3. [NoCall EXCEPT !.pc = "bump", !.kind = k, !.file = f, !.id = current, !.wait = TRUE] \in Calls
  BY <1>1, <1>2 DEF Calls, PCs
<1>4. call' \in [Threads -> Calls] /\ \A u \in Threads : u # t => call'[u] = call[u]
  BY <1>2, <1>3
<1>5. call'[t] = [NoCall EXCEPT !.pc = "bump", !.kind = k, !.file = f, !.id = current, !.wait = TRUE]
  BY <1>2
<1>6. /\ call'[t].pc = "bump" /\ call'[t].id = current /\ call'[t].wait = TRUE /\ call'[t].kind = k
      /\ call'[t].file = f
  BY <1>5 DEF NoCall
<1> QED BY <1>2, <1>4, <1>6

\* What becomes of calls when an answer is handled.
LEMMA HandlerOK ==
  ASSUME TypeOK, NEW t \in Threads, RunHandler(t), NEW o \in Threads, o = handlers[hand.to]
  PROVE  /\ call' \in [Threads -> Calls]
         /\ \A u \in Threads : u # t => call'[u].pc = call[u].pc
         /\ call'[t].pc = "wait" /\ call[t].pc = "handle"
         /\ \A u \in Threads : u # o => call'[u].wait = call[u].wait /\ call'[u].of = call[u].of
         /\ \A u \in Threads : call'[u].id = call[u].id /\ call'[u].kind = call[u].kind
         /\ \/ hand.ok \/ call[o].kind \in {"get", "delete"}
            \/ call'[o].wait = call[o].wait /\ call'[o].of = call[o].of
         /\ hand.ok \/ call[o].kind \in {"get", "delete"} =>
               call'[o].wait = FALSE /\ call'[o].of = hand.of
         /\ \A u \in Threads : u # o => call'[u].file = call[u].file /\ call'[u].msg = call[u].msg
         /\ call[o].kind # "send" => call'[o].file = call[o].file
<1>1. call \in [Threads -> Calls] /\ hand \in Responses
  BY DEF TypeOK
<1> DEFINE a == Answered(call[o], hand)
<1>2. a \in Calls /\ a.pc = call[o].pc /\ a.id = call[o].id /\ a.kind = call[o].kind
  <2>1. call[o] \in Calls
    BY <1>1
  <2>2. CASE ~(hand.ok \/ call[o].kind \in {"get", "delete"})
    BY <2>1, <2>2 DEF Answered
  <2>3. CASE hand.ok \/ call[o].kind \in {"get", "delete"}
    <3>1. PICK f \in Files \cup {NoFile} : f = IF call[o].kind = "send" THEN hand.file ELSE call[o].file
      BY <1>1, <2>1 DEF Calls, Responses
    <3>2. a = [call[o] EXCEPT !.wait = FALSE, !.of = hand.of, !.msg = hand.msg, !.file = f]
      BY <2>3, <3>1 DEF Answered
    <3>3. hand.of \in Threads \cup {NoThread} /\ hand.msg \in Nat
      BY <1>1 DEF Responses
    <3> QED BY <2>1, <3>2, <3>3 DEF Calls
  <2> QED BY <2>2, <2>3
<1>3. /\ hand.ok \/ call[o].kind \in {"get", "delete"} => a.wait = FALSE /\ a.of = hand.of
      /\ hand.ok \/ call[o].kind \in {"get", "delete"} \/ a = call[o]
      /\ call[o].kind # "send" => a.file = call[o].file
  BY <1>1 DEF Answered, Calls, Responses
<1>4. /\ call[t].pc = "handle"
      /\ call' = [[call EXCEPT ![o] = a] EXCEPT ![t].pc = "wait"]
  BY DEF RunHandler, At
<1> HIDE DEF a
<1> DEFINE c == [call EXCEPT ![o] = a]
<1>5. c \in [Threads -> Calls] /\ c[o] = a /\ \A u \in Threads : u # o => c[u] = call[u]
  BY <1>1, <1>2
<1>6. call' = [c EXCEPT ![t].pc = "wait"]
  BY <1>4
<1> HIDE DEF c
<1>7. /\ call' \in [Threads -> Calls] /\ call'[t].pc = "wait"
      /\ \A u \in Threads : u # t => call'[u] = c[u]
      /\ \A u \in Threads : /\ call'[u].id = c[u].id /\ call'[u].kind = c[u].kind
                            /\ call'[u].wait = c[u].wait /\ call'[u].of = c[u].of
                            /\ call'[u].file = c[u].file /\ call'[u].msg = c[u].msg
  BY <1>5, <1>6 DEF Calls, PCs
<1>8. \A u \in Threads : c[u].pc = call[u].pc /\ c[u].id = call[u].id /\ c[u].kind = call[u].kind
  BY <1>2, <1>5
<1> QED BY <1>2, <1>3, <1>4, <1>5, <1>7, <1>8

\* An answer that is being handled has its handler until it is erased, since
\* only the thread that handles it erases any.
LEMMA SendQueryTyped == ASSUME TypeOK, NEW t \in Threads, SendQuery(t) PROVE TypeOK'
<1>1. /\ call[t].pc = "emplace" /\ EmplaceHandler(t) /\ Goto(t, "lock")
      /\ UNCHANGED <<current, raced, mtx, hand, uploads, downloads, sent, queue, stored, uploaded, posting, posted, lastMsg>>
      /\ asked' = asked \cup {[id |-> call[t].id, of |-> t, kind |-> call[t].kind, file |-> call[t].file]}
  BY DEF SendQuery, At, results
<1>2. call \in [Threads -> Calls] /\ "lock" \in PCs /\ call[t].id \in Nat
  BY DEF TypeOK, PCs, Calls
<1>3. /\ call' \in [Threads -> Calls] /\ call'[t].pc = "lock"
      /\ \A u \in Threads : u # t => call'[u] = call[u]
  BY <1>1, <1>2, GotoOK
<1>4. asked' \subseteq Requests
  BY <1>1, <1>2 DEF TypeOK, Requests, Calls
<1>5. /\ DOMAIN handlers' \subseteq Nat /\ DOMAIN handlers \subseteq DOMAIN handlers'
      /\ \A i \in DOMAIN handlers' : handlers'[i] \in Threads
  BY <1>1, <1>2 DEF TypeOK, EmplaceHandler
<1>6. \A u \in Threads : call'[u].pc \in {"wait", "handle"} <=> mtx' = u
  BY <1>1, <1>3 DEF TypeOK
<1>7. (\E u \in Threads : At(u, "handle")') => hand'.to \in DOMAIN handlers'
  BY <1>1, <1>3, <1>5 DEF TypeOK, At
<1> QED BY <1>1, <1>3, <1>4, <1>5, <1>6, <1>7 DEF TypeOK

\* What receive returns has a type, and so has what stays in the queue.
LEMMA ReceivingOK ==
  ASSUME TypeOK, NEW t \in Threads, Receiving(t)
  PROVE  /\ Head(queue) \in Responses /\ queue' \in Seq(Responses) /\ call[t].pc = "wait"
         /\ Head(queue) = queue[1] /\ Len(queue') = Len(queue) - 1 /\ Len(queue) \in Nat \ {0}
         /\ \A i \in 1..Len(queue') : queue'[i] = queue[i + 1]
<1>1. queue \in Seq(Responses) /\ queue # <<>> /\ queue' = Tail(queue) /\ call[t].pc = "wait"
  BY DEF TypeOK, Receiving, At
<1> QED BY <1>1

\* The steps of threads keep the types.
LEMMA ThreadTyped ==
  ASSUME TypeOK, NEW t \in Threads, Call(t) \/ Go(t) \/ Lock(t)
  PROVE  TypeOK'
<1>0. call \in [Threads -> Calls] /\ current \in Nat
  BY DEF TypeOK
<1>1. ASSUME NEW k \in Kinds, NEW f \in Files \cup {NoFile}, Begin(t, k, f)
      PROVE  TypeOK'
  <2>1. /\ call' \in [Threads -> Calls] /\ call'[t].pc = "bump" /\ call[t].pc = "idle"
        /\ \A u \in Threads : u # t => call'[u] = call[u]
        /\ UNCHANGED <<current, handlers, mtx, hand, results, tdlib>>
    BY <1>1, BeginOK
  <2>2. \A u \in Threads : call'[u].pc \in {"wait", "handle"} <=> mtx' = u
    BY <2>1 DEF TypeOK
  <2>3. raced' \in BOOLEAN
    BY <1>1, BeginOK DEF TypeOK, Meets
  <2> QED BY <2>1, <2>2, <2>3 DEF TypeOK, At, results, tdlib
<1>2. ASSUME Call(t) PROVE TypeOK'
  <2>1. CASE GetMessage(t)
    BY <1>1, <2>1 DEF GetMessage, Kinds
  <2>2. CASE DownloadFile(t)
    BY <1>1, <2>2, TdAssumption DEF DownloadFile, Kinds
  <2>3. CASE SendFile(t)
    BY <1>1, <2>3 DEF SendFile, Kinds
  <2>4. CASE DeleteFile(t)
    <3>1. call[t].file \in Files \cup {NoFile}
      BY <1>0 DEF Calls
    <3> QED BY <1>1, <2>4, <3>1 DEF DeleteFile, Kinds
  <2> QED BY <1>2, <2>1, <2>2, <2>3, <2>4 DEF Call
<1>3. ASSUME NextQueryId(t) PROVE TypeOK'
  <2>1. /\ call[t].pc = "bump" /\ current' = call[t].id + 1
        /\ call' = [call EXCEPT ![t].pc = "emplace", ![t].id = @ + 1]
        /\ UNCHANGED <<handlers, mtx, hand, results, tdlib>>
    BY <1>3 DEF NextQueryId, At
  <2>2. /\ call' \in [Threads -> Calls] /\ call'[t].pc = "emplace"
        /\ \A u \in Threads : u # t => call'[u] = call[u]
    BY <1>0, <2>1 DEF Calls, PCs
  <2>3. current' \in Nat
    BY <1>0, <2>1 DEF Calls
  <2>4. \A u \in Threads : call'[u].pc \in {"wait", "handle"} <=> mtx' = u
    BY <2>1, <2>2 DEF TypeOK
  <2>5. raced' \in BOOLEAN
    BY <1>3 DEF NextQueryId, Meets, TypeOK
  <2> QED BY <2>1, <2>2, <2>3, <2>4, <2>5 DEF TypeOK, At, results, tdlib
<1>4. ASSUME ProcessUpdate(t) PROVE TypeOK'
  <2>1. Head(queue) \in Responses /\ queue' \in Seq(Responses)
    BY <1>4, ReceivingOK DEF ProcessUpdate
  <2>2. /\ uploads' \subseteq Files \cup {NoFile} /\ downloads' \subseteq Files \cup {NoFile}
        /\ sent' \subseteq Nat
    BY <1>4, <2>1 DEF ProcessUpdate, TypeOK, Responses, Mark
  <2>3. UNCHANGED <<current, handlers, raced, mtx, call, hand, asked, stored, uploaded, posting, posted, lastMsg>>
    BY <1>4 DEF ProcessUpdate
  <2> QED BY <2>1, <2>2, <2>3 DEF TypeOK, At
<1>5. ASSUME ProcessResponse(t) PROVE TypeOK'
  <2>1. Head(queue) \in Responses /\ queue' \in Seq(Responses) /\ call[t].pc = "wait"
    BY <1>5, ReceivingOK DEF ProcessResponse
  <2>2. UNCHANGED <<current, handlers, mtx, uploads, downloads, sent, asked, stored, uploaded, posting, posted, lastMsg>>
    BY <1>5 DEF ProcessResponse, results
  <2>3. raced' \in BOOLEAN
    BY <1>5 DEF ProcessResponse, Meets, TypeOK
  <2>4. CASE Head(queue).to \in DOMAIN handlers /\ Goto(t, "handle") /\ hand' = Head(queue)
    <3>1. /\ call' \in [Threads -> Calls] /\ call'[t].pc = "handle"
          /\ \A u \in Threads : u # t => call'[u] = call[u]
      BY <1>0, <2>4, GotoOK DEF PCs
    <3>2. \A u \in Threads : call'[u].pc \in {"wait", "handle"} <=> mtx' = u
      BY <2>1, <2>2, <3>1 DEF TypeOK
    <3> QED BY <2>1, <2>2, <2>3, <2>4, <3>1, <3>2 DEF TypeOK, At
  <2>5. CASE UNCHANGED <<call, hand>>
    BY <2>1, <2>2, <2>3, <2>5 DEF TypeOK, At
  <2> QED BY <1>5, <2>4, <2>5 DEF ProcessResponse
<1>6. ASSUME RunHandler(t) PROVE TypeOK'
  <2>1. call[t].pc = "handle" /\ hand.to \in DOMAIN handlers
    BY <1>6 DEF RunHandler, At, TypeOK
  <2> PICK o \in Threads : o = handlers[hand.to]
    BY <2>1 DEF TypeOK
  <2>2. /\ call' \in [Threads -> Calls] /\ call'[t].pc = "wait"
        /\ \A u \in Threads : u # t => call'[u].pc = call[u].pc
    BY <1>6, HandlerOK
  <2>3. /\ UNCHANGED <<current, raced, mtx, sent, tdlib>> /\ hand' = Nothing /\ Erase(hand.to)
        /\ uploads' \in {uploads, Mark(uploads, hand.file, hand.up)}
        /\ downloads' \in {downloads, Mark(downloads, hand.file, hand.down)}
    BY <1>6 DEF RunHandler
  <2>4. hand' \in Responses
    BY <2>3 DEF Nothing, FileUpdate, Responses
  <2>5. DOMAIN handlers' \subseteq Nat /\ \A i \in DOMAIN handlers' : handlers'[i] \in Threads
    BY <2>3 DEF Erase, Restrict, TypeOK
  <2>6. uploads' \subseteq Files \cup {NoFile} /\ downloads' \subseteq Files \cup {NoFile}
    BY <2>3 DEF Mark, TypeOK, Responses
  <2>7. \A u \in Threads : call'[u].pc \in {"wait", "handle"} <=> mtx' = u
    BY <2>1, <2>2, <2>3 DEF TypeOK
  <2>8. \A u \in Threads : call'[u].pc # "handle"
    BY <2>1, <2>2, <2>3 DEF TypeOK
  <2> QED BY <2>2, <2>3, <2>4, <2>5, <2>6, <2>7, <2>8 DEF TypeOK, At, tdlib
<1>7. ASSUME Unlock(t) \/ Lock(t) PROVE TypeOK'
  <2>1. UNCHANGED <<current, handlers, raced, hand, results, tdlib>>
    BY <1>7 DEF Unlock, Lock
  <2>2. CASE Lock(t)
    <3>1. call[t].pc = "lock" /\ Goto(t, "wait") /\ mtx = NoThread /\ mtx' = t
      BY <2>2 DEF Lock, At
    <3>2. /\ call' \in [Threads -> Calls] /\ call'[t].pc = "wait"
          /\ \A u \in Threads : u # t => call'[u] = call[u]
      BY <1>0, <3>1, GotoOK DEF PCs
    <3>3. \A u \in Threads : call'[u].pc \in {"wait", "handle"} <=> mtx' = u
      BY <3>1, <3>2, TdAssumption DEF TypeOK
    <3> QED BY <2>1, <3>1, <3>2, <3>3 DEF TypeOK, At, results, tdlib
  <2>3. CASE Unlock(t)
    <3>1. call[t].pc = "wait" /\ Goto(t, "idle") /\ mtx' = NoThread
      BY <2>3 DEF Unlock, At
    <3>2. /\ call' \in [Threads -> Calls] /\ call'[t].pc = "idle"
          /\ \A u \in Threads : u # t => call'[u] = call[u]
      BY <1>0, <3>1, GotoOK DEF PCs
    <3>3. \A u \in Threads : call'[u].pc \in {"wait", "handle"} <=> mtx' = u
      BY <3>1, <3>2, TdAssumption DEF TypeOK
    <3> QED BY <2>1, <3>1, <3>2, <3>3 DEF TypeOK, At, results, tdlib
  <2> QED BY <1>7, <2>2, <2>3
<1> QED BY <1>2, <1>3, <1>4, <1>5, <1>6, <1>7, SendQueryTyped DEF Go

\* An answer at the end of a queue, after no update or one.
LEMMA Joined ==
  ASSUME NEW S, NEW s \in Seq(S), NEW r \in S, NEW a \in S
  PROVE  /\ Append(s \o <<>>, a) = Append(s, a)
         /\ Append(s \o <<r>>, a) = Append(Append(s, r), a)
BY ConcatEmptySeq, AppendIsConcat

\* TDLib answers a request once, perhaps after an update.
LEMMA RespondOK ==
  ASSUME TypeOK, Respond
  PROVE  \E q \in asked, a \in Responses, r \in Responses :
            /\ asked' = asked \ {q}
            /\ a.to = q.id /\ a.of = q.of /\ (a.ok \/ q.kind \in Failures)
            /\ r.to = 0
            /\ queue' = Append(queue, a) \/ queue' = Append(Append(queue, r), a)
            /\ UNCHANGED <<current, handlers, raced, mtx, call, hand, results, uploaded, posted>>
            /\ stored' \subseteq Files \cup {NoFile} /\ lastMsg' \in Nat
            /\ posting' \subseteq [msg : Nat, file : Files]
<1> PICK q \in asked : /\ Fail(q) \/ Give(q) \/ Fetch(q) \/ Discard(q) \/ Accept(q)
                      /\ UNCHANGED <<current, handlers, raced, mtx, call, hand, results>>
  BY DEF Respond
<1>1. /\ q \in Requests /\ q.file \in Files \cup {NoFile} /\ q.of \in Threads
      /\ queue \in Seq(Responses) /\ lastMsg \in Nat /\ stored \subseteq Files \cup {NoFile}
      /\ posting \subseteq [msg : Nat, file : Files]
  BY DEF TypeOK, Requests
<1>2. ASSUME NEW ok \in BOOLEAN, NEW f \in Files \cup {NoFile}, NEW m \in Nat
      PROVE  /\ Answer(q, ok, f, m) \in Responses
             /\ Answer(q, ok, f, m).to = q.id /\ Answer(q, ok, f, m).of = q.of
             /\ Answer(q, ok, f, m).ok = ok
  BY <1>1, ResponseOK DEF Answer
<1>3. ASSUME NEW d \in BOOLEAN
      PROVE  /\ FileUpdate(q.file, d, q.file \in uploaded) \in Responses
             /\ FileUpdate(q.file, d, q.file \in uploaded).to = 0
  <2>1. (q.file \in uploaded) \in BOOLEAN
    OBVIOUS
  <2> PICK b \in BOOLEAN : b = (q.file \in uploaded)
    BY <2>1
  <2>2. FileUpdate(q.file, d, b) \in Responses /\ FileUpdate(q.file, d, b).to = 0
    BY <1>1, <1>3 DEF FileUpdate, Responses
  <2> QED BY <2>2
<1>4. Nothing \in Responses /\ Nothing.to = 0
  BY DEF Nothing, FileUpdate, Responses
<1>0. ASSUME NEW r \in Responses, NEW a \in Responses
      PROVE  /\ Append(queue \o <<>>, a) = Append(queue, a)
             /\ Append(queue \o <<r>>, a) = Append(Append(queue, r), a)
  BY <1>1, Joined
<1>5. CASE Fail(q)
  <2>1. /\ q.kind \in Failures /\ asked' = asked \ {q}
        /\ queue' = Append(queue \o <<>>, Answer(q, FALSE, q.file, 0))
        /\ UNCHANGED <<stored, uploaded, posting, posted, lastMsg>>
    BY <1>5 DEF Fail, Reply
  <2> PICK a \in Responses : a = Answer(q, FALSE, q.file, 0)
    BY <1>1, <1>2
  <2>2. a.to = q.id /\ a.of = q.of
    BY <1>2, <1>1
  <2>3. queue' = Append(queue, a)
    BY <1>1, <2>1, Joined
  <2> QED BY <1>1, <1>4, <2>1, <2>2, <2>3
<1>6. CASE Give(q)
  <2>1. /\ asked' = asked \ {q}
        /\ queue' = Append(queue \o <<>>, Answer(q, TRUE, NoFile, 0))
        /\ UNCHANGED <<stored, uploaded, posting, posted, lastMsg>>
    BY <1>6 DEF Give, Reply
  <2>2. /\ Answer(q, TRUE, NoFile, 0) \in Responses
        /\ Answer(q, TRUE, NoFile, 0).to = q.id /\ Answer(q, TRUE, NoFile, 0).of = q.of
        /\ Answer(q, TRUE, NoFile, 0).ok = TRUE
    BY <1>2
  <2> PICK a \in Responses : a = Answer(q, TRUE, NoFile, 0) /\ a.to = q.id /\ a.of = q.of /\ a.ok
    BY <2>2
  <2>3. queue' = Append(queue, a)
    BY <1>1, <2>1, Joined
  <2> QED BY <1>1, <1>4, <2>1, <2>2, <2>3
<1>7. CASE Fetch(q)
  <2>1. /\ asked' = asked \ {q} /\ stored' = stored \cup {q.file}
        /\ queue' = Append(queue \o <<FileUpdate(q.file, TRUE, q.file \in uploaded)>>, Answer(q, TRUE, q.file, 0))
        /\ UNCHANGED <<uploaded, posting, posted, lastMsg>>
    BY <1>7 DEF Fetch, Reply
  <2> PICK a \in Responses, r \in Responses :
        a = Answer(q, TRUE, q.file, 0) /\ r = FileUpdate(q.file, TRUE, q.file \in uploaded)
    BY <1>1, <1>2, <1>3
  <2>2. a.to = q.id /\ a.of = q.of /\ a.ok /\ r.to = 0
    BY <1>1, <1>2, <1>3
  <2>3. queue' = Append(queue \o <<r>>, a)
    BY <2>1
  <2>4. Append(queue \o <<r>>, a) = Append(Append(queue, r), a)
    BY <1>0
  <2>5. queue' = Append(Append(queue, r), a)
    BY ONLY <2>3, <2>4
  <2> QED BY <1>1, <2>1, <2>2, <2>5
<1>8. CASE Discard(q)
  <2>1. /\ asked' = asked \ {q} /\ stored' = stored \ {q.file}
        /\ queue' = Append(queue \o (IF q.file \in stored
                 THEN <<FileUpdate(q.file, FALSE, q.file \in uploaded)>> ELSE <<>>),
                 Answer(q, TRUE, q.file, 0))
        /\ UNCHANGED <<uploaded, posting, posted, lastMsg>>
    BY <1>8 DEF Discard, Reply
  <2> PICK a \in Responses, r \in Responses :
        a = Answer(q, TRUE, q.file, 0) /\ r = FileUpdate(q.file, FALSE, q.file \in uploaded)
    BY <1>1, <1>2, <1>3
  <2>2. a.to = q.id /\ a.of = q.of /\ a.ok /\ r.to = 0
    BY <1>1, <1>2, <1>3
  <2>3. queue' = Append(queue \o <<r>>, a) \/ queue' = Append(queue \o <<>>, a)
    BY <2>1
  <2>4. /\ Append(queue \o <<>>, a) = Append(queue, a)
        /\ Append(queue \o <<r>>, a) = Append(Append(queue, r), a)
    BY <1>0
  <2>5. queue' = Append(queue, a) \/ queue' = Append(Append(queue, r), a)
    BY ONLY <2>3, <2>4
  <2> QED BY <1>1, <2>1, <2>2, <2>5
<1>9. CASE Accept(q)
  <2> PICK f \in FilesOf[q.of] :
        /\ lastMsg' = lastMsg + 1 /\ posting' = posting \cup {[msg |-> lastMsg + 1, file |-> f]}
        /\ Reply(q, <<>>, Answer(q, TRUE, f, lastMsg + 1))
        /\ UNCHANGED <<stored, uploaded, posted>>
    BY <1>9 DEF Accept
  <2>1. f \in Files
    BY <1>1, TdAssumption
  <2>2. lastMsg + 1 \in Nat
    BY <1>1
  <2>3. /\ Answer(q, TRUE, f, lastMsg + 1) \in Responses
        /\ Answer(q, TRUE, f, lastMsg + 1).to = q.id /\ Answer(q, TRUE, f, lastMsg + 1).of = q.of
        /\ Answer(q, TRUE, f, lastMsg + 1).ok = TRUE
    BY <1>2, <2>1, <2>2
  <2> PICK a \in Responses : a = Answer(q, TRUE, f, lastMsg + 1)
    BY <2>3
  <2>4. a.to = q.id /\ a.of = q.of /\ a.ok
    BY <2>3
  <2>5. asked' = asked \ {q} /\ queue' = Append(queue, a)
    BY <1>1, Joined DEF Reply
  <2>6. posting' \subseteq [msg : Nat, file : Files]
    BY <1>1, <2>1, <2>2
  <2>7. UNCHANGED <<current, handlers, raced, mtx, call, hand, results, uploaded, posted, stored>> /\ lastMsg' \in Nat
    BY <2>2
  <2> QED BY <1>1, <1>4, <2>4, <2>5, <2>6, <2>7
<1> QED BY <1>5, <1>6, <1>7, <1>8, <1>9

\* The other steps of TDLib add at most an update.
LEMMA UpdateOK ==
  ASSUME TypeOK, Upload \/ Post \/ PostFails
  PROVE  /\ UNCHANGED <<current, handlers, raced, mtx, call, hand, results, asked, stored, lastMsg>>
         /\ uploaded' \subseteq Files /\ posted' \subseteq Nat
         /\ posting' \subseteq [msg : Nat, file : Files]
         /\ queue' = queue \/ \E r \in Responses : r.to = 0 /\ queue' = Append(queue, r)
<1>1. CASE Upload
  <2> PICK p \in posting :
        /\ uploaded' = uploaded \cup {p.file}
        /\ queue' = Append(queue, FileUpdate(p.file, p.file \in stored, TRUE))
        /\ UNCHANGED <<current, handlers, raced, mtx, call, hand, results, asked, stored, posting, posted, lastMsg>>
    BY <1>1 DEF Upload
  <2>1. p.file \in Files
    BY DEF TypeOK
  <2>2. (p.file \in stored) \in BOOLEAN
    OBVIOUS
  <2> PICK b \in BOOLEAN : b = (p.file \in stored)
    BY <2>2
  <2>3. FileUpdate(p.file, b, TRUE) \in Responses /\ FileUpdate(p.file, b, TRUE).to = 0
    BY <2>1 DEF FileUpdate, Responses
  <2> PICK r \in Responses : r = FileUpdate(p.file, p.file \in stored, TRUE) /\ r.to = 0
    BY <2>3
  <2> QED BY <2>1 DEF TypeOK
<1>2. CASE Post
  <2> PICK p \in posting :
        /\ posting' = posting \ {p} /\ posted' = posted \cup {p.msg}
        /\ queue' = Append(queue, SentUpdate(p.msg))
        /\ UNCHANGED <<current, handlers, raced, mtx, call, hand, results, asked, stored, uploaded, lastMsg>>
    BY <1>2 DEF Post
  <2>1. p.msg \in Nat
    BY DEF TypeOK
  <2>2. SentUpdate(p.msg) \in Responses /\ SentUpdate(p.msg).to = 0
    BY <2>1 DEF SentUpdate, Responses
  <2> QED BY <2>1, <2>2 DEF TypeOK
<1>3. CASE PostFails
  BY <1>3 DEF PostFails, TypeOK
<1> QED BY <1>1, <1>2, <1>3

\* Every step keeps the types.
LEMMA TypeStep == ASSUME TypeOK, [Next]_vars PROVE TypeOK'
<1>1. ASSUME Respond PROVE TypeOK'
  <2> PICK q \in asked, a \in Responses, r \in Responses :
        /\ asked' = asked \ {q}
        /\ queue' = Append(queue, a) \/ queue' = Append(Append(queue, r), a)
        /\ UNCHANGED <<current, handlers, raced, mtx, call, hand, results, uploaded, posted>>
        /\ stored' \subseteq Files \cup {NoFile} /\ lastMsg' \in Nat
        /\ posting' \subseteq [msg : Nat, file : Files]
    BY <1>1, RespondOK
  <2>1. queue \in Seq(Responses)
    BY DEF TypeOK
  <2>2. Append(queue, a) \in Seq(Responses) /\ Append(Append(queue, r), a) \in Seq(Responses)
    BY <2>1
  <2>3. asked' \subseteq asked
    OBVIOUS
  <2> QED BY <2>2, <2>3 DEF TypeOK, At, results
<1>2. ASSUME Upload \/ Post \/ PostFails PROVE TypeOK'
  <2>1. /\ UNCHANGED <<current, handlers, raced, mtx, call, hand, results, asked, stored, lastMsg>>
        /\ uploaded' \subseteq Files /\ posted' \subseteq Nat
        /\ posting' \subseteq [msg : Nat, file : Files]
        /\ queue' = queue \/ \E r \in Responses : r.to = 0 /\ queue' = Append(queue, r)
    BY <1>2, UpdateOK
  <2>2. queue' \in Seq(Responses)
    BY <2>1 DEF TypeOK
  <2> QED BY <2>1, <2>2 DEF TypeOK, At, results
<1>3. ASSUME UNCHANGED vars PROVE TypeOK'
  BY <1>3 DEF vars, results, tdlib, TypeOK, At
<1> QED BY <1>1, <1>2, <1>3, ThreadTyped DEF Next

\* Types are right at first.
LEMMA InitTyped == Init => TypeOK
<1> SUFFICES ASSUME Init PROVE TypeOK
  OBVIOUS
<1>1. NoCall \in Calls /\ Nothing \in Responses
  BY DEF NoCall, Calls, Kinds, PCs, Nothing, FileUpdate, Responses
<1>2. call \in [Threads -> Calls] /\ \A t \in Threads : call[t].pc = "idle"
  BY <1>1 DEF Init, NoCall
<1>3. \A t \in Threads : mtx # t
  BY TdAssumption DEF Init
<1>4. handlers = <<>> /\ DOMAIN handlers = {}
  BY DEF Init
<1>5. hand \in Responses /\ queue \in Seq(Responses)
  BY <1>1 DEF Init
<1>6. current \in Nat /\ raced \in BOOLEAN /\ mtx \in Threads \cup {NoThread}
  BY DEF Init
<1>7. /\ uploads = {} /\ downloads = {} /\ sent = {} /\ asked = {} /\ stored = {}
      /\ uploaded = {} /\ posting = {} /\ posted = {} /\ lastMsg \in Nat
  BY DEF Init
<1> QED BY <1>2, <1>3, <1>4, <1>5, <1>6, <1>7 DEF TypeOK, At

\* Every variable keeps its type, also when threads meet in SendQuery: the
\* thread that receives holds the mutex, and nobody erases the handler of the
\* answer that it has taken.
THEOREM TypeCorrect == Spec => []TypeOK
BY InitTyped, TypeStep, PTL DEF Spec

-----------------------------------------------------------------------------
(* Answers, as long as threads have not met.  Until then each call that     *)
(* waits has one thing on its way: its request, its answer in the queue, or *)
(* its answer with the thread that handles it.                              *)

\* A call that has its query id.
Live(c) == c.pc \in {"emplace", "lock", "wait", "handle"}

AtHandlers(t) == call[t].pc \in {"emplace", "handle"}

\* One thread at a time uses current_query_id_, and one handlers_; calls have
\* different ids, out of those given out.
Ids ==
    /\ \A t, u \in Threads : call[t].pc = "bump" /\ call[u].pc = "bump" => t = u
    /\ \A t, u \in Threads : AtHandlers(t) /\ AtHandlers(u) => t = u
    /\ \A t \in Threads : call[t].pc \in {"bump", "emplace"} => call[t].wait
    /\ \A t \in Threads : call[t].pc = "bump" => call[t].id = current
    /\ \A t \in Threads : Live(call[t]) => call[t].id \in 1..current
    /\ \A t, u \in Threads : Live(call[t]) /\ Live(call[u]) /\ t # u => call[t].id # call[u].id

\* What TDLib has, and what it has sent, is for calls that wait for it.
Answers(r) == r.to # 0 =>
    /\ r.of \in Threads /\ Waits(r.to, r.of)
    /\ r.ok \/ call[r.of].kind \in Failures

Owed ==
    /\ \A q \in asked : Waits(q.id, q.of) /\ q.kind = call[q.of].kind /\ q.file = call[q.of].file
    /\ \A i \in 1..Len(queue) : Answers(queue[i])
    /\ Answers(hand)

\* No request is answered twice.
Once ==
    /\ \A q \in asked : hand.to # q.id /\ \A i \in 1..Len(queue) : queue[i].to # q.id
    /\ \A i, j \in 1..Len(queue) : i # j /\ queue[i].to = queue[j].to => queue[i].to = 0
    /\ \A i \in 1..Len(queue) : queue[i].to = hand.to => hand.to = 0

Inv == TypeOK /\ Ids /\ Owed /\ Once /\ HandlersMatch /\ OwnAnswer

\* Once threads have met, they have.
LEMMA RacedKept == ASSUME [Next]_vars, raced PROVE raced'
<1>1. CASE UNCHANGED vars
  BY <1>1 DEF vars
<1>2. CASE Respond \/ Upload \/ Post \/ PostFails
  BY <1>2 DEF Respond, Upload, Post, PostFails
<1>3. ASSUME NEW t \in Threads, Call(t) PROVE raced'
  BY <1>3 DEF Call, GetMessage, DownloadFile, SendFile, DeleteFile, Begin, Meets
<1>4. ASSUME NEW t \in Threads, Go(t) \/ Lock(t) PROVE raced'
  BY <1>4 DEF Go, Lock, NextQueryId, SendQuery, ProcessUpdate, ProcessResponse, RunHandler, Unlock, Meets
<1> QED BY <1>1, <1>2, <1>3, <1>4 DEF Next

\* A call that moves on from a place with an id keeps ids apart.
LEMMA IdsGoto ==
  ASSUME Ids, call \in [Threads -> Calls], NEW t \in Threads, NEW l \in {"idle", "lock", "wait", "handle"},
         Goto(t, l), Live(call[t]), current' = current,
         l = "handle" => \A u \in Threads \ {t} : ~AtHandlers(u)
  PROVE  Ids'
<1>1. l \in PCs
  BY DEF PCs
<1>2. /\ call'[t].pc = l
      /\ \A u \in Threads : u # t => call'[u] = call[u]
      /\ \A u \in Threads : call'[u].id = call[u].id /\ call'[u].wait = call[u].wait
  BY <1>1, GotoOK
<1>3. \A u \in Threads : Live(call'[u]) => Live(call[u])
  BY <1>2 DEF Live
<1>4. /\ (\A u, v \in Threads : call[u].pc = "bump" /\ call[v].pc = "bump" => u = v)'
      /\ (\A u, v \in Threads : AtHandlers(u) /\ AtHandlers(v) => u = v)'
  BY <1>2 DEF Ids, AtHandlers
<1>5. \A u \in Threads : call'[u].pc \in {"bump", "emplace"} => u # t /\ call'[u].wait
  BY <1>2 DEF Ids
<1>6. \A u \in Threads : call'[u].pc = "bump" => call'[u].id = current'
  BY <1>2 DEF Ids
<1>7. \A u \in Threads : Live(call'[u]) => call'[u].id \in 1..current'
  BY <1>2, <1>3 DEF Ids
<1>8. \A u, v \in Threads : Live(call'[u]) /\ Live(call'[v]) /\ u # v => call'[u].id # call'[v].id
  BY <1>2, <1>3 DEF Ids
<1> QED BY <1>4, <1>5, <1>6, <1>7, <1>8 DEF Ids

\* Every step keeps ids apart.
LEMMA IdsStep ==
  ASSUME TypeOK, Ids, HandlersMatch, [Next]_vars, ~raced'
  PROVE  Ids'
<1>0. call \in [Threads -> Calls] /\ current \in Nat
  BY DEF TypeOK
<1>1. ASSUME NEW t \in Threads, NEW k \in Kinds, NEW f \in Files \cup {NoFile}, Begin(t, k, f)
      PROVE  Ids'
  <2>1. /\ call'[t].pc = "bump" /\ call'[t].id = current /\ call'[t].wait = TRUE /\ current' = current
        /\ \A u \in Threads : u # t => call'[u] = call[u]
    BY <1>1, BeginOK
  <2>2. \A u \in Threads \ {t} : call[u].pc # "bump"
    BY <1>1, BeginOK DEF Meets
  <2> QED BY <2>1, <2>2 DEF Ids, AtHandlers, Live
<1>2. ASSUME NEW t \in Threads, NextQueryId(t) PROVE Ids'
  <2>1. /\ call[t].pc = "bump" /\ current' = call[t].id + 1
        /\ call' = [call EXCEPT ![t].pc = "emplace", ![t].id = @ + 1]
    BY <1>2 DEF NextQueryId, At
  <2>2. /\ call'[t].pc = "emplace" /\ call'[t].id = current + 1 /\ current' = current + 1
        /\ call'[t].wait = call[t].wait
        /\ \A u \in Threads : u # t => call'[u] = call[u]
    BY <1>0, <2>1 DEF Calls, Ids
  <2>3. \A u \in Threads : u # t => call[u].pc \notin {"bump", "emplace", "handle"}
    BY <1>2, <2>1 DEF Ids, NextQueryId, Meets
  <2>4. \A u \in Threads : u # t /\ Live(call'[u]) => call'[u].id \in 1..current
    BY <2>2 DEF Ids
  <2>5. \A u \in Threads : Live(call'[u]) => call'[u].id \in 1..current'
    BY <1>0, <2>2, <2>4
  <2>6. \A u, v \in Threads : Live(call'[u]) /\ Live(call'[v]) /\ u # v => call'[u].id # call'[v].id
    BY <1>0, <2>2, <2>4 DEF Ids
  <2>7. /\ (\A u, v \in Threads : call[u].pc = "bump" /\ call[v].pc = "bump" => u = v)'
        /\ (\A u, v \in Threads : AtHandlers(u) /\ AtHandlers(v) => u = v)'
    BY <2>2, <2>3 DEF AtHandlers
  <2>8. \A u \in Threads : call'[u].pc # "bump" /\ (call'[u].pc = "emplace" => call'[u].wait)
    BY <2>1, <2>2, <2>3 DEF Ids
  <2> QED BY <2>5, <2>6, <2>7, <2>8 DEF Ids
<1>3. ASSUME NEW t \in Threads, NEW l \in {"idle", "lock", "wait"}, Goto(t, l), Live(call[t]), current' = current
      PROVE  Ids'
  BY <1>0, <1>3, IdsGoto
<1>4. ASSUME UNCHANGED <<call, current>> PROVE Ids'
  BY <1>4 DEF Ids, AtHandlers
<1>5. ASSUME NEW t \in Threads, ProcessResponse(t) PROVE Ids'
  <2>1. call[t].pc = "wait" /\ current' = current
    BY <1>5 DEF ProcessResponse, Receiving, At
  <2>2. CASE Goto(t, "handle")
    <3>0. mtx = t /\ \A u \in Threads \ {t} : call[u].pc # "emplace"
      BY <1>5, <2>1 DEF TypeOK, ProcessResponse, Meets
    <3>1. Live(call[t]) /\ \A u \in Threads \ {t} : ~AtHandlers(u)
      BY <2>1, <3>0 DEF Live, AtHandlers, TypeOK
    <3> QED BY <1>0, <2>1, <2>2, <3>1, IdsGoto
  <2>3. CASE UNCHANGED call
    BY <1>4, <2>1, <2>3
  <2> QED BY <1>5, <2>2, <2>3 DEF ProcessResponse
<1>6. ASSUME NEW t \in Threads, RunHandler(t) PROVE Ids'
  <2>1. hand.to \in DOMAIN handlers /\ current' = current
    BY <1>6 DEF RunHandler, TypeOK
  <2>10. PICK o \in Threads : o = handlers[hand.to]
    BY <2>1 DEF TypeOK
  <2>2. call[o].pc \in {"lock", "wait", "handle"}
    BY <2>1, <2>10 DEF HandlersMatch, Waits
  <2>3. /\ \A u \in Threads : u # t => call'[u].pc = call[u].pc
        /\ call'[t].pc = "wait" /\ call[t].pc = "handle"
        /\ \A u \in Threads : u # o => call'[u].wait = call[u].wait /\ call'[u].of = call[u].of
        /\ \A u \in Threads : call'[u].id = call[u].id /\ call'[u].kind = call[u].kind
    BY <1>6, <2>10, HandlerOK
  <2>4. \A u \in Threads : Live(call'[u]) <=> Live(call[u])
    BY <2>3 DEF Live
  <2>5. /\ (\A u, v \in Threads : call[u].pc = "bump" /\ call[v].pc = "bump" => u = v)'
        /\ (\A u, v \in Threads : AtHandlers(u) /\ AtHandlers(v) => u = v)'
    BY <2>3 DEF Ids, AtHandlers
  <2>6. \A u \in Threads : call'[u].pc \in {"bump", "emplace"} => call'[u].wait
    BY <2>2, <2>3 DEF Ids
  <2>7. \A u \in Threads : call'[u].pc = "bump" => call'[u].id = current'
    BY <2>1, <2>3 DEF Ids
  <2> QED BY <2>1, <2>3, <2>4, <2>5, <2>6, <2>7 DEF Ids
<1>7. ASSUME NEW t \in Threads, Call(t) PROVE Ids'
  <2>1. call[t].file \in Files \cup {NoFile}
    BY <1>0 DEF Calls
  <2> QED BY <1>1, <1>7, <2>1, TdAssumption DEF Call, GetMessage, DownloadFile, SendFile, DeleteFile, Kinds
<1>8. ASSUME NEW t \in Threads, SendQuery(t) PROVE Ids'
  <2>1. Goto(t, "lock") /\ Live(call[t]) /\ current' = current
    BY <1>8 DEF SendQuery, At, Live
  <2> QED BY <1>3, <2>1
<1>9. ASSUME NEW t \in Threads, Lock(t) PROVE Ids'
  <2>1. Goto(t, "wait") /\ Live(call[t]) /\ current' = current
    BY <1>9 DEF Lock, At, Live
  <2> QED BY <1>3, <2>1
<1>10. ASSUME NEW t \in Threads, Unlock(t) PROVE Ids'
  <2>1. Goto(t, "idle") /\ Live(call[t]) /\ current' = current
    BY <1>10 DEF Unlock, At, Live
  <2> QED BY <1>3, <2>1
<1>11. CASE \E t \in Threads : Call(t) \/ Go(t) \/ Lock(t)
  <2> PICK t \in Threads : Call(t) \/ Go(t) \/ Lock(t)
    BY <1>11
  <2>1. ProcessUpdate(t) => UNCHANGED <<call, current>>
    BY DEF ProcessUpdate
  <2> QED BY <1>2, <1>4, <1>5, <1>6, <1>7, <1>8, <1>9, <1>10, <2>1 DEF Go
<1>12. CASE Respond \/ Upload \/ Post \/ PostFails \/ UNCHANGED vars
  BY <1>4, <1>12 DEF Respond, Upload, Post, PostFails, vars
<1> QED BY <1>11, <1>12 DEF Next

\* Calls that wait go on waiting, and no others.
Waiting(c) == c.pc \in {"lock", "wait", "handle"} /\ c.wait
Still == \A u \in Threads : Waiting(call[u]) =>
    /\ Waiting(call'[u]) /\ call'[u].id = call[u].id
    /\ call'[u].kind = call[u].kind /\ call'[u].file = call[u].file
NoMore == \A u \in Threads : Waiting(call'[u]) => Waiting(call[u])

\* Only SendQuery and RunHandler change who waits.
LEMMA CallKept ==
  ASSUME TypeOK, Ids, OwnAnswer, NEW t \in Threads,
         Call(t) \/ NextQueryId(t) \/ Lock(t) \/ Unlock(t) \/ ProcessUpdate(t) \/ ProcessResponse(t)
  PROVE  Still /\ NoMore /\ OwnAnswer' /\ UNCHANGED handlers
<1>0. call \in [Threads -> Calls]
  BY DEF TypeOK
<1>1. ASSUME NEW k \in Kinds, NEW f \in Files \cup {NoFile}, Begin(t, k, f)
      PROVE  Still /\ NoMore /\ OwnAnswer' /\ UNCHANGED handlers
  <2>1. /\ call'[t].pc = "bump" /\ call'[t].wait = TRUE /\ call[t].pc = "idle"
        /\ \A u \in Threads : u # t => call'[u] = call[u]
        /\ UNCHANGED handlers
    BY <1>1, BeginOK
  <2> QED BY <2>1 DEF Still, NoMore, Waiting, OwnAnswer
<1>2. CASE Call(t)
  <2>1. call[t].file \in Files \cup {NoFile}
    BY <1>0 DEF Calls
  <2> QED BY <1>1, <1>2, <2>1, TdAssumption DEF Call, GetMessage, DownloadFile, SendFile, DeleteFile, Kinds
<1>3. CASE NextQueryId(t)
  <2>1. /\ call[t].pc = "bump" /\ UNCHANGED handlers
        /\ call' = [call EXCEPT ![t].pc = "emplace", ![t].id = @ + 1]
    BY <1>3 DEF NextQueryId, At
  <2>2. /\ call'[t].pc = "emplace" /\ call'[t].wait = call[t].wait /\ call'[t].of = call[t].of
        /\ \A u \in Threads : u # t => call'[u] = call[u]
    BY <1>0, <2>1 DEF Calls
  <2> QED BY <2>1, <2>2 DEF Still, NoMore, Waiting, OwnAnswer
<1>4. ASSUME NEW l \in {"idle", "wait", "handle"}, Goto(t, l), call[t].pc \in {"lock", "wait"},
             l = "idle" => ~call[t].wait
      PROVE  Still /\ NoMore /\ OwnAnswer'
  <2>1. l \in PCs
    BY DEF PCs
  <2>2. /\ call'[t].pc = l
        /\ \A u \in Threads : u # t => call'[u] = call[u]
        /\ \A u \in Threads : /\ call'[u].id = call[u].id /\ call'[u].wait = call[u].wait
                              /\ call'[u].kind = call[u].kind /\ call'[u].of = call[u].of
                              /\ call'[u].file = call[u].file /\ call'[u].msg = call[u].msg
    BY <1>0, <1>4, <2>1, GotoOK
  <2>3. \A u \in Threads : Waiting(call'[u]) <=> Waiting(call[u])
    BY <1>4, <2>2 DEF Waiting
  <2>4. OwnAnswer'
    BY <2>2 DEF OwnAnswer
  <2> QED BY <2>2, <2>3, <2>4 DEF Still, NoMore
<1>5. ASSUME UNCHANGED call PROVE Still /\ NoMore /\ OwnAnswer'
  BY <1>5 DEF Still, NoMore, OwnAnswer
<1>6. CASE Lock(t)
  BY <1>4, <1>6 DEF Lock, At
<1>7. CASE Unlock(t)
  BY <1>4, <1>7 DEF Unlock, At, Done
<1>8. CASE ProcessUpdate(t)
  BY <1>5, <1>8 DEF ProcessUpdate
<1>9. CASE ProcessResponse(t)
  <2>1. call[t].pc = "wait" /\ UNCHANGED handlers /\ (Goto(t, "handle") \/ UNCHANGED call)
    BY <1>9 DEF ProcessResponse, Receiving, At
  <2> QED BY <1>4, <1>5, <2>1
<1> QED BY <1>2, <1>3, <1>6, <1>7, <1>8, <1>9

\* Handlers go on matching if neither they nor the waits change.
LEMMA MatchKept ==
  ASSUME TypeOK, HandlersMatch, Still, NoMore, UNCHANGED handlers
  PROVE  HandlersMatch'
<1>1. \A i \in DOMAIN handlers' : (Waits(i, handlers[i]))'
  BY DEF TypeOK, HandlersMatch, Waits, Still, Waiting
<1>2. ASSUME NEW u \in Threads, Waiting(call'[u])
      PROVE  call'[u].id \in DOMAIN handlers' \/ call'[u].kind \in Failures \cap {"send", "download"}
  BY <1>2 DEF HandlersMatch, Waits, Still, NoMore, Waiting
<1> QED BY <1>1, <1>2 DEF HandlersMatch, Waits, Waiting

\* Answers that are on their way stay due.
Old(r) == r.to = 0 \/ r = hand \/ \E j \in 1..Len(queue) : r = queue[j]

LEMMA OwedKept ==
  ASSUME TypeOK, Owed, Still, Old(hand'), \A i \in 1..Len(queue') : Old(queue'[i]),
         \A q \in asked' \ asked : /\ Waiting(call'[q.of]) /\ call'[q.of].id = q.id
                                   /\ q.kind = call'[q.of].kind /\ q.file = call'[q.of].file
  PROVE  Owed'
<1>1. ASSUME NEW r, Old(r), r.to # 0
      PROVE  /\ r.of \in Threads /\ Waiting(call'[r.of]) /\ call'[r.of].id = r.to
             /\ r.ok \/ call'[r.of].kind \in Failures
  <2>1. Answers(r)
    BY <1>1 DEF Old, Owed, Answers
  <2> QED BY <1>1, <2>1 DEF Answers, Waits, Still, Waiting
<1>2. (\A i \in 1..Len(queue) : Answers(queue[i]))' /\ Answers(hand)'
  BY <1>1 DEF Answers, Waits, Waiting
<1>3. \A q \in asked' : (Waits(q.id, q.of) /\ q.kind = call[q.of].kind /\ q.file = call[q.of].file)'
  BY DEF Owed, Waits, Still, Waiting, TypeOK, Requests
<1> QED BY <1>1, <1>2, <1>3 DEF Owed

\* Requests have ids other than 0, which is for updates.
LEMMA AskedIds ==
  ASSUME TypeOK, Ids, Owed, NEW p \in asked
  PROVE  Waits(p.id, p.of) /\ p.of \in Threads /\ p.id # 0
<1>1. Waits(p.id, p.of) /\ p.of \in Threads
  BY DEF Owed, TypeOK, Requests
<1>2. p.id \in 1..current /\ current \in Nat
  BY <1>1 DEF Waits, Ids, Live, TypeOK
<1> QED BY <1>1, <1>2

\* Receiving takes nothing twice.
LEMMA Received ==
  ASSUME TypeOK, Ids, Owed, Once, NEW t \in Threads, ProcessUpdate(t) \/ ProcessResponse(t)
  PROVE  /\ asked' = asked /\ Old(hand') /\ \A i \in 1..Len(queue') : Old(queue'[i])
         /\ Once'
<1>1. /\ Len(queue') = Len(queue) - 1 /\ Len(queue) \in Nat \ {0}
      /\ \A i \in 1..Len(queue') : queue'[i] = queue[i + 1]
      /\ Head(queue) = queue[1]
  BY ReceivingOK DEF ProcessUpdate, ProcessResponse
<1>2. asked' = asked /\ (hand' = hand \/ hand' = queue[1])
  BY <1>1 DEF ProcessUpdate, ProcessResponse
<1>3. \A i \in 1..Len(queue') : i + 1 \in 1..Len(queue) /\ i + 1 # 1
  BY <1>1
<1>4. Old(hand') /\ \A i \in 1..Len(queue') : Old(queue'[i])
  BY <1>1, <1>2, <1>3 DEF Old
<1>5. \A q \in asked' : hand'.to # q.id /\ \A i \in 1..Len(queue') : queue'[i].to # q.id
  BY <1>1, <1>2, <1>3 DEF Once
<1>6. \A i, j \in 1..Len(queue') : i # j /\ queue'[i].to = queue'[j].to => queue'[i].to = 0
  BY <1>1, <1>3 DEF Once
<1>7. \A i \in 1..Len(queue') : queue'[i].to = hand'.to => hand'.to = 0
  BY <1>1, <1>2, <1>3 DEF Once
<1> QED BY <1>2, <1>4, <1>5, <1>6, <1>7 DEF Once

\* An update is nobody's answer.
LEMMA Updated ==
  ASSUME TypeOK, Ids, Owed, Once, NEW r \in Responses, r.to = 0, queue' = queue \/ queue' = Append(queue, r),
         asked' = asked, hand' = hand
  PROVE  Old(hand') /\ (\A i \in 1..Len(queue') : Old(queue'[i])) /\ Once'
<1>1. queue \in Seq(Responses)
  BY DEF TypeOK
<1>2. CASE queue' = queue
  BY <1>2 DEF Old, Once
<1>3. CASE queue' = Append(queue, r)
  <2>1. /\ Len(queue') = Len(queue) + 1 /\ Len(queue) \in Nat /\ queue'[Len(queue) + 1] = r
        /\ \A i \in 1..Len(queue) : queue'[i] = queue[i]
    BY <1>1, <1>3
  <2>2. \A i \in 1..Len(queue') : queue'[i] = r \/ (i \in 1..Len(queue) /\ queue'[i] = queue[i])
    BY <2>1
  <2>3. \A q \in asked' : hand'.to # q.id /\ \A i \in 1..Len(queue') : queue'[i].to # q.id
    BY <2>2, AskedIds DEF Once
  <2>4. \A i, j \in 1..Len(queue') : i # j /\ queue'[i].to = queue'[j].to => queue'[i].to = 0
    BY <2>2 DEF Once
  <2>5. \A i \in 1..Len(queue') : queue'[i].to = hand'.to => hand'.to = 0
    BY <2>2 DEF Once
  <2> QED BY <2>2, <2>3, <2>4, <2>5 DEF Old, Once
<1> QED BY <1>2, <1>3

\* An answer takes the place of its request.
LEMMA Responded ==
  ASSUME TypeOK, Ids, Owed, Once, Respond
  PROVE  Owed' /\ Once'
<1> PICK q \in asked, a \in Responses, r \in Responses :
      /\ asked' = asked \ {q}
      /\ a.to = q.id /\ a.of = q.of /\ (a.ok \/ q.kind \in Failures)
      /\ r.to = 0
      /\ queue' = Append(queue, a) \/ queue' = Append(Append(queue, r), a)
      /\ UNCHANGED <<current, handlers, raced, mtx, call, hand, results, uploaded, posted>>
  BY RespondOK
<1>1. queue \in Seq(Responses) /\ call \in [Threads -> Calls] /\ asked \subseteq Requests
  BY DEF TypeOK
<1>2. \A i \in 1..Len(queue') : \/ i \in 1..Len(queue) /\ queue'[i] = queue[i]
                                \/ queue'[i] = r
                                \/ i = Len(queue') /\ queue'[i] = a
  <2>1. CASE queue' = Append(queue, a)
    BY <1>1, <2>1
  <2>2. CASE queue' = Append(Append(queue, r), a)
    <3> DEFINE s == Append(queue, r)
    <3>1. /\ s \in Seq(Responses) /\ Len(s) = Len(queue) + 1 /\ s[Len(queue) + 1] = r
          /\ \A i \in 1..Len(queue) : s[i] = queue[i]
      BY <1>1
    <3>2. queue' = Append(s, a)
      BY <2>2
    <3> HIDE DEF s
    <3>3. /\ Len(queue') = Len(s) + 1 /\ queue'[Len(s) + 1] = a
          /\ \A i \in 1..Len(s) : queue'[i] = s[i]
      BY <3>1, <3>2
    <3> QED BY <1>1, <3>1, <3>3
  <2> QED BY <2>1, <2>2
<1>3. ASSUME NEW p \in asked PROVE Waits(p.id, p.of) /\ p.of \in Threads /\ p.id # 0
  BY AskedIds
<1>4. \A p \in asked' : p.id # q.id
  <2> SUFFICES ASSUME NEW p \in asked, p.id = q.id PROVE p = q
    OBVIOUS
  <2>1. p.of = q.of
    BY <1>3 DEF Waits, Ids, Live
  <2>2. p.kind = q.kind /\ p.file = q.file
    BY <2>1 DEF Owed
  <2> QED BY <1>1, <2>1, <2>2 DEF Requests
<1>5. \A i \in 1..Len(queue) : queue[i].to # a.to
  BY DEF Once
<1>6. hand'.to # a.to /\ a.to # 0
  BY <1>3 DEF Once
<1>7. Once'
  <2>1. \A p \in asked' : hand'.to # p.id /\ \A i \in 1..Len(queue') : queue'[i].to # p.id
    BY <1>2, <1>3, <1>4 DEF Once
  <2>2. \A i, j \in 1..Len(queue') : i # j /\ queue'[i].to = queue'[j].to => queue'[i].to = 0
    <3> SUFFICES ASSUME NEW i \in 1..Len(queue'), NEW j \in 1..Len(queue'), i # j,
                        queue'[i].to = queue'[j].to, queue'[i].to # 0
                 PROVE  FALSE
      OBVIOUS
    <3>1. queue'[i] # r /\ queue'[j] # r
      OBVIOUS
    <3>2. CASE queue'[i] = a
      <4>1. ~(queue'[j] = a /\ j = Len(queue') /\ i = Len(queue'))
        OBVIOUS
      <4>2. CASE j \in 1..Len(queue) /\ queue'[j] = queue[j]
        BY <1>5, <3>2, <4>2
      <4>3. CASE j = Len(queue') /\ i \in 1..Len(queue) /\ queue'[i] = queue[i]
        BY <1>5, <3>2, <4>3
      <4> QED BY <1>2, <3>1, <4>1, <4>2, <4>3
    <3>3. CASE queue'[i] # a
      BY <1>2, <1>5, <3>1, <3>3 DEF Once
    <3> QED BY <3>2, <3>3
  <2>3. \A i \in 1..Len(queue') : queue'[i].to = hand'.to => hand'.to = 0
    BY <1>2, <1>6 DEF Once
  <2> QED BY <2>1, <2>2, <2>3 DEF Once
<1>8. Owed'
  <2>1. Answers(a)
    BY <1>3 DEF Answers, Owed
  <2>2. \A i \in 1..Len(queue') : Answers(queue'[i])
    BY <1>2, <2>1 DEF Owed, Answers
  <2>3. (\A i \in 1..Len(queue) : Answers(queue[i]))' /\ Answers(hand)'
    BY <2>2 DEF Answers, Waits, Owed
  <2>4. (\A p \in asked : Waits(p.id, p.of) /\ p.kind = call[p.of].kind /\ p.file = call[p.of].file)'
    BY DEF Owed, Waits
  <2> QED BY <2>3, <2>4 DEF Owed
<1> QED BY <1>7, <1>8

\* The new request is nobody else's, and its handler is in handlers_.
LEMMA SendQueryOK ==
  ASSUME TypeOK, Ids, Owed, Once, HandlersMatch, OwnAnswer, NEW t \in Threads, SendQuery(t)
  PROVE  Owed' /\ Once' /\ HandlersMatch' /\ OwnAnswer'
<1> DEFINE q == call[t].id
           new == [id |-> q, of |-> t, kind |-> call[t].kind, file |-> call[t].file]
<1>1. /\ call[t].pc = "emplace" /\ EmplaceHandler(t) /\ Goto(t, "lock")
      /\ asked' = asked \cup {new} /\ UNCHANGED <<hand, queue>>
  BY DEF SendQuery, At
<1>2. call \in [Threads -> Calls] /\ "lock" \in PCs
  BY DEF TypeOK, PCs
<1>3. /\ call'[t].pc = "lock"
      /\ \A u \in Threads : u # t => call'[u] = call[u]
      /\ \A u \in Threads : /\ call'[u].id = call[u].id /\ call'[u].wait = call[u].wait
                            /\ call'[u].kind = call[u].kind /\ call'[u].of = call[u].of
                            /\ call'[u].file = call[u].file /\ call'[u].msg = call[u].msg
  BY <1>1, <1>2, GotoOK
<1>4. \A u \in Threads \ {t} : call[u].pc \notin {"emplace", "handle"}
  BY <1>1 DEF Ids, AtHandlers
<1>5. \A u \in Threads : Waiting(call[u]) => u # t /\ call[u].id # q /\ call[u].id # 0
  <2> SUFFICES ASSUME NEW u \in Threads, Waiting(call[u]) PROVE u # t /\ call[u].id # q /\ call[u].id # 0
    OBVIOUS
  <2>1. u # t /\ Live(call[u]) /\ Live(call[t])
    BY <1>1 DEF Waiting, Live
  <2>2. call[u].id \in 1..current /\ current \in Nat
    BY <2>1 DEF Ids, TypeOK
  <2> QED BY <2>1, <2>2 DEF Ids
<1>6. q # 0 /\ call[t].wait
  <2>1. call[t].id \in 1..current /\ current \in Nat
    BY <1>1 DEF Ids, Live, TypeOK
  <2> QED BY <1>1, <2>1 DEF Ids
<1>7. q \notin DOMAIN handlers
  BY <1>5 DEF HandlersMatch, Waits, Waiting, TypeOK
<1>8. /\ DOMAIN handlers' = DOMAIN handlers \cup {q} /\ handlers'[q] = t
      /\ \A i \in DOMAIN handlers : handlers'[i] = handlers[i]
  BY <1>1, <1>4, <1>7 DEF EmplaceHandler, At
<1>9. Still /\ Waiting(call'[t]) /\ call'[t].id = q
  BY <1>3, <1>5, <1>6 DEF Still, Waiting
<1>10. Owed'
  <2>1. \A p \in asked' \ asked : /\ Waiting(call'[p.of]) /\ call'[p.of].id = p.id
                                  /\ p.kind = call'[p.of].kind /\ p.file = call'[p.of].file
    BY <1>1, <1>3, <1>9
  <2>2. Old(hand') /\ \A i \in 1..Len(queue') : Old(queue'[i])
    BY <1>1 DEF Old
  <2> QED BY <1>9, <2>1, <2>2, OwedKept
<1>11. Once'
  <2>1. hand.to # q /\ \A i \in 1..Len(queue) : queue[i].to # q
    BY <1>5, <1>6 DEF Owed, Answers, Waits, Waiting
  <2> QED BY <1>1, <2>1 DEF Once
<1>12. HandlersMatch'
  <2>1. ASSUME NEW i \in DOMAIN handlers'
        PROVE  handlers'[i] \in Threads /\ Waiting(call'[handlers'[i]]) /\ call'[handlers'[i]].id = i
    <3>1. CASE i = q
      BY <1>8, <1>9, <3>1
    <3>2. CASE i \in DOMAIN handlers
      BY <1>8, <1>9, <3>2 DEF HandlersMatch, Waits, Waiting, Still, TypeOK
    <3> QED BY <1>8, <3>1, <3>2
  <2>2. ASSUME NEW u \in Threads, Waiting(call'[u])
        PROVE  call'[u].id \in DOMAIN handlers' \/ call'[u].kind \in Failures \cap {"send", "download"}
    <3>1. CASE u = t
      BY <1>8, <1>9, <3>1
    <3>2. CASE u # t
      BY <1>3, <1>8, <2>2, <3>2 DEF HandlersMatch, Waits, Waiting
    <3> QED BY <3>1, <3>2
  <2> QED BY <2>1, <2>2 DEF HandlersMatch, Waits, Waiting
<1>13. OwnAnswer'
  BY <1>3 DEF OwnAnswer
<1> QED BY <1>10, <1>11, <1>12, <1>13

\* The handler writes to the call that the answer is for, and leaves nothing
\* behind.
LEMMA RunHandlerOK ==
  ASSUME TypeOK, Ids, Owed, Once, HandlersMatch, OwnAnswer, NEW t \in Threads, RunHandler(t)
  PROVE  Owed' /\ Once' /\ HandlersMatch' /\ OwnAnswer'
<1>1. /\ hand.to \in DOMAIN handlers /\ hand' = Nothing /\ Erase(hand.to)
      /\ UNCHANGED <<asked, queue>>
  BY DEF RunHandler, TypeOK, tdlib
<1> PICK o \in Threads : o = handlers[hand.to]
  BY <1>1 DEF TypeOK
<1>2. /\ call' \in [Threads -> Calls]
      /\ \A u \in Threads : u # t => call'[u].pc = call[u].pc
      /\ call'[t].pc = "wait" /\ call[t].pc = "handle"
      /\ \A u \in Threads : u # o => call'[u].wait = call[u].wait /\ call'[u].of = call[u].of
      /\ \A u \in Threads : call'[u].id = call[u].id /\ call'[u].kind = call[u].kind
      /\ \/ hand.ok \/ call[o].kind \in {"get", "delete"}
         \/ call'[o].wait = call[o].wait /\ call'[o].of = call[o].of
      /\ hand.ok \/ call[o].kind \in {"get", "delete"} =>
            call'[o].wait = FALSE /\ call'[o].of = hand.of
      /\ \A u \in Threads : u # o => call'[u].file = call[u].file /\ call'[u].msg = call[u].msg
      /\ call[o].kind # "send" => call'[o].file = call[o].file
  BY HandlerOK
<1>3. Waiting(call[o]) /\ call[o].id = hand.to
  BY <1>1 DEF HandlersMatch, Waits, Waiting
<1>4. \A u \in Threads : Waiting(call[u]) /\ call[u].id = hand.to => u = o
  BY <1>3 DEF Ids, Live, Waiting
<1>5. hand.to # 0
  <2>1. call[o].id \in 1..current /\ current \in Nat
    BY <1>3 DEF Ids, Live, Waiting, TypeOK
  <2> QED BY <1>3, <2>1
<1>6. hand.of = o /\ (hand.ok \/ call[o].kind \in Failures)
  BY <1>4, <1>5 DEF Owed, Answers, Waits, Waiting
<1>7. \A u \in Threads : u # o /\ Waiting(call[u]) => Waiting(call'[u])
  BY <1>2 DEF Waiting
<1>8. \A u \in Threads : Waiting(call'[u]) => Waiting(call[u])
  BY <1>2, <1>3 DEF Waiting
<1>9. Owed'
  <2>1. \A p \in asked : /\ p.of \in Threads /\ Waiting(call[p.of]) /\ call[p.of].id = p.id /\ p.of # o
                         /\ p.kind = call[p.of].kind /\ p.file = call[p.of].file
    BY <1>3, AskedIds DEF Owed, Once, Waits, Waiting
  <2>2. \A i \in 1..Len(queue) : queue[i].to # 0 =>
          /\ queue[i].of \in Threads \ {o} /\ Waiting(call[queue[i].of])
          /\ call[queue[i].of].id = queue[i].to
          /\ queue[i].ok \/ call[queue[i].of].kind \in Failures
    BY <1>3, <1>5 DEF Owed, Once, Answers, Waits, Waiting
  <2>3. (\A p \in asked : Waits(p.id, p.of) /\ p.kind = call[p.of].kind /\ p.file = call[p.of].file)'
    BY <1>1, <1>2, <1>7, <2>1 DEF Waits, Waiting
  <2>4. (\A i \in 1..Len(queue) : Answers(queue[i]))'
    BY <1>1, <1>2, <1>7, <2>2 DEF Answers, Waits, Waiting
  <2>5. Answers(hand)'
    BY <1>1 DEF Answers, Nothing, FileUpdate
  <2> QED BY <2>3, <2>4, <2>5 DEF Owed
<1>10. Once'
  <2>1. hand'.to = 0
    BY <1>1 DEF Nothing, FileUpdate
  <2> QED BY <1>1, <2>1, AskedIds DEF Once
<1>11. HandlersMatch'
  <2>1. /\ DOMAIN handlers' = DOMAIN handlers \ {hand.to}
        /\ \A i \in DOMAIN handlers' : handlers'[i] = handlers[i]
    BY <1>1 DEF Erase, Restrict
  <2>2. ASSUME NEW i \in DOMAIN handlers'
        PROVE  Waiting(call'[handlers'[i]]) /\ call'[handlers'[i]].id = i
    <3>1. /\ handlers[i] \in Threads /\ Waiting(call[handlers[i]]) /\ call[handlers[i]].id = i
          /\ i # hand.to /\ handlers'[i] = handlers[i]
      BY <2>1, <2>2 DEF HandlersMatch, Waits, Waiting, TypeOK
    <3>2. handlers[i] # o
      BY <1>3, <3>1
    <3> QED BY <1>2, <1>7, <3>1, <3>2
  <2>3. ASSUME NEW u \in Threads, Waiting(call'[u])
        PROVE  call'[u].id \in DOMAIN handlers' \/ call'[u].kind \in Failures \cap {"send", "download"}
    <3>1. call[u].id \in DOMAIN handlers \/ call[u].kind \in Failures \cap {"send", "download"}
      BY <1>8, <2>3 DEF HandlersMatch, Waits, Waiting
    <3>2. CASE u # o
      BY <1>2, <1>4, <1>8, <2>1, <2>3, <3>1, <3>2
    <3>3. CASE u = o
      <4>1. ~(hand.ok \/ call[o].kind \in {"get", "delete"})
        BY <1>2, <2>3, <3>3 DEF Waiting
      <4>2. call[o].kind \in Kinds
        BY DEF TypeOK, Calls
      <4> QED BY <1>2, <1>6, <3>3, <4>1, <4>2 DEF Kinds
    <3> QED BY <3>2, <3>3
  <2> QED BY <2>2, <2>3 DEF HandlersMatch, Waits, Waiting
<1>12. OwnAnswer'
  <2>1. ASSUME NEW u \in Threads, ~call'[u].wait PROVE call'[u].of \in {u, NoThread}
    <3>1. CASE u # o
      BY <1>2, <2>1, <3>1 DEF OwnAnswer
    <3>2. CASE u = o
      BY <1>2, <1>3, <1>6, <2>1, <3>2 DEF Waiting
    <3> QED BY <3>1, <3>2
  <2> QED BY <2>1 DEF OwnAnswer
<1> QED BY <1>9, <1>10, <1>11, <1>12

\* A step in which no threads meet keeps it.
LEMMA InvStep == ASSUME Inv, [Next]_vars, ~raced' PROVE Inv'
<1> USE DEF Inv
<1>1. TypeOK' /\ Ids'
  BY TypeStep, IdsStep
<1>2. ASSUME Still, NoMore, UNCHANGED handlers, OwnAnswer', asked' = asked, Old(hand'),
             \A i \in 1..Len(queue') : Old(queue'[i]), Once'
      PROVE  Inv'
  BY <1>1, <1>2, MatchKept, OwedKept
<1>3. ASSUME UNCHANGED <<queue, hand>> PROVE Old(hand') /\ \A i \in 1..Len(queue') : Old(queue'[i])
  BY <1>3 DEF Old
<1>4. ASSUME UNCHANGED call PROVE Still /\ NoMore /\ OwnAnswer'
  BY <1>4 DEF Still, NoMore, OwnAnswer
<1>5. CASE \E t \in Threads : Call(t) \/ Go(t) \/ Lock(t)
  <2> PICK t \in Threads : Call(t) \/ Go(t) \/ Lock(t)
    BY <1>5
  <2>1. CASE Call(t) \/ NextQueryId(t) \/ Lock(t) \/ Unlock(t)
    <3>1. Still /\ NoMore /\ OwnAnswer' /\ UNCHANGED handlers
      BY <2>1, CallKept
    <3>2. UNCHANGED <<asked, queue, hand>>
      BY <2>1 DEF Call, GetMessage, DownloadFile, SendFile, DeleteFile, Begin, NextQueryId, Lock,
                  Unlock, tdlib
    <3>3. Once'
      BY <3>2 DEF Once
    <3> QED BY <1>2, <1>3, <3>1, <3>2, <3>3
  <2>2. CASE ProcessUpdate(t) \/ ProcessResponse(t)
    <3>1. Still /\ NoMore /\ OwnAnswer' /\ UNCHANGED handlers
      BY <2>2, CallKept
    <3>2. /\ asked' = asked /\ Old(hand') /\ \A i \in 1..Len(queue') : Old(queue'[i])
          /\ Once'
      BY <2>2, Received
    <3> QED BY <1>2, <3>1, <3>2
  <2>3. CASE SendQuery(t)
    BY <1>1, <2>3, SendQueryOK
  <2>4. CASE RunHandler(t)
    BY <1>1, <2>4, RunHandlerOK
  <2> QED BY <2>1, <2>2, <2>3, <2>4 DEF Go
<1>6. CASE Respond
  <2>1. UNCHANGED <<call, handlers>>
    BY <1>6 DEF Respond
  <2>2. HandlersMatch' /\ OwnAnswer'
    BY <1>4, <2>1, MatchKept
  <2> QED BY <1>1, <1>6, <2>2, Responded
<1>7. CASE Upload \/ Post \/ PostFails
  <2>1. /\ UNCHANGED <<current, handlers, raced, mtx, call, hand, results, asked, stored, lastMsg>>
        /\ queue' = queue \/ \E r \in Responses : r.to = 0 /\ queue' = Append(queue, r)
    BY <1>7, UpdateOK
  <2>2. PICK r \in Responses : r.to = 0 /\ (queue' = queue \/ queue' = Append(queue, r))
    <3>1. Nothing \in Responses /\ Nothing.to = 0
      BY DEF Nothing, FileUpdate, Responses
    <3> QED BY <2>1, <3>1
  <2>3. Old(hand') /\ (\A i \in 1..Len(queue') : Old(queue'[i])) /\ Once'
    BY <2>1, <2>2, Updated
  <2> QED BY <1>2, <1>4, <2>1, <2>3
<1>8. CASE UNCHANGED vars
  <2>1. UNCHANGED <<call, handlers, asked, queue, hand>>
    BY <1>8 DEF vars, tdlib
  <2>2. Once'
    BY <2>1 DEF Once
  <2> QED BY <1>2, <1>3, <1>4, <2>1, <2>2
<1> QED BY <1>5, <1>6, <1>7, <1>8 DEF Next

\* Nothing is on its way at first.
LEMMA InitInv == Init => Inv
<1> SUFFICES ASSUME Init PROVE Inv
  OBVIOUS
<1>1. TypeOK
  BY InitTyped
<1>2. /\ \A t \in Threads : call[t].pc = "idle" /\ call[t].of = NoThread
      /\ asked = {} /\ queue = <<>> /\ hand.to = 0 /\ DOMAIN handlers = {}
  BY DEF Init, NoCall, Nothing, FileUpdate
<1>3. Ids
  BY <1>2 DEF Ids, AtHandlers, Live
<1>4. Owed /\ Once
  BY <1>2 DEF Owed, Once, Answers
<1>5. HandlersMatch /\ OwnAnswer
  BY <1>2 DEF HandlersMatch, OwnAnswer, Waits
<1> QED BY <1>1, <1>3, <1>4, <1>5 DEF Inv

-----------------------------------------------------------------------------
(* What TDLib says is so: of files that are on the server and of messages   *)
(* that are in the chat.                                                    *)

IsSo(r) == /\ r.up => r.file \in uploaded
           /\ r.to = 0 /\ r.file = NoFile => r.msg \in posted

Truth ==
    /\ uploads \subseteq uploaded /\ sent \subseteq posted
    /\ hand.up => hand.file \in uploaded
    /\ \A i \in 1..Len(queue) : IsSo(queue[i])
    /\ \A t \in Threads : call[t].kind \in {"download", "delete"} => call[t].file \in Files

\* Answers and updates tell the state of a file when they are sent.
LEMMA SaysSo ==
  ASSUME NEW f \in Files \cup {NoFile}
  PROVE  /\ \A q, ok, m : q.id # 0 => IsSo(Answer(q, ok, f, m))
         /\ f # NoFile => \A d : IsSo(FileUpdate(f, d, f \in uploaded))
<1>1. ASSUME NEW q, NEW ok, NEW m, q.id # 0 PROVE IsSo(Answer(q, ok, f, m))
  <2>1. Answer(q, ok, f, m).to = q.id /\ (Answer(q, ok, f, m).up = (f \in uploaded))
        /\ Answer(q, ok, f, m).file = f
    BY DEF Answer
  <2> QED BY <1>1, <2>1 DEF IsSo
<1>2. ASSUME NEW d, f # NoFile PROVE IsSo(FileUpdate(f, d, f \in uploaded))
  <2>1. /\ FileUpdate(f, d, f \in uploaded).file = f
        /\ FileUpdate(f, d, f \in uploaded).up = (f \in uploaded)
    BY DEF FileUpdate
  <2> QED BY <1>2, <2>1 DEF IsSo
<1> QED BY <1>1, <1>2

\* TDLib answers with what is so.
LEMMA RespondTrue ==
  ASSUME TypeOK, Ids, Owed, Truth, Respond
  PROVE  /\ UNCHANGED <<call, hand, results, uploaded, posted>>
         /\ \E a, r \in Responses : /\ IsSo(a) /\ IsSo(r)
                                    /\ queue' = Append(queue, a) \/ queue' = Append(Append(queue, r), a)
<1> PICK q \in asked : /\ Fail(q) \/ Give(q) \/ Fetch(q) \/ Discard(q) \/ Accept(q)
                      /\ UNCHANGED <<current, handlers, raced, mtx, call, hand, results>>
  BY DEF Respond
<1>1. /\ q \in Requests /\ q.file \in Files \cup {NoFile} /\ q.of \in Threads
      /\ queue \in Seq(Responses) /\ lastMsg \in Nat /\ q.id # 0
      /\ q.kind \in {"download", "delete"} => q.file \in Files /\ q.file # NoFile
  <2>1. q.id # 0 /\ q.of \in Threads
    BY AskedIds
  <2>2. q.kind = call[q.of].kind /\ q.file = call[q.of].file
    BY DEF Owed
  <2> QED BY <2>1, <2>2, TdAssumption DEF TypeOK, Requests, Truth
<1>2. UNCHANGED <<uploaded, posted>>
  BY DEF Fail, Give, Fetch, Discard, Accept
<1>3. ASSUME NEW ok \in BOOLEAN, NEW f \in Files \cup {NoFile}, NEW m \in Nat
      PROVE  Answer(q, ok, f, m) \in Responses /\ IsSo(Answer(q, ok, f, m))
  BY <1>1, ResponseOK, SaysSo
<1>4. ASSUME NEW d \in BOOLEAN, q.kind \in {"download", "delete"}
      PROVE  /\ FileUpdate(q.file, d, q.file \in uploaded) \in Responses
             /\ IsSo(FileUpdate(q.file, d, q.file \in uploaded))
  <2>1. (q.file \in uploaded) \in BOOLEAN
    OBVIOUS
  <2> PICK b \in BOOLEAN : b = (q.file \in uploaded)
    BY <2>1
  <2>2. FileUpdate(q.file, d, b) \in Responses
    BY <1>1, <1>4 DEF FileUpdate, Responses
  <2> QED BY <1>1, <1>4, <2>2, SaysSo
<1>5. CASE Fail(q) \/ Give(q) \/ Accept(q)
  <2>1. \E a \in Responses : IsSo(a) /\ queue' = Append(queue \o <<>>, a)
    <3>1. CASE Fail(q)
      <4> PICK a \in Responses : a = Answer(q, FALSE, q.file, 0) /\ IsSo(a)
        BY <1>1, <1>3
      <4> QED BY <3>1 DEF Fail, Reply
    <3>2. CASE Give(q)
      <4> PICK a \in Responses : a = Answer(q, TRUE, NoFile, 0) /\ IsSo(a)
        BY <1>1, <1>3
      <4> QED BY <3>2 DEF Give, Reply
    <3>3. CASE Accept(q)
      <4> PICK f \in FilesOf[q.of] : Reply(q, <<>>, Answer(q, TRUE, f, lastMsg + 1))
        BY <3>3 DEF Accept
      <4>1. f \in Files /\ lastMsg + 1 \in Nat
        BY <1>1, TdAssumption
      <4> PICK a \in Responses : a = Answer(q, TRUE, f, lastMsg + 1) /\ IsSo(a)
        BY <1>3, <4>1
      <4> QED BY DEF Reply
    <3> QED BY <1>5, <3>1, <3>2, <3>3
  <2> PICK a \in Responses : IsSo(a) /\ queue' = Append(queue \o <<>>, a)
    BY <2>1
  <2>2. queue' = Append(queue, a)
    BY <1>1, Joined
  <2> QED BY <1>2, <2>2
<1>6. CASE Fetch(q) \/ Discard(q)
  <2>1. \E a, r \in Responses : /\ IsSo(a) /\ IsSo(r)
                                /\ queue' = Append(queue \o <<r>>, a) \/ queue' = Append(queue \o <<>>, a)
    <3> PICK a \in Responses : a = Answer(q, TRUE, q.file, 0) /\ IsSo(a)
      BY <1>1, <1>3
    <3>1. CASE Fetch(q)
      <4> PICK r \in Responses : r = FileUpdate(q.file, TRUE, q.file \in uploaded) /\ IsSo(r)
        BY <1>4, <3>1 DEF Fetch
      <4> QED BY <3>1 DEF Fetch, Reply
    <3>2. CASE Discard(q)
      <4> PICK r \in Responses : r = FileUpdate(q.file, FALSE, q.file \in uploaded) /\ IsSo(r)
        BY <1>4, <3>2 DEF Discard
      <4> QED BY <3>2 DEF Discard, Reply
    <3> QED BY <1>6, <3>1, <3>2
  <2> PICK a \in Responses, r \in Responses :
         /\ IsSo(a) /\ IsSo(r)
         /\ queue' = Append(queue \o <<r>>, a) \/ queue' = Append(queue \o <<>>, a)
    BY <2>1
  <2>2. /\ Append(queue \o <<>>, a) = Append(queue, a)
        /\ Append(queue \o <<r>>, a) = Append(Append(queue, r), a)
    BY <1>1, Joined
  <2> QED BY <1>2, <2>2
<1> QED BY <1>5, <1>6

\* What is so stays so, of the queue and of what comes at its end.
LEMMA TrueKept ==
  ASSUME TypeOK, Truth, uploaded \subseteq uploaded', posted \subseteq posted',
         NEW a \in Responses, NEW r \in Responses, IsSo(a)', IsSo(r)',
         queue' \in {queue, Append(queue, a), Append(Append(queue, r), a)},
         UNCHANGED <<call, hand, results>>
  PROVE  Truth'
<1>1. \A i \in 1..Len(queue) : IsSo(queue[i])'
  BY DEF Truth, IsSo
<1>2. queue \in Seq(Responses)
  BY DEF TypeOK
<1>3. \A i \in 1..Len(queue') : queue'[i] = a \/ queue'[i] = r \/ (i \in 1..Len(queue) /\ queue'[i] = queue[i])
  BY <1>2
<1>4. (\A i \in 1..Len(queue) : IsSo(queue[i]))'
  BY <1>1, <1>3 DEF IsSo
<1> QED BY <1>4 DEF Truth, results

\* The steps of TDLib keep it.
LEMMA TdlibTrue ==
  ASSUME TypeOK, Ids, Owed, Truth, Respond \/ Upload \/ Post \/ PostFails
  PROVE  Truth' /\ UNCHANGED call /\ uploaded \subseteq uploaded' /\ posted \subseteq posted'
<1>1. CASE Respond
  <2>1. /\ UNCHANGED <<call, hand, results, uploaded, posted>>
        /\ \E a, r \in Responses : /\ IsSo(a) /\ IsSo(r)
                                   /\ queue' = Append(queue, a) \/ queue' = Append(Append(queue, r), a)
    BY <1>1, RespondTrue
  <2> PICK a \in Responses, r \in Responses :
         /\ IsSo(a) /\ IsSo(r)
         /\ queue' = Append(queue, a) \/ queue' = Append(Append(queue, r), a)
    BY <2>1
  <2>2. IsSo(a)' /\ IsSo(r)'
    BY <2>1 DEF IsSo
  <2> QED BY <2>1, <2>2, TrueKept
<1>2. ASSUME NEW r \in Responses, IsSo(r)', queue' \in {queue, Append(queue, r)},
             uploaded \subseteq uploaded', posted \subseteq posted', UNCHANGED <<call, hand, results>>
      PROVE  Truth'
  BY <1>2, TrueKept
<1>3. CASE Upload
  <2> PICK p \in posting :
        /\ uploaded' = uploaded \cup {p.file}
        /\ queue' = Append(queue, FileUpdate(p.file, p.file \in stored, TRUE))
        /\ UNCHANGED <<call, hand, results, posted>>
    BY <1>3 DEF Upload
  <2>1. p.file \in Files /\ p.file # NoFile
    BY TdAssumption DEF TypeOK
  <2>2. (p.file \in stored) \in BOOLEAN
    OBVIOUS
  <2> PICK b \in BOOLEAN : b = (p.file \in stored)
    BY <2>2
  <2>3. /\ FileUpdate(p.file, b, TRUE) \in Responses /\ FileUpdate(p.file, b, TRUE).file = p.file
    BY <2>1 DEF FileUpdate, Responses
  <2> PICK r \in Responses : r = FileUpdate(p.file, p.file \in stored, TRUE) /\ r.file = p.file
    BY <2>3
  <2>4. IsSo(r)'
    BY <2>1 DEF IsSo
  <2> QED BY <1>2, <2>4
<1>4. CASE Post
  <2> PICK p \in posting :
        /\ posted' = posted \cup {p.msg} /\ queue' = Append(queue, SentUpdate(p.msg))
        /\ UNCHANGED <<call, hand, results, uploaded>>
    BY <1>4 DEF Post
  <2>1. p.msg \in Nat
    BY DEF TypeOK
  <2>2. /\ SentUpdate(p.msg) \in Responses /\ SentUpdate(p.msg).msg = p.msg /\ SentUpdate(p.msg).up = FALSE
    BY <2>1 DEF SentUpdate, Responses
  <2> PICK r \in Responses : r = SentUpdate(p.msg) /\ r.msg = p.msg /\ ~r.up
    BY <2>2
  <2>3. IsSo(r)'
    BY DEF IsSo
  <2> QED BY <1>2, <2>3
<1>5. CASE PostFails
  <2>1. UNCHANGED <<call, hand, results, queue, uploaded, posted>>
    BY <1>5 DEF PostFails
  <2> QED BY <2>1 DEF Truth, IsSo, results
<1> QED BY <1>1, <1>3, <1>4, <1>5

\* The steps of threads keep it, and SendFile returns when it has been told so.
LEMMA ThreadTrue ==
  ASSUME Inv, Truth, SentIsPosted, NEW t \in Threads, Call(t) \/ Go(t) \/ Lock(t)
  PROVE  Truth' /\ SentIsPosted'
<1>0. call \in [Threads -> Calls] /\ TypeOK /\ HandlersMatch
  BY DEF Inv, TypeOK
<1>1. ASSUME UNCHANGED <<hand, uploads, sent, queue, uploaded, posted>>,
             \A u \in Threads : u # t => call'[u] = call[u],
             call'[t].kind \in {"download", "delete"} => call'[t].file \in Files,
             call'[t].kind = "send" /\ call'[t].pc = "idle" =>
                call'[t].msg \in posted /\ call'[t].file \in uploaded
      PROVE  Truth' /\ SentIsPosted'
  <2>1. \A u \in Threads : call'[u].kind \in {"download", "delete"} => call'[u].file \in Files
    BY <1>1 DEF Truth
  <2>2. SentIsPosted'
    BY <1>1 DEF SentIsPosted, At
  <2> QED BY <1>1, <2>1, <2>2 DEF Truth, IsSo
<1>2. ASSUME NEW k \in Kinds, NEW f \in Files \cup {NoFile}, Begin(t, k, f),
             k \in {"download", "delete"} => f \in Files
      PROVE  Truth' /\ SentIsPosted'
  <2>1. /\ call'[t].pc = "bump" /\ call'[t].kind = k /\ call'[t].file = f
        /\ \A u \in Threads : u # t => call'[u] = call[u]
        /\ UNCHANGED <<hand, results, tdlib>>
    BY <1>0, <1>2, BeginOK
  <2> QED BY <1>1, <1>2, <2>1 DEF results, tdlib
<1>3. CASE Call(t)
  <2>1. CASE GetMessage(t) \/ SendFile(t)
    BY <1>2, <2>1 DEF GetMessage, SendFile, Kinds
  <2>2. CASE DownloadFile(t)
    BY <1>2, <2>2, TdAssumption DEF DownloadFile, Kinds
  <2>3. CASE DeleteFile(t)
    <3>1. call[t].pc = "idle" /\ call[t].kind \in {"download", "send"} /\ Begin(t, "delete", call[t].file)
      BY <2>3 DEF DeleteFile, MustDelete, Begin, At
    <3>2. call[t].file \in Files
      BY <1>0, <3>1 DEF Truth, SentIsPosted, At, TypeOK
    <3> QED BY <1>2, <3>1, <3>2 DEF Kinds
  <2> QED BY <1>3, <2>1, <2>2, <2>3 DEF Call
<1>4. ASSUME NEW l \in PCs, Goto(t, l), UNCHANGED <<hand, uploads, sent, queue, uploaded, posted>>,
             l = "idle" => Done(t)
      PROVE  Truth' /\ SentIsPosted'
  <2>1. /\ call'[t].pc = l
        /\ \A u \in Threads : u # t => call'[u] = call[u]
        /\ call'[t].kind = call[t].kind /\ call'[t].file = call[t].file /\ call'[t].msg = call[t].msg
    BY <1>0, <1>4, GotoOK
  <2> QED BY <1>1, <1>4, <2>1 DEF Truth, Done
<1>5. CASE NextQueryId(t)
  <2>1. /\ call' = [call EXCEPT ![t].pc = "emplace", ![t].id = @ + 1]
        /\ UNCHANGED <<hand, results, tdlib>>
    BY <1>5 DEF NextQueryId
  <2>2. /\ call'[t].pc = "emplace" /\ call'[t].kind = call[t].kind /\ call'[t].file = call[t].file
        /\ \A u \in Threads : u # t => call'[u] = call[u]
    BY <1>0, <2>1 DEF Calls
  <2> QED BY <1>1, <2>1, <2>2 DEF Truth, results, tdlib
<1>6. CASE SendQuery(t) \/ Lock(t) \/ Unlock(t)
  <2>1. UNCHANGED <<hand, uploads, sent, queue, uploaded, posted>>
    BY <1>6 DEF SendQuery, Lock, Unlock, results, tdlib
  <2>2. Goto(t, "lock") \/ Goto(t, "wait") \/ (Goto(t, "idle") /\ Done(t))
    BY <1>6 DEF SendQuery, Lock, Unlock
  <2> QED BY <1>4, <2>1, <2>2 DEF PCs
<1>7. CASE ProcessUpdate(t) \/ ProcessResponse(t)
  <2>1. /\ Len(queue') = Len(queue) - 1 /\ Len(queue) \in Nat \ {0} /\ Head(queue) = queue[1]
        /\ \A i \in 1..Len(queue') : queue'[i] = queue[i + 1]
    BY <1>0, <1>7, ReceivingOK DEF ProcessUpdate, ProcessResponse
  <2>2. IsSo(Head(queue)) /\ \A i \in 1..Len(queue') : i + 1 \in 1..Len(queue)
    BY <2>1 DEF Truth
  <2>3. UNCHANGED <<uploaded, posted>>
    BY <1>7 DEF ProcessUpdate, ProcessResponse
  <2>4. (\A i \in 1..Len(queue) : IsSo(queue[i]))'
    BY <2>1, <2>2, <2>3 DEF Truth, IsSo
  <2>5. CASE ProcessUpdate(t)
    <3>1. UNCHANGED <<call, hand>>
      BY <2>5 DEF ProcessUpdate
    <3>2. sent' \subseteq posted' /\ uploads' \subseteq uploaded'
      BY <2>2, <2>3, <2>5 DEF ProcessUpdate, Mark, Truth, IsSo
    <3> QED BY <2>3, <2>4, <3>1, <3>2 DEF Truth, SentIsPosted, At
  <2>6. CASE ProcessResponse(t)
    <3>1. /\ UNCHANGED results /\ (hand' = hand \/ hand' = Head(queue))
          /\ UNCHANGED call \/ Goto(t, "handle")
      BY <2>6 DEF ProcessResponse
    <3>2. \A u \in Threads : /\ call'[u].pc = "idle" => call[u].pc = "idle"
                             /\ call'[u].kind = call[u].kind /\ call'[u].file = call[u].file
                             /\ call'[u].msg = call[u].msg
      BY <1>0, <3>1, GotoOK DEF PCs
    <3>3. hand'.up => hand'.file \in uploaded'
      BY <2>2, <2>3, <3>1 DEF Truth, IsSo
    <3> QED BY <2>3, <2>4, <3>1, <3>2, <3>3 DEF Truth, SentIsPosted, At, results
  <2> QED BY <1>7, <2>5, <2>6
<1>8. CASE RunHandler(t)
  <2>1. call[t].pc = "handle" /\ hand.to \in DOMAIN handlers
    BY <1>0, <1>8 DEF RunHandler, At, TypeOK
  <2> PICK o \in Threads : o = handlers[hand.to]
    BY <1>0, <2>1 DEF TypeOK
  <2>2. call[o].pc \in {"lock", "wait", "handle"}
    BY <1>0, <2>1 DEF HandlersMatch, Waits
  <2>3. /\ \A u \in Threads : u # t => call'[u].pc = call[u].pc
        /\ call'[t].pc = "wait"
        /\ \A u \in Threads : call'[u].kind = call[u].kind
        /\ \A u \in Threads : u # o => call'[u].file = call[u].file /\ call'[u].msg = call[u].msg
        /\ call[o].kind # "send" => call'[o].file = call[o].file
    BY <1>0, <1>8, HandlerOK
  <2>4. /\ UNCHANGED <<sent, queue, uploaded, posted>> /\ hand' = Nothing
        /\ uploads' \in {uploads, Mark(uploads, hand.file, hand.up)}
    BY <1>8 DEF RunHandler, tdlib
  <2>5. hand'.up = FALSE
    BY <2>4 DEF Nothing, FileUpdate
  <2>6. uploads' \subseteq uploaded'
    BY <2>4 DEF Mark, Truth
  <2>7. \A u \in Threads : call'[u].kind \in {"download", "delete"} => call'[u].file \in Files
    BY <2>3 DEF Truth
  <2>8. SentIsPosted'
    BY <2>2, <2>3, <2>4 DEF SentIsPosted, At
  <2> QED BY <2>4, <2>5, <2>6, <2>7, <2>8 DEF Truth, IsSo
<1> QED BY <1>3, <1>5, <1>6, <1>7, <1>8 DEF Go

\* Every step keeps it.
LEMMA TruthStep ==
  ASSUME Inv, Truth, SentIsPosted, [Next]_vars
  PROVE  Truth' /\ SentIsPosted'
<1>1. CASE Respond \/ Upload \/ Post \/ PostFails
  <2>1. Truth' /\ UNCHANGED call /\ uploaded \subseteq uploaded' /\ posted \subseteq posted'
    BY <1>1, TdlibTrue DEF Inv
  <2> QED BY <2>1 DEF SentIsPosted, At
<1>2. CASE UNCHANGED vars
  BY <1>2 DEF vars, tdlib, results, Truth, IsSo, SentIsPosted, At
<1> QED BY <1>1, <1>2, ThreadTrue DEF Next

-----------------------------------------------------------------------------
(* TdClient implements CallService.                                        *)

\* What is asked or answered has its handler until it is handled; an answer is
\* in hand only while it is handled; and the messages that wait for their file
\* have been given out.
Heard ==
    /\ hand.to # 0 => \E u \in Threads : call[u].pc = "handle"
    /\ \A q \in asked : q.id \in DOMAIN handlers
    /\ \A i \in 1..Len(queue) : queue[i].to # 0 => queue[i].to \in DOMAIN handlers
    /\ \A p \in posting : p.msg \in 1..lastMsg

\* Steps of a thread that do not touch what is on its way.
LEMMA HeardKept ==
  ASSUME Heard, UNCHANGED <<handlers, hand, asked, queue, posting, lastMsg>>,
         \A u \in Threads : call[u].pc = "handle" => call'[u].pc = "handle"
  PROVE  Heard'
BY DEF Heard

\* Threads keep it.
LEMMA HeardThread ==
  ASSUME Inv, Heard, NEW t \in Threads, Call(t) \/ Go(t) \/ Lock(t)
  PROVE  Heard'
<1>0. call \in [Threads -> Calls] /\ TypeOK /\ Ids /\ Once /\ Owed /\ HandlersMatch
  BY DEF Inv, TypeOK
<1>1. CASE Call(t)
  <2>1. ASSUME NEW k \in Kinds, NEW f \in Files \cup {NoFile}, Begin(t, k, f) PROVE Heard'
    BY <1>0, <2>1, BeginOK, HeardKept DEF tdlib
  <2>2. call[t].file \in Files \cup {NoFile}
    BY <1>0 DEF Calls
  <2> QED BY <1>1, <2>1, <2>2, TdAssumption DEF Call, GetMessage, DownloadFile, SendFile, DeleteFile, Kinds
<1>2. CASE NextQueryId(t)
  <2>1. /\ call[t].pc = "bump" /\ UNCHANGED <<handlers, hand, tdlib>>
        /\ call' = [call EXCEPT ![t].pc = "emplace", ![t].id = @ + 1]
    BY <1>2 DEF NextQueryId, At
  <2>2. \A u \in Threads : u # t => call'[u] = call[u]
    BY <1>0, <2>1
  <2> QED BY <2>1, <2>2, HeardKept DEF tdlib
<1>3. CASE SendQuery(t)
  <2> DEFINE q == call[t].id
  <2>1. /\ call[t].pc = "emplace" /\ EmplaceHandler(t) /\ Goto(t, "lock")
        /\ asked' = asked \cup {[id |-> q, of |-> t, kind |-> call[t].kind, file |-> call[t].file]}
        /\ UNCHANGED <<hand, queue, posting, lastMsg>>
    BY <1>3 DEF SendQuery, At
  <2>2. \A u \in Threads : u # t => call'[u] = call[u]
    BY <1>0, <2>1, GotoOK DEF PCs
  <2>3. \A u \in Threads \ {t} : call[u].pc \notin {"emplace", "handle"}
    BY <1>0, <2>1 DEF Ids, AtHandlers
  <2>4. DOMAIN handlers' = DOMAIN handlers \cup {q}
    BY <2>1, <2>3 DEF EmplaceHandler, At
  <2> QED BY <2>1, <2>3, <2>4 DEF Heard
<1>4. CASE Lock(t)
  <2>1. call[t].pc = "lock" /\ Goto(t, "wait") /\ UNCHANGED <<handlers, hand, tdlib>>
    BY <1>4 DEF Lock, At
  <2>2. \A u \in Threads : u # t => call'[u] = call[u]
    BY <1>0, <2>1, GotoOK DEF PCs
  <2> QED BY <2>1, <2>2, HeardKept DEF tdlib
<1>5. CASE Unlock(t)
  <2>1. call[t].pc = "wait" /\ Goto(t, "idle") /\ UNCHANGED <<handlers, hand, tdlib>>
    BY <1>5 DEF Unlock, At
  <2>2. \A u \in Threads : u # t => call'[u] = call[u]
    BY <1>0, <2>1, GotoOK DEF PCs
  <2> QED BY <2>1, <2>2, HeardKept DEF tdlib
<1>6. CASE ProcessUpdate(t) \/ ProcessResponse(t)
  <2>1. /\ Len(queue') = Len(queue) - 1 /\ Len(queue) \in Nat \ {0} /\ Head(queue) = queue[1]
        /\ \A i \in 1..Len(queue') : queue'[i] = queue[i + 1]
    BY <1>0, <1>6, ReceivingOK DEF ProcessUpdate, ProcessResponse
  <2>2. \A i \in 1..Len(queue') : i + 1 \in 1..Len(queue)
    BY <2>1
  <2>3. UNCHANGED <<handlers, asked, posting, lastMsg>>
    BY <1>6 DEF ProcessUpdate, ProcessResponse
  <2>4. \A i \in 1..Len(queue') : queue'[i].to # 0 => queue'[i].to \in DOMAIN handlers'
    BY <2>1, <2>2, <2>3 DEF Heard
  <2>5. hand'.to # 0 => \E u \in Threads : call'[u].pc = "handle"
    <3>1. CASE UNCHANGED <<call, hand>>
      BY <3>1 DEF Heard
    <3>2. CASE Goto(t, "handle")
      BY <1>0, <3>2, GotoOK DEF PCs
    <3> QED BY <1>6, <3>1, <3>2 DEF ProcessUpdate, ProcessResponse
  <2> QED BY <2>3, <2>4, <2>5 DEF Heard
<1>7. CASE RunHandler(t)
  <2>1. /\ call[t].pc = "handle" /\ hand' = Nothing /\ Erase(hand.to)
        /\ UNCHANGED <<asked, queue, posting, lastMsg>> /\ hand.to \in DOMAIN handlers
    BY <1>0, <1>7 DEF RunHandler, At, tdlib, TypeOK
  <2>2. DOMAIN handlers' = DOMAIN handlers \ {hand.to}
    BY <2>1 DEF Erase, Restrict
  <2>3. hand.to # 0
    <3>1. handlers[hand.to] \in Threads /\ Waits(hand.to, handlers[hand.to])
      BY <1>0, <2>1 DEF HandlersMatch, TypeOK
    <3>2. hand.to \in 1..current /\ current \in Nat
      BY <1>0, <3>1 DEF Waits, Ids, Live, TypeOK
    <3> QED BY <3>2
  <2>4. \A p \in asked : p.id # hand.to
    BY <1>0 DEF Once
  <2>5. \A i \in 1..Len(queue) : queue[i].to # hand.to
    BY <1>0, <2>3 DEF Once
  <2>6. hand'.to = 0
    BY <2>1 DEF Nothing, FileUpdate
  <2> QED BY <2>1, <2>2, <2>4, <2>5, <2>6 DEF Heard
<1> QED BY <1>1, <1>2, <1>3, <1>4, <1>5, <1>6, <1>7 DEF Go

\* Nothing happens, or something happens in TDLib.
LEMMA HeardTdlib ==
  ASSUME Inv, Heard, Respond \/ Upload \/ Post \/ PostFails
  PROVE  Heard'
<1>0. TypeOK /\ queue \in Seq(Responses) /\ lastMsg \in Nat
  BY DEF Inv, TypeOK
<1>1. CASE Respond
  <2> PICK q \in asked, a \in Responses, r \in Responses :
        /\ asked' = asked \ {q}
        /\ a.to = q.id /\ a.of = q.of /\ (a.ok \/ q.kind \in Failures)
        /\ r.to = 0
        /\ queue' = Append(queue, a) \/ queue' = Append(Append(queue, r), a)
        /\ UNCHANGED <<current, handlers, raced, mtx, call, hand, results, uploaded, posted>>
    BY <1>0, <1>1, RespondOK
  <2>1. \A i \in 1..Len(queue') : queue'[i] = a \/ queue'[i] = r \/ (i \in 1..Len(queue) /\ queue'[i] = queue[i])
    BY <1>0
  <2>2. \A i \in 1..Len(queue') : queue'[i].to # 0 => queue'[i].to \in DOMAIN handlers
    BY <2>1 DEF Heard
  <2>3. \A p \in posting' : p.msg \in 1..lastMsg'
    <3>1. \/ UNCHANGED <<posting, lastMsg>>
          \/ \E f : posting' = posting \cup {[msg |-> lastMsg + 1, file |-> f]} /\ lastMsg' = lastMsg + 1
      BY <1>1 DEF Respond, Fail, Give, Fetch, Discard, Accept
    <3> QED BY <1>0, <3>1 DEF Heard
  <2> QED BY <2>2, <2>3 DEF Heard
<1>2. CASE Upload \/ Post \/ PostFails
  <2>1. /\ UNCHANGED <<handlers, call, hand, asked, lastMsg>>
        /\ queue' = queue \/ \E r \in Responses : r.to = 0 /\ queue' = Append(queue, r)
    BY <1>0, <1>2, UpdateOK
  <2>2. PICK r \in Responses : r.to = 0 /\ (queue' = queue \/ queue' = Append(queue, r))
    <3>1. Nothing \in Responses /\ Nothing.to = 0
      BY DEF Nothing, FileUpdate, Responses
    <3> QED BY <2>1, <3>1
  <2>3. \A i \in 1..Len(queue') : queue'[i] = r \/ (i \in 1..Len(queue) /\ queue'[i] = queue[i])
    BY <1>0, <2>2
  <2>4. \A i \in 1..Len(queue') : queue'[i].to # 0 => queue'[i].to \in DOMAIN handlers
    BY <2>2, <2>3 DEF Heard
  <2>5. posting' \subseteq posting
    BY <1>2 DEF Upload, Post, PostFails
  <2> QED BY <2>1, <2>4, <2>5 DEF Heard
<1> QED BY <1>1, <1>2

\* It is invariant.
LEMMA HeardStep == ASSUME Inv, Heard, [Next]_vars PROVE Heard'
<1>1. CASE UNCHANGED vars
  BY <1>1, HeardKept DEF vars, tdlib
<1> QED BY <1>1, HeardThread, HeardTdlib DEF Next

Asked(t) == \E q \in asked : q.of = t

\* What is on its way to a thread is the answer to its call.
LEMMA OnItsWay ==
  ASSUME Inv, NEW t \in Threads
  PROVE  /\ \A r \in Replies(t) : Replies(t) = {r} /\ Waiting(call[t]) /\ ~Asked(t)
         /\ Asked(t) => Waiting(call[t]) /\ Replies(t) = {}
<1>0. TypeOK /\ Ids /\ Owed /\ Once /\ queue \in Seq(Responses)
  BY DEF Inv, TypeOK
<1>1. ASSUME NEW r \in Replies(t)
      PROVE  /\ r.to # 0 /\ Waiting(call[t]) /\ call[t].id = r.to
             /\ r = hand \/ \E i \in 1..Len(queue) : r = queue[i]
  <2>1. r.to # 0 /\ r.of = t /\ (r = hand \/ \E i \in 1..Len(queue) : r = queue[i])
    BY <1>0 DEF Replies, Range
  <2>2. Answers(r)
    BY <1>0, <2>1 DEF Owed
  <2> QED BY <2>1, <2>2 DEF Answers, Waits, Waiting
<1>2. ASSUME NEW r \in Replies(t), NEW s \in Replies(t) PROVE r = s
  <2>1. r.to = s.to /\ r.to # 0
    BY <1>1
  <2> QED BY <1>0, <1>1, <2>1 DEF Once
<1>3. ASSUME NEW q \in asked, q.of = t
      PROVE  Waiting(call[t]) /\ call[t].id = q.id
  BY <1>0, <1>3, AskedIds DEF Waits, Waiting
<1>4. Asked(t) => Replies(t) = {}
  BY <1>0, <1>1, <1>3 DEF Asked, Once
<1> QED BY <1>1, <1>2, <1>3, <1>4 DEF Asked

\* Handling an answer does not depend on where the call is.
LEMMA AnsweredSame ==
  ASSUME NEW c \in Calls, NEW d \in Calls, NEW r,
         c.kind = d.kind, c.file = d.file, c.msg = d.msg, c.wait = d.wait
  PROVE  /\ Answered(c, r).kind = c.kind
         /\ Answered(c, r).wait = Answered(d, r).wait
         /\ Answered(c, r).file = Answered(d, r).file
         /\ Answered(c, r).msg = Answered(d, r).msg
<1>1. CASE r.ok \/ c.kind \in {"get", "delete"}
  <2>1. /\ Answered(c, r).wait = FALSE /\ Answered(c, r).msg = r.msg /\ Answered(c, r).kind = c.kind
        /\ Answered(c, r).file = IF c.kind = "send" THEN r.file ELSE c.file
    BY <1>1 DEF Answered, Calls
  <2>2. /\ Answered(d, r).wait = FALSE /\ Answered(d, r).msg = r.msg
        /\ Answered(d, r).file = IF d.kind = "send" THEN r.file ELSE d.file
    BY <1>1 DEF Answered, Calls
  <2> QED BY <2>1, <2>2
<1>2. CASE ~(r.ok \/ c.kind \in {"get", "delete"})
  BY <1>2 DEF Answered
<1> QED BY <1>1, <1>2

\* What a caller sees depends on the place of its call only by whether it has
\* returned and whether it has been asked.
LEMMA SeenKept ==
  ASSUME NEW t \in Threads, call[t] \in Calls, call'[t] \in Calls,
         Replies(t)' = Replies(t),
         call'[t].kind = call[t].kind, call'[t].file = call[t].file,
         call'[t].msg = call[t].msg, call'[t].wait = call[t].wait,
         call'[t].pc = "idle" <=> call[t].pc = "idle",
         Pending(t)' <=> Pending(t)
  PROVE  SeenCall(t)' = SeenCall(t)
<1>1. /\ Settled(t)'.wait = Settled(t).wait /\ Settled(t)'.file = Settled(t).file
      /\ Settled(t)'.msg = Settled(t).msg
  <2>1. CASE Replies(t) = {}
    BY <2>1 DEF Settled
  <2>2. CASE Replies(t) # {}
    <3> DEFINE r == CHOOSE x \in Replies(t) : TRUE
    <3>1. Settled(t) = Answered(call[t], r) /\ Settled(t)' = Answered(call'[t], r)
      BY <2>2 DEF Settled
    <3> HIDE DEF r
    <3> QED BY <3>1, AnsweredSame
  <2> QED BY <2>1, <2>2
<1> QED BY <1>1 DEF SeenCall, Stage, At

\* Nothing is seen of a step that changes no call.
LEMMA NoneSeen ==
  ASSUME \A t \in Threads : SeenCall(t)' = SeenCall(t)
  PROVE  Seen' = Seen
BY DEF Seen

\* A step that is seen in one call.
LEMMA OneSeen ==
  ASSUME NEW t \in Threads, \A u \in Threads : u # t => SeenCall(u)' = SeenCall(u)
  PROVE  Seen' = [Seen EXCEPT ![t] = SeenCall(t)']
<1> DEFINE s == SeenCall(t)'
<1>1. \A u \in Threads : Seen'[u] = IF u = t THEN s ELSE Seen[u]
  BY DEF Seen
<1>2. Seen' = [u \in Threads |-> Seen'[u]] /\ Seen = [u \in Threads |-> Seen[u]]
  BY DEF Seen
<1> HIDE DEF s
<1>3. Seen' = [Seen EXCEPT ![t] = s]
  BY <1>1, <1>2
<1> QED BY <1>3 DEF s

Shown == <<Seen, stored, lastMsg, posted>>

\* What is in the queue.
LEMMA RangeOf ==
  ASSUME NEW S, NEW s \in Seq(S)
  PROVE  Range(s) = {s[i] : i \in 1..Len(s)}
BY DEF Range

\* The beginning of a call.
LEMMA BeginSim ==
  ASSUME Inv, NEW t \in Threads, NEW k \in Kinds, NEW f \in Files \cup {NoFile}, Begin(t, k, f)
  PROVE  Abstract!Invoke(t, k, f)
<1>0. call \in [Threads -> Calls] /\ TypeOK
  BY DEF Inv, TypeOK
<1>1. /\ call' \in [Threads -> Calls]
      /\ call'[t].pc = "bump" /\ call'[t].kind = k /\ call'[t].file = f /\ call[t].pc = "idle"
      /\ \A u \in Threads : u # t => call'[u] = call[u]
      /\ UNCHANGED <<hand, stored, lastMsg, posted, asked, queue>>
  BY <1>0, BeginOK DEF tdlib
<1>2. call'[t].msg = 0 /\ call'[t].wait = TRUE
  BY <1>0 DEF Begin, NoCall
<1>3. \A u \in Threads : Replies(u)' = Replies(u)
  BY <1>1 DEF Replies
<1>4. Replies(t) = {}
  BY <1>1, OnItsWay DEF Waiting
<1>5. Seen[t].stage = "out"
  BY <1>1 DEF Seen, SeenCall, Stage, At
<1>6. SeenCall(t)' = [stage |-> "asked", kind |-> k, file |-> f, msg |-> 0]
  BY <1>1, <1>2, <1>3, <1>4 DEF SeenCall, Stage, At, Pending, Settled
<1>7. \A u \in Threads : u # t => SeenCall(u)' = SeenCall(u)
  BY <1>0, <1>1, <1>3, SeenKept DEF Pending
<1>8. Seen' = [Seen EXCEPT ![t] = [stage |-> "asked", kind |-> k, file |-> f, msg |-> 0]]
  BY <1>6, <1>7, OneSeen
<1> QED BY <1>1, <1>5, <1>8 DEF Abstract!Invoke

\* The return.
LEMMA UnlockSim ==
  ASSUME Inv, Truth, NEW t \in Threads, Unlock(t)
  PROVE  Abstract!Return(t)
<1>0. call \in [Threads -> Calls] /\ TypeOK
  BY DEF Inv, TypeOK
<1>1. call[t].pc = "wait" /\ Done(t) /\ Goto(t, "idle") /\ UNCHANGED <<hand, tdlib>>
  BY DEF Unlock, At
<1>2. /\ call' \in [Threads -> Calls] /\ call'[t].pc = "idle"
      /\ \A u \in Threads : u # t => call'[u] = call[u]
      /\ call'[t].wait = call[t].wait /\ call'[t].kind = call[t].kind
      /\ call'[t].file = call[t].file /\ call'[t].msg = call[t].msg
  BY <1>0, <1>1, GotoOK DEF PCs
<1>3. \A u \in Threads : Replies(u)' = Replies(u)
  BY <1>1 DEF Replies, tdlib
<1>4. ~call[t].wait /\ Replies(t) = {} /\ ~Asked(t)
  BY <1>1, OnItsWay DEF Done, Waiting
<1>5. /\ SeenCall(t) = [stage |-> "served", kind |-> call[t].kind, file |-> call[t].file, msg |-> call[t].msg]
      /\ SeenCall(t)' = [stage |-> "out", kind |-> call[t].kind, file |-> call[t].file, msg |-> call[t].msg]
  BY <1>1, <1>2, <1>3, <1>4 DEF SeenCall, Stage, At, Pending, Settled, Asked
<1>6. \A u \in Threads : u # t => SeenCall(u)' = SeenCall(u)
  BY <1>0, <1>1, <1>2, <1>3, SeenKept DEF Pending, tdlib
<1>7. Seen' = [Seen EXCEPT ![t] = SeenCall(t)']
  BY <1>6, OneSeen
<1>8. Seen[t] = SeenCall(t) /\ Seen' = [Seen EXCEPT ![t].stage = "out"]
  <2>1. Seen[t] = SeenCall(t)
    BY DEF Seen
  <2>2. [Seen[t] EXCEPT !.stage = "out"] = SeenCall(t)'
    BY <1>5, <2>1
  <2> QED BY <1>7, <2>1, <2>2
<1>9. call[t].kind = "send" => call[t].msg \in posted
  BY <1>1 DEF Done, Truth
<1> QED BY <1>1, <1>5, <1>8, <1>9 DEF Abstract!Return, tdlib

\* Steps of a thread that nobody sees: on its way to TDLib, and to the mutex.
LEMMA WaySim ==
  ASSUME Inv, NEW t \in Threads, NextQueryId(t) \/ SendQuery(t) \/ Lock(t)
  PROVE  UNCHANGED Shown
<1>0. call \in [Threads -> Calls]
  BY DEF Inv, TypeOK
<1>1. UNCHANGED <<hand, queue, stored, lastMsg, posted>>
  BY DEF NextQueryId, SendQuery, Lock, tdlib
<1>2. \A u \in Threads : Replies(u)' = Replies(u)
  BY <1>1 DEF Replies
<1>3. /\ call' \in [Threads -> Calls]
      /\ \A u \in Threads : u # t => call'[u] = call[u]
      /\ call'[t].wait = call[t].wait /\ call'[t].kind = call[t].kind
      /\ call'[t].file = call[t].file /\ call'[t].msg = call[t].msg
      /\ \/ call[t].pc = "bump" /\ call'[t].pc = "emplace" /\ asked' = asked
         \/ call[t].pc = "emplace" /\ call'[t].pc = "lock" /\ SendQuery(t)
         \/ call[t].pc = "lock" /\ call'[t].pc = "wait" /\ asked' = asked
  <2>1. CASE NextQueryId(t)
    <3>1. call' = [call EXCEPT ![t].pc = "emplace", ![t].id = @ + 1] /\ asked' = asked /\ call[t].pc = "bump"
      BY <2>1 DEF NextQueryId, tdlib, At
    <3> QED BY <1>0, <3>1 DEF Calls, PCs
  <2>2. CASE SendQuery(t)
    <3>1. Goto(t, "lock") /\ call[t].pc = "emplace"
      BY <2>2 DEF SendQuery, At
    <3> QED BY <1>0, <2>2, <3>1, GotoOK DEF PCs
  <2>3. CASE Lock(t)
    <3>1. Goto(t, "wait") /\ call[t].pc = "lock" /\ asked' = asked
      BY <2>3 DEF Lock, At, tdlib
    <3> QED BY <1>0, <3>1, GotoOK DEF PCs
  <2> QED BY <2>1, <2>2, <2>3
<1>4. ASSUME NEW u \in Threads PROVE Pending(u)' <=> Pending(u)
  <2>1. CASE u # t
    <3>1. (\E q \in asked' : q.of = u) <=> (\E q \in asked : q.of = u)
      BY <1>3, <2>1 DEF SendQuery
    <3> QED BY <1>3, <2>1, <3>1 DEF Pending
  <2>2. CASE u = t /\ asked' = asked /\ ~SendQuery(t)
    BY <1>3, <2>2 DEF Pending
  <2>3. CASE u = t /\ SendQuery(t)
    <3>1. /\ asked' = asked \cup {[id |-> call[t].id, of |-> t, kind |-> call[t].kind, file |-> call[t].file]}
          /\ call[t].pc = "emplace"
      BY <2>3 DEF SendQuery, At
    <3>2. \E q \in asked' : q.of = t
      <4> DEFINE new == [id |-> call[t].id, of |-> t, kind |-> call[t].kind, file |-> call[t].file]
      <4>1. new \in asked' /\ new.of = t
        BY <3>1
      <4> HIDE DEF new
      <4> QED BY <4>1
    <3> QED BY <2>3, <3>1, <3>2 DEF Pending
  <2> QED BY <1>3, <2>1, <2>2, <2>3
<1>5. \A u \in Threads : SeenCall(u)' = SeenCall(u)
  BY <1>0, <1>2, <1>3, <1>4, SeenKept
<1> QED BY <1>1, <1>5, NoneSeen DEF Shown

\* Receiving: what was in the queue is in hand, or was nobody's answer.
LEMMA ReceiveSim ==
  ASSUME Inv, Heard, NEW t \in Threads, ProcessUpdate(t) \/ ProcessResponse(t), ~raced'
  PROVE  UNCHANGED Shown
<1>0. call \in [Threads -> Calls] /\ TypeOK /\ queue \in Seq(Responses)
  BY DEF Inv, TypeOK
<1>1. /\ Len(queue') = Len(queue) - 1 /\ Len(queue) \in Nat \ {0} /\ Head(queue) = queue[1]
      /\ \A i \in 1..Len(queue') : queue'[i] = queue[i + 1]
      /\ call[t].pc = "wait" /\ queue' \in Seq(Responses)
  BY <1>0, ReceivingOK DEF ProcessUpdate, ProcessResponse
<1>2. Range(queue) = {queue[1]} \cup Range(queue')
  <2>1. \A i \in 1..Len(queue) : i = 1 \/ (i - 1 \in 1..Len(queue') /\ queue[i] = queue'[i - 1])
    BY <1>1
  <2>2. \A i \in 1..Len(queue') : i + 1 \in 1..Len(queue)
    BY <1>1
  <2>3. /\ Range(queue) = {queue[i] : i \in 1..Len(queue)}
        /\ Range(queue)' = {queue'[i] : i \in 1..Len(queue')}
    <3>1. Range(queue) = {queue[i] : i \in 1..Len(queue)}
      BY <1>0, RangeOf
    <3> HIDE DEF Range
    <3>2. Range(queue') = {queue'[i] : i \in 1..Len(queue')}
      BY <1>1, RangeOf, Zenon
    <3> QED BY <3>1, <3>2
  <2>4. 1 \in 1..Len(queue)
    BY <1>1
  <2>5. {queue[i] : i \in 1..Len(queue)} = {queue[1]} \cup {queue'[i] : i \in 1..Len(queue')}
    <3>1. ASSUME NEW i \in 1..Len(queue)
          PROVE  queue[i] \in {queue[1]} \cup {queue'[j] : j \in 1..Len(queue')}
      <4>1. CASE i = 1
        BY <4>1
      <4>2. CASE i # 1
        <5>1. i - 1 \in 1..Len(queue') /\ queue[i] = queue'[i - 1]
          BY <2>1, <4>2
        <5>2. queue'[i - 1] \in {queue'[j] : j \in 1..Len(queue')}
          BY <5>1, Zenon
        <5> QED BY <5>1, <5>2
      <4> QED BY <4>1, <4>2
    <3>2. ASSUME NEW i \in 1..Len(queue') PROVE queue'[i] \in {queue[j] : j \in 1..Len(queue)}
      <4>1. i + 1 \in 1..Len(queue) /\ queue'[i] = queue[i + 1]
        BY <1>1, <2>2
      <4> QED BY <4>1, Zenon
    <3>3. queue[1] \in {queue[j] : j \in 1..Len(queue)}
      BY <2>4, Zenon
    <3> QED BY <3>1, <3>2, <3>3, Zenon
  <2> QED BY <2>3, <2>5
<1>3. UNCHANGED <<asked, stored, lastMsg, posted>>
  BY DEF ProcessUpdate, ProcessResponse
<1>4. CASE ProcessUpdate(t)
  <2>1. queue[1].to = 0 /\ UNCHANGED <<call, hand>>
    BY <1>1, <1>4 DEF ProcessUpdate
  <2>2. \A u \in Threads : Replies(u)' = Replies(u)
    BY <1>2, <2>1 DEF Replies
  <2>3. \A u \in Threads : SeenCall(u)' = SeenCall(u)
    BY <1>0, <1>3, <2>1, <2>2, SeenKept DEF Pending
  <2> QED BY <1>3, <2>3, NoneSeen DEF Shown
<1>5. CASE ProcessResponse(t)
  <2>1. queue[1].to # 0 /\ queue[1].to \in DOMAIN handlers
    BY <1>1, <1>5 DEF ProcessResponse, Heard
  <2>0. \A u \in Threads : ~At(u, "emplace")
    BY <1>1, <1>5 DEF ProcessResponse, Meets, At
  <2>2. Goto(t, "handle") /\ hand' = queue[1]
    BY <1>1, <1>5, <2>0, <2>1 DEF ProcessResponse
  <2>3. hand.to = 0
    BY <1>0, <1>1 DEF Heard, TypeOK
  <2>4. \A u \in Threads : Replies(u)' = Replies(u)
    BY <1>2, <2>2, <2>3 DEF Replies
  <2>5. /\ call' \in [Threads -> Calls]
        /\ \A u \in Threads : u # t => call'[u] = call[u]
        /\ call'[t].wait = call[t].wait /\ call'[t].kind = call[t].kind
        /\ call'[t].file = call[t].file /\ call'[t].msg = call[t].msg
        /\ call'[t].pc = "handle"
    BY <1>0, <2>2, GotoOK DEF PCs
  <2>6. \A u \in Threads : SeenCall(u)' = SeenCall(u)
    BY <1>0, <1>1, <1>3, <2>4, <2>5, SeenKept DEF Pending
  <2> QED BY <1>3, <2>6, NoneSeen DEF Shown
<1> QED BY <1>4, <1>5

\* The handler: the call is as it was seen before.
LEMMA HandlerSim ==
  ASSUME Inv, NEW t \in Threads, RunHandler(t)
  PROVE  UNCHANGED Shown
<1>0. call \in [Threads -> Calls] /\ TypeOK /\ Once /\ Owed /\ Ids /\ queue \in Seq(Responses)
  BY DEF Inv, TypeOK
<1>1. /\ hand.to \in DOMAIN handlers /\ hand' = Nothing /\ call[t].pc = "handle"
      /\ UNCHANGED <<asked, queue, stored, lastMsg, posted>>
  BY <1>0 DEF RunHandler, TypeOK, tdlib, At
<1> PICK o \in Threads : o = handlers[hand.to]
  BY <1>0, <1>1 DEF TypeOK
<1>2. Waiting(call[o]) /\ call[o].id = hand.to /\ hand.to # 0
  <2>1. Waits(hand.to, o)
    BY <1>1 DEF Inv, HandlersMatch
  <2>2. hand.to \in 1..current /\ current \in Nat
    BY <1>0, <2>1 DEF Waits, Ids, Live, TypeOK
  <2> QED BY <2>1, <2>2 DEF Waits, Waiting
<1>3. hand.of = o /\ hand \in Replies(o)
  <2>1. hand.of \in Threads /\ Waits(hand.to, hand.of)
    BY <1>0, <1>2 DEF Owed, Answers
  <2>2. hand.of = o
    BY <1>0, <1>2, <2>1 DEF Waits, Waiting, Ids, Live
  <2> QED BY <1>2, <2>2 DEF Replies
<1>4. Replies(o) = {hand} /\ ~Asked(o)
  BY <1>3, OnItsWay
<1>5. Range(queue) = {queue[i] : i \in 1..Len(queue)} /\ hand'.to = 0
  BY <1>0, <1>1, RangeOf DEF Nothing, FileUpdate
<1>6. Replies(o)' = {}
  BY <1>0, <1>1, <1>2, <1>4, <1>5 DEF Replies, Once
<1>7. \A u \in Threads : u # o => Replies(u)' = Replies(u)
  BY <1>1, <1>3, <1>5 DEF Replies
<1> DEFINE a == Answered(call[o], hand)
<1>8. a \in Calls /\ a.pc = call[o].pc /\ a.kind = call[o].kind
  <2>1. call[o] \in Calls /\ hand \in Responses
    BY <1>0 DEF TypeOK
  <2>2. hand.of \in Threads \cup {NoThread} /\ hand.msg \in Nat /\ hand.file \in Files \cup {NoFile}
    BY <2>1 DEF Responses
  <2> QED BY <2>1, <2>2 DEF Answered, Calls
<1>9. call' = [[call EXCEPT ![o] = a] EXCEPT ![t].pc = "wait"]
  BY DEF RunHandler
<1>10. Settled(o) = a
  BY <1>4 DEF Settled
<1> HIDE DEF a
<1>11. /\ call' \in [Threads -> Calls]
       /\ \A u \in Threads : u # t => call'[u].pc = call[u].pc
       /\ call'[t].pc = "wait"
       /\ \A u \in Threads : u # o => /\ call'[u].wait = call[u].wait /\ call'[u].kind = call[u].kind
                                      /\ call'[u].file = call[u].file /\ call'[u].msg = call[u].msg
       /\ call'[o].wait = a.wait /\ call'[o].kind = call[o].kind
       /\ call'[o].file = a.file /\ call'[o].msg = a.msg
  <2> DEFINE c == [call EXCEPT ![o] = a]
  <2>1. c \in [Threads -> Calls] /\ c[o] = a /\ \A u \in Threads : u # o => c[u] = call[u]
    BY <1>0, <1>8
  <2>2. call' = [c EXCEPT ![t].pc = "wait"]
    BY <1>9
  <2> HIDE DEF c
  <2>3. /\ call' \in [Threads -> Calls] /\ call'[t].pc = "wait"
        /\ \A u \in Threads : u # t => call'[u] = c[u]
        /\ \A u \in Threads : /\ call'[u].kind = c[u].kind /\ call'[u].wait = c[u].wait
                              /\ call'[u].file = c[u].file /\ call'[u].msg = c[u].msg
    BY <2>1, <2>2 DEF Calls, PCs
  <2> QED BY <1>8, <2>1, <2>3
<1>12. \A u \in Threads : u # o => SeenCall(u)' = SeenCall(u)
  <2> SUFFICES ASSUME NEW u \in Threads, u # o PROVE SeenCall(u)' = SeenCall(u)
    OBVIOUS
  <2>1. call'[u].pc = "idle" <=> call[u].pc = "idle"
    BY <1>1, <1>11
  <2>2. Pending(u)' <=> Pending(u)
    BY <1>1, <1>11 DEF Pending
  <2> QED BY <1>0, <1>7, <1>11, <2>1, <2>2, SeenKept
<1>13. SeenCall(o)' = SeenCall(o)
  <2>1. Settled(o)' = call'[o]
    BY <1>6 DEF Settled
  <2>2. call'[o].pc \in {"lock", "wait", "handle"} /\ call[o].pc \in {"lock", "wait", "handle"}
    BY <1>1, <1>2, <1>11 DEF Waiting
  <2>3. ~Pending(o) /\ ~Pending(o)'
    BY <1>1, <1>4, <2>2 DEF Pending, Asked
  <2>4. Stage(o)' = Stage(o)
    BY <1>10, <1>11, <2>1, <2>2, <2>3 DEF Stage, At
  <2> QED BY <1>10, <1>11, <2>1, <2>4 DEF SeenCall
<1>14. \A u \in Threads : SeenCall(u)' = SeenCall(u)
  BY <1>12, <1>13
<1> QED BY <1>1, <1>14, NoneSeen DEF Shown

\* What the answer a to the request q makes of the call of t.
Outcome(q, a, t) ==
    /\ Seen[t].stage = "asked" /\ Seen[t].kind = q.kind /\ Seen[t].file = q.file
    /\ a.ok \/ q.kind \in {"get", "delete"} =>
          \A f : f = (IF q.kind = "send" THEN a.file ELSE q.file) =>
             Seen' = [Seen EXCEPT ![t] = [stage |-> "served", kind |-> q.kind, file |-> f, msg |-> a.msg]]
    /\ ~(a.ok \/ q.kind \in {"get", "delete"}) => Seen' = [Seen EXCEPT ![t].stage = "lost"]

\* An answer is seen in the call that asked: it is served, or lost.
LEMMA AnswerSim ==
  ASSUME Inv, NEW q \in asked, asked' = asked \ {q}, UNCHANGED <<call, hand>>,
         NEW a \in Responses, a.to = q.id, a.of = q.of, NEW r \in Responses, r.to = 0,
         queue' = Append(queue, a) \/ queue' = Append(Append(queue, r), a),
         NEW t \in Threads, t = q.of
  PROVE  Outcome(q, a, t)
<1>0. /\ call \in [Threads -> Calls] /\ TypeOK /\ Ids /\ Owed /\ queue \in Seq(Responses)
      /\ q \in Requests /\ asked \subseteq Requests
  BY DEF Inv, TypeOK
<1>1. /\ t \in Threads /\ Waiting(call[t]) /\ q.id # 0 /\ call[t].id = q.id
      /\ q.kind = call[t].kind /\ q.file = call[t].file
  BY <1>0, AskedIds DEF Owed, Waits, Waiting
<1>2. Asked(t) /\ Replies(t) = {}
  BY <1>1, OnItsWay DEF Asked
<1>3. ~Asked(t)'
  <2> SUFFICES ASSUME NEW p \in asked, p.of = t PROVE p = q
    BY DEF Asked
  <2>1. p.id = q.id /\ p.kind = q.kind /\ p.file = q.file /\ p \in Requests
    BY <1>0, <1>1, AskedIds DEF Owed, Waits
  <2> QED BY <1>0, <2>1 DEF Requests
<1>4. Range(queue') \in {Range(queue) \cup {a}, Range(queue) \cup {r, a}}
  <2>1. ASSUME NEW s \in Seq(Responses), NEW x \in Responses
        PROVE  Append(s, x) \in Seq(Responses) /\ Range(Append(s, x)) = Range(s) \cup {x}
    <3>1. /\ Append(s, x) \in Seq(Responses) /\ Len(Append(s, x)) = Len(s) + 1 /\ Len(s) \in Nat
          /\ Append(s, x)[Len(s) + 1] = x /\ \A i \in 1..Len(s) : Append(s, x)[i] = s[i]
      OBVIOUS
    <3>2. Range(Append(s, x)) = {Append(s, x)[i] : i \in 1..Len(Append(s, x))} /\ Range(s) = {s[i] : i \in 1..Len(s)}
      BY <3>1, RangeOf
    <3>3. 1..Len(Append(s, x)) = (1..Len(s)) \cup {Len(s) + 1}
      BY <3>1
    <3> QED BY <3>1, <3>2, <3>3
  <2>2. CASE queue' = Append(queue, a)
    BY <1>0, <2>1, <2>2
  <2>3. CASE queue' = Append(Append(queue, r), a)
    <3>1. Append(queue, r) \in Seq(Responses) /\ Range(Append(queue, r)) = Range(queue) \cup {r}
      BY <1>0, <2>1
    <3>2. Range(Append(Append(queue, r), a)) = Range(Append(queue, r)) \cup {a}
      BY <2>1, <3>1, Zenon
    <3> QED BY <2>3, <3>1, <3>2
  <2> QED BY <2>2, <2>3
<1>5. Replies(t)' = {a}
  BY <1>1, <1>2, <1>4 DEF Replies
<1>6. \A u \in Threads : u # t => Replies(u)' = Replies(u)
  BY <1>4 DEF Replies
<1>7. \A u \in Threads : u # t => (Pending(u)' <=> Pending(u))
  BY DEF Pending
<1>8. \A u \in Threads : u # t => SeenCall(u)' = SeenCall(u)
  BY <1>0, <1>6, <1>7, SeenKept
<1> DEFINE b == Answered(call[t], a)
<1>9. SeenCall(t) = [stage |-> "asked", kind |-> q.kind, file |-> q.file, msg |-> call[t].msg]
  BY <1>1, <1>2 DEF SeenCall, Stage, At, Pending, Settled, Asked, Waiting
<1>10. Settled(t)' = b
  BY <1>5 DEF Settled
<1> HIDE DEF b
<1>11. SeenCall(t)' = [stage |-> IF b.wait THEN "lost" ELSE "served", kind |-> q.kind,
                       file |-> b.file, msg |-> b.msg]
  BY <1>1, <1>3, <1>10 DEF SeenCall, Stage, At, Pending, Asked, Waiting
<1>12. Seen' = [Seen EXCEPT ![t] = SeenCall(t)'] /\ Seen[t] = SeenCall(t)
  BY <1>1, <1>8, OneSeen DEF Seen
<1>13. call[t] \in Calls
  BY <1>0, <1>1
<1>14. ASSUME a.ok \/ q.kind \in {"get", "delete"}, NEW f, f = IF q.kind = "send" THEN a.file ELSE q.file
       PROVE  Seen' = [Seen EXCEPT ![t] = [stage |-> "served", kind |-> q.kind, file |-> f, msg |-> a.msg]]
  <2>1. ~b.wait /\ b.file = f /\ b.msg = a.msg
    BY <1>1, <1>13, <1>14 DEF b, Answered, Calls
  <2> QED BY <1>11, <1>12, <2>1
<1>15. ASSUME ~(a.ok \/ q.kind \in {"get", "delete"})
       PROVE  Seen' = [Seen EXCEPT ![t].stage = "lost"]
  <2>1. b = call[t] /\ b.wait
    BY <1>1, <1>15 DEF b, Answered, Waiting
  <2>2. SeenCall(t)' = [SeenCall(t) EXCEPT !.stage = "lost"]
    BY <1>1, <1>9, <1>11, <2>1
  <2> QED BY <1>12, <2>2
<1>16. Seen[t].stage = "asked" /\ Seen[t].kind = q.kind /\ Seen[t].file = q.file
  BY <1>9, <1>12
<1> QED BY <1>14, <1>15, <1>16, Zenon DEF Outcome

\* Every answer of TDLib serves its call or refuses it.
LEMMA RespondSim ==
  ASSUME Inv, Respond
  PROVE  \E t \in Threads : \/ Abstract!Get(t) \/ Abstract!Download(t) \/ Abstract!Delete(t)
                            \/ Abstract!Refuse(t) \/ \E f \in Files : Abstract!Send(t, f)
<1> PICK q \in asked : /\ Fail(q) \/ Give(q) \/ Fetch(q) \/ Discard(q) \/ Accept(q)
                      /\ UNCHANGED <<current, handlers, raced, mtx, call, hand, results>>
  BY DEF Respond
<1>0. TypeOK /\ q \in Requests /\ queue \in Seq(Responses) /\ lastMsg \in Nat /\ q.kind \in Kinds
  BY DEF Inv, TypeOK, Requests
<1> PICK t \in Threads : t = q.of
  BY <1>0 DEF Requests
<1> DEFINE Served(f, m) == /\ t \in Threads /\ Seen[t].stage = "asked" /\ Seen[t].kind = q.kind
                           /\ Seen[t].file = q.file /\ Abstract!Serve(t, f, m)
<1>1. ASSUME NEW ok \in BOOLEAN, NEW f \in Files \cup {NoFile}, NEW m \in Nat, NEW d \in BOOLEAN,
             \/ Reply(q, <<>>, Answer(q, ok, f, m))
             \/ Reply(q, <<FileUpdate(q.file, d, q.file \in uploaded)>>, Answer(q, ok, f, m))
      PROVE  /\ t \in Threads /\ Seen[t].stage = "asked" /\ Seen[t].kind = q.kind
             /\ Seen[t].file = q.file
             /\ ok \/ q.kind \in {"get", "delete"} =>
                   Abstract!Serve(t, IF q.kind = "send" THEN f ELSE q.file, m)
             /\ ~(ok \/ q.kind \in {"get", "delete"}) => Seen' = [Seen EXCEPT ![t].stage = "lost"]
  <2>1. (q.file \in uploaded) \in BOOLEAN /\ q.file \in Files \cup {NoFile}
    BY <1>0 DEF Requests
  <2> PICK u \in BOOLEAN : u = (q.file \in uploaded)
    BY <2>1
  <2>2. /\ Answer(q, ok, f, m) \in Responses /\ FileUpdate(q.file, d, u) \in Responses
        /\ Answer(q, ok, f, m).to = q.id /\ Answer(q, ok, f, m).of = q.of
        /\ Answer(q, ok, f, m).ok = ok /\ Answer(q, ok, f, m).file = f
        /\ Answer(q, ok, f, m).msg = m /\ FileUpdate(q.file, d, u).to = 0
    BY <1>0, <2>1, ResponseOK DEF Answer, FileUpdate
  <2> PICK a \in Responses : /\ a = Answer(q, ok, f, m) /\ a.to = q.id /\ a.of = q.of
                            /\ a.ok = ok /\ a.file = f /\ a.msg = m
    BY <2>2
  <2> PICK r \in Responses : r = FileUpdate(q.file, d, u) /\ r.to = 0
    BY <2>2
  <2>3. /\ asked' = asked \ {q}
        /\ queue' = Append(queue \o <<>>, a) \/ queue' = Append(queue \o <<r>>, a)
    BY <1>1 DEF Reply
  <2>4. queue' = Append(queue, a) \/ queue' = Append(Append(queue, r), a)
    BY <1>0, <2>3, Joined
  <2>5. UNCHANGED <<call, hand>> /\ asked' = asked \ {q} /\ a.to = q.id /\ a.of = q.of /\ r.to = 0
    BY <2>3
  <2>6. Outcome(q, a, t)
    BY <2>4, <2>5, AnswerSim
  <2> QED BY <2>6 DEF Outcome, Abstract!Serve
<1>2. CASE Fail(q)
  <2>1. Reply(q, <<>>, Answer(q, FALSE, q.file, 0)) /\ UNCHANGED <<stored, lastMsg, posted>>
    BY <1>2 DEF Fail
  <2>2. /\ t \in Threads /\ Seen[t].stage = "asked" /\ Seen[t].kind = q.kind
        /\ Seen[t].file = q.file
        /\ q.kind \in {"get", "delete"} => Abstract!Serve(t, q.file, 0)
        /\ q.kind \notin {"get", "delete"} => Seen' = [Seen EXCEPT ![t].stage = "lost"]
    BY <1>0, <1>1, <2>1 DEF Requests
  <2> QED BY <1>0, <2>1, <2>2 DEF Abstract!Refuse, Abstract!Asks, Kinds
<1>3. CASE Give(q)
  <2>1. /\ Reply(q, <<>>, Answer(q, TRUE, NoFile, 0)) /\ UNCHANGED <<stored, lastMsg, posted>>
        /\ q.kind = "get"
    BY <1>3 DEF Give
  <2>2. Served(q.file, 0)
    BY <1>1, <2>1
  <2> QED BY <2>1, <2>2 DEF Abstract!Get, Abstract!Asks
<1>4. CASE Fetch(q)
  <2>1. /\ Reply(q, <<FileUpdate(q.file, TRUE, q.file \in uploaded)>>, Answer(q, TRUE, q.file, 0))
        /\ stored' = stored \cup {q.file} /\ UNCHANGED <<lastMsg, posted>> /\ q.kind = "download"
    BY <1>4 DEF Fetch
  <2>2. Served(q.file, 0)
    BY <1>0, <1>1, <2>1 DEF Requests
  <2> QED BY <2>1, <2>2 DEF Abstract!Download, Abstract!Asks
<1>5. CASE Discard(q)
  <2>1. /\ \/ Reply(q, <<FileUpdate(q.file, FALSE, q.file \in uploaded)>>, Answer(q, TRUE, q.file, 0))
           \/ Reply(q, <<>>, Answer(q, TRUE, q.file, 0))
        /\ stored' = stored \ {q.file} /\ UNCHANGED <<lastMsg, posted>> /\ q.kind = "delete"
    BY <1>5 DEF Discard
  <2>2. Served(q.file, 0)
    BY <1>0, <1>1, <2>1 DEF Requests
  <2> QED BY <2>1, <2>2 DEF Abstract!Delete, Abstract!Asks
<1>6. CASE Accept(q)
  <2> PICK f \in FilesOf[q.of] : Reply(q, <<>>, Answer(q, TRUE, f, lastMsg + 1))
    BY <1>6 DEF Accept
  <2>1. f \in Files /\ lastMsg + 1 \in Nat
    BY <1>0, TdAssumption DEF Requests
  <2>2. q.kind = "send" /\ lastMsg' = lastMsg + 1 /\ UNCHANGED <<stored, posted>>
    BY <1>6 DEF Accept
  <2>3. Served(f, lastMsg + 1)
    BY <1>1, <2>1, <2>2
  <2> QED BY <2>1, <2>2, <2>3 DEF Abstract!Send, Abstract!Asks
<1> QED BY <1>2, <1>3, <1>4, <1>5, <1>6

\* Of what else TDLib does, only the posting of a message is seen.
LEMMA OtherSim ==
  ASSUME Inv, Heard, Upload \/ Post \/ PostFails
  PROVE  UNCHANGED Shown \/ \E m \in 1..lastMsg : Abstract!Post(m)
<1>0. TypeOK /\ queue \in Seq(Responses) /\ call \in [Threads -> Calls]
  BY DEF Inv, TypeOK
<1>1. /\ UNCHANGED <<call, hand, asked, stored, lastMsg>>
      /\ queue' = queue \/ \E r \in Responses : r.to = 0 /\ queue' = Append(queue, r)
  BY <1>0, UpdateOK
<1>2. \A u \in Threads : Replies(u)' = Replies(u)
  <2>1. CASE queue' = queue
    BY <1>1, <2>1 DEF Replies
  <2>2. ASSUME NEW r \in Responses, r.to = 0, queue' = Append(queue, r)
        PROVE  \A u \in Threads : Replies(u)' = Replies(u)
    <3>1. /\ Append(queue, r) \in Seq(Responses) /\ Len(Append(queue, r)) = Len(queue) + 1
          /\ Len(queue) \in Nat /\ Append(queue, r)[Len(queue) + 1] = r
          /\ \A i \in 1..Len(queue) : Append(queue, r)[i] = queue[i]
      BY <1>0
    <3>2. /\ Range(Append(queue, r)) = {Append(queue, r)[i] : i \in 1..Len(Append(queue, r))}
          /\ Range(queue) = {queue[i] : i \in 1..Len(queue)}
      BY <1>0, <3>1, RangeOf
    <3>3. 1..Len(Append(queue, r)) = (1..Len(queue)) \cup {Len(queue) + 1}
      BY <3>1
    <3>4. Range(Append(queue, r)) = Range(queue) \cup {r}
      BY <3>1, <3>2, <3>3
    <3> QED BY <1>1, <2>2, <3>4 DEF Replies
  <2> QED BY <1>1, <2>1, <2>2
<1>3. \A u \in Threads : SeenCall(u)' = SeenCall(u)
  BY <1>0, <1>1, <1>2, SeenKept DEF Pending
<1>4. Seen' = Seen
  BY <1>3, NoneSeen
<1>5. CASE Post
  <2> PICK p \in posting : posted' = posted \cup {p.msg}
    BY <1>5 DEF Post
  <2> QED BY <1>1, <1>4 DEF Heard, Abstract!Post
<1>6. CASE Upload \/ PostFails
  BY <1>1, <1>4, <1>6 DEF Upload, PostFails, Shown
<1> QED BY <1>5, <1>6

\* A service at first.
LEMMA ServiceInit == Init => Abstract!Init /\ Heard /\ Truth
<1> SUFFICES ASSUME Init PROVE Abstract!Init /\ Heard /\ Truth
  OBVIOUS
<1>1. /\ raced = FALSE /\ \A t \in Threads : call[t] = NoCall
      /\ asked = {} /\ queue = <<>> /\ hand.to = 0 /\ hand.up = FALSE /\ posting = {}
      /\ uploads = {} /\ sent = {} /\ stored = {} /\ lastMsg = 0 /\ posted = {}
  BY DEF Init, Nothing, FileUpdate
<1>2. \A t \in Threads : Replies(t) = {}
  BY <1>1 DEF Replies, Range
<1>3. \A t \in Threads : SeenCall(t) = Abstract!NoCall
  BY <1>1, <1>2 DEF SeenCall, Stage, At, Settled, NoCall, Abstract!NoCall
<1>4. Seen = [t \in Threads |-> Abstract!NoCall]
  BY <1>3 DEF Seen
<1>5. \A t \in Threads : call[t].kind = "get"
  BY <1>1 DEF NoCall
<1> QED BY <1>1, <1>4, <1>5 DEF Abstract!Init, Heard, Truth

\* Every step is one of the service, or is not seen.
LEMMA ServiceStep ==
  ASSUME Inv, Heard, Truth, [Next]_vars, ~raced'
  PROVE  Abstract!Work \/ UNCHANGED Shown
<1>1. CASE UNCHANGED vars
  <2>1. \A u \in Threads : Replies(u)' = Replies(u)
    BY <1>1 DEF Replies, vars, tdlib
  <2>2. \A u \in Threads : SeenCall(u)' = SeenCall(u)
    BY <1>1, <2>1, SeenKept DEF Pending, vars, tdlib, Inv, TypeOK
  <2> QED BY <1>1, <2>2, NoneSeen DEF Shown, vars, tdlib
<1>2. ASSUME NEW t \in Threads, Call(t) PROVE Abstract!Work
  <2>1. ASSUME NEW k \in Kinds, NEW f \in Files \cup {NoFile}, Begin(t, k, f) PROVE Abstract!Work
    BY <2>1, BeginSim DEF Abstract!Work, Kinds
  <2>2. call[t].file \in Files \cup {NoFile}
    BY DEF Inv, TypeOK, Calls
  <2> QED BY <1>2, <2>1, <2>2, TdAssumption DEF Call, GetMessage, DownloadFile, SendFile, DeleteFile, Kinds
<1>3. ASSUME NEW t \in Threads, Go(t) \/ Lock(t) PROVE Abstract!Work \/ UNCHANGED Shown
  <2>1. CASE Unlock(t)
    BY <2>1, UnlockSim DEF Abstract!Work
  <2>2. CASE ~Unlock(t)
    BY <1>3, <2>2, WaySim, ReceiveSim, HandlerSim DEF Go
  <2> QED BY <2>1, <2>2
<1>4. CASE Respond
  BY <1>4, RespondSim DEF Abstract!Work
<1>5. CASE Upload \/ Post \/ PostFails
  BY <1>5, OtherSim DEF Abstract!Work
<1> QED BY <1>1, <1>2, <1>3, <1>4, <1>5 DEF Next

-----------------------------------------------------------------------------
(* The theorems: what holds until threads meet.                            *)

Calm == Inv /\ Heard /\ Truth /\ SentIsPosted
CalmUntilRace == TypeOK /\ (raced \/ Calm)

\* Both parts are kept: the first by every step, the second by one that is not
\* itself the race.
LEMMA CalmStep == CalmUntilRace /\ [Next]_vars => CalmUntilRace'
<1> SUFFICES ASSUME CalmUntilRace, [Next]_vars PROVE CalmUntilRace'
  OBVIOUS
<1>1. TypeOK'
  BY TypeStep DEF CalmUntilRace
<1>2. ASSUME ~raced' PROVE Calm'
  <2>1. Calm
    BY <1>2, RacedKept DEF CalmUntilRace
  <2> QED BY <1>2, <2>1, InvStep, HeardStep, TruthStep DEF Calm
<1> QED BY <1>1, <1>2 DEF CalmUntilRace

LEMMA CalmInit == Init => CalmUntilRace /\ Abstract!Init
<1>1. Init => SentIsPosted
  BY DEF Init, NoCall, SentIsPosted
<1>2. Init => raced = FALSE
  BY DEF Init
<1> QED BY <1>1, <1>2, InitInv, ServiceInit DEF CalmUntilRace, Calm, Inv, Abstract!Init

\* A call that has stopped waiting has the answer to its own request, for every
\* number of threads, whoever receives and in whatever order TDLib answers, up to
\* the first time that threads meet at current_query_id_ or handlers_.
THEOREM OwnAnswerAlways == Spec => []OwnAnswerUntilRace
<1>1. CalmUntilRace => OwnAnswerUntilRace
  BY DEF CalmUntilRace, Calm, Inv, OwnAnswerUntilRace
<1> QED BY <1>1, CalmInit, CalmStep, PTL DEF Spec

\* Up to then handlers_ has one handler for each call that waits and none for a
\* call that has returned, but a SendFile or DownloadFile whose request failed
\* waits without one.
THEOREM HandlersMatchAlways == Spec => []HandlersMatchUntilRace
<1>1. CalmUntilRace => HandlersMatchUntilRace
  BY DEF CalmUntilRace, Calm, Inv, HandlersMatchUntilRace
<1> QED BY <1>1, CalmInit, CalmStep, PTL DEF Spec

\* Up to then, when SendFile returns, the message that it names is in the chat for
\* all to see and its file on the server, in whatever order the answer and the
\* updates of the file and of the message come, whichever thread receives them,
\* and whatever other messages are on their way.
THEOREM SentIsPostedAlways == Spec => []SentIsPostedUntilRace
<1>1. CalmUntilRace => SentIsPostedUntilRace
  BY DEF CalmUntilRace, Calm, SentIsPostedUntilRace
<1> QED BY <1>1, CalmInit, CalmStep, PTL DEF Spec

\* Threads that share a TdClass have a service that breaks only when threads meet:
\* every call is served once between its beginning and its return and returns with
\* its own outcome, for every number of threads, also when they use the same files
\* and whatever fails.
THEOREM ImplementsCallServiceAlways == Spec => ImplementsCallService
<1>1. CalmUntilRace /\ [Next]_vars => [Abstract!Next]_<<Shown, raced>>
  <2> SUFFICES ASSUME CalmUntilRace, [Next]_vars PROVE Abstract!Next \/ UNCHANGED <<Shown, raced>>
    OBVIOUS
  <2>1. CASE raced'
    <3>1. raced' = TRUE
      BY <2>1, TypeStep DEF CalmUntilRace, TypeOK
    <3> QED BY <3>1 DEF Abstract!Next
  <2>2. CASE ~raced'
    <3>1. Calm /\ UNCHANGED raced
      BY <2>2, TypeStep, RacedKept DEF CalmUntilRace, TypeOK
    <3>2. Abstract!Work \/ UNCHANGED Shown
      BY <2>2, <3>1, ServiceStep DEF Calm
    <3> QED BY <3>1, <3>2 DEF Abstract!Next
  <2> QED BY <2>1, <2>2
<1>2. [Abstract!Next]_<<Shown, raced>> => [Abstract!Next]_(Abstract!serviceVars)
  BY DEF Shown, Abstract!serviceVars
<1> QED BY <1>1, <1>2, CalmInit, CalmStep, PTL DEF Spec, ImplementsCallService, Abstract!Spec
=============================================================================
