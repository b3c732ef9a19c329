------------------------------ MODULE TdClient ------------------------------
(***************************************************************************)
(* TdClass of tdclient.cpp: threads that send queries to TDLib and wait    *)
(* for the answers.  Answers and updates come in one queue; the thread     *)
(* that holds the mutex receives them, its own and those of the others,    *)
(* and runs the handler of each answer.                                    *)
(*                                                                         *)
(* SendQuery does not take the mutex: threads may meet at                  *)
(* current_query_id_ and at handlers_, which is a data race.  The model    *)
(* goes on with what these do then: two calls get one id, an insertion is  *)
(* lost, a lookup misses.  raced remembers that it happened, since C++     *)
(* promises nothing from there on.                                         *)
(*                                                                         *)
(* TDLib is modelled by what TdClass sees of it: a request is answered     *)
(* once, with an error or not; updates and answers tell the state of a     *)
(* file at the time when they are sent.                                    *)
(***************************************************************************)
EXTENDS Naturals, Sequences, FiniteSets, Functions

CONSTANTS Threads, NoThread,
          Files,       \* file ids of TDLib
          FilesOf,     \* thread -> the files that its calls are about
          Failures,    \* the kinds of calls that TDLib may fail, or "post"
          MaxQueries   \* bound: no call begins after that many queries

VARIABLES current,    \* current_query_id_
          handlers,   \* handlers_: query id -> the call its handler writes to
          raced,      \* history: threads have met at current_query_id_ or handlers_
          mtx,        \* the thread that holds the mutex
          call,       \* the call of each thread, and its local variables
          hand,       \* the answer that ProcessResponse has a handler for
          uploads,    \* files with completed_uploads_ set
          downloads,  \* files with completed_downloads_ set
          sent,       \* messages with sent_message_ set
          asked,      \* TDLib: the requests under way
          queue,      \* TDLib: what receive returns next
          stored,     \* TDLib: files that are on this disk
          uploaded,   \* TDLib: files that are on the server
          posting,    \* TDLib: messages that wait for their file
          posted,     \* TDLib: messages that are in the chat
          lastMsg     \* TDLib: the last message id given out

results == <<uploads, downloads, sent>>
tdlib == <<asked, queue, stored, uploaded, posting, posted, lastMsg>>
vars == <<current, handlers, raced, mtx, call, hand, results, tdlib>>

PCs == {"idle", "bump", "emplace", "lock", "wait", "handle"}
Kinds == {"get", "download", "send", "delete"}
NoFile == 0

ASSUME TdAssumption ==
    /\ NoThread \notin Threads
    /\ IsFiniteSet(Threads)
    /\ NoFile \notin Files
    /\ FilesOf \in [Threads -> SUBSET Files]
    /\ Failures \subseteq Kinds \cup {"post"}
    /\ MaxQueries \in Nat

\* What receive returns: an answer (to a query id), or an update (to 0) of a
\* file or a message.
Answer(q, ok, f, m) ==
    [to |-> q.id, of |-> q.of, ok |-> ok, file |-> f, msg |-> m, down |-> TRUE, up |-> f \in uploaded]
FileUpdate(f, down, up) ==
    [to |-> 0, of |-> NoThread, ok |-> TRUE, file |-> f, msg |-> 0, down |-> down, up |-> up]
SentUpdate(m) ==
    [to |-> 0, of |-> NoThread, ok |-> TRUE, file |-> NoFile, msg |-> m, down |-> FALSE, up |-> FALSE]
Nothing == FileUpdate(NoFile, FALSE, FALSE)

\* of is the thread whose request the answer was about.
NoCall == [pc |-> "idle", kind |-> "get", file |-> NoFile, id |-> 0, wait |-> FALSE,
           of |-> NoThread, msg |-> 0]

Init ==
    /\ current = 0
    /\ handlers = <<>>
    /\ raced = FALSE
    /\ mtx = NoThread
    /\ call = [t \in Threads |-> NoCall]
    /\ hand = Nothing
    /\ uploads = {} /\ downloads = {} /\ sent = {}
    /\ asked = {} /\ queue = <<>>
    /\ stored = {} /\ uploaded = {}
    /\ posting = {} /\ posted = {} /\ lastMsg = 0

At(t, l) == call[t].pc = l
Goto(t, l) == call' = [call EXCEPT ![t].pc = l]

\* Thread t comes to a variable that the threads in these places use, with no
\* mutex between them.
Meets(t, places) == raced' = (raced \/ \E u \in Threads \ {t} : call[u].pc \in places)

-----------------------------------------------------------------------------
(* SendQuery.                                                              *)

\* A call makes its request and reads current_query_id_.
Begin(t, kind, f) ==
    /\ At(t, "idle")
    /\ current < MaxQueries
    /\ Meets(t, {"bump"})
    /\ call' = [call EXCEPT ![t] = [NoCall EXCEPT !.pc = "bump", !.kind = kind, !.file = f,
                                                  !.id = current, !.wait = TRUE]]
    /\ UNCHANGED <<current, handlers, mtx, hand, results, tdlib>>

\* td_client_api deletes the file of a download or of a message after it.
MustDelete(t) == call[t].kind \in {"download", "send"}

\* GetMessage, PinMessage, GetLastPinnedMessage, DeleteMessage.
GetMessage(t) == ~MustDelete(t) /\ Begin(t, "get", NoFile)
DownloadFile(t) == \E f \in FilesOf[t] : ~MustDelete(t) /\ Begin(t, "download", f)
SendFile(t) == ~MustDelete(t) /\ Begin(t, "send", NoFile)
DeleteFile(t) == MustDelete(t) /\ Begin(t, "delete", call[t].file)

\* Mutant: the query id is not counted.
NextQueryIdKept(t) ==
    /\ At(t, "bump")
    /\ Meets(t, {"emplace", "handle"})
    /\ call' = [call EXCEPT ![t].pc = "emplace", ![t].id = @ + 1]
    /\ UNCHANGED <<current, handlers, mtx, hand, results, tdlib>>

\* ++current_query_id_, from the value read before; then to handlers_.
NextQueryId(t) ==
    /\ At(t, "bump")
    /\ current' = call[t].id + 1
    /\ Meets(t, {"emplace", "handle"})
    /\ call' = [call EXCEPT ![t].pc = "emplace", ![t].id = @ + 1]
    /\ UNCHANGED <<handlers, mtx, hand, results, tdlib>>

\* emplace keeps the handler that is there; with another thread at handlers_
\* the new one may get lost.
EmplaceHandler(t) ==
    LET q == call[t].id
        emplaced == [i \in DOMAIN handlers \cup {q} |->
                        IF i \in DOMAIN handlers THEN handlers[i] ELSE t]
        race == \E u \in Threads \ {t} : call[u].pc \in {"emplace", "handle"} IN
    \E h \in {emplaced} \cup (IF race THEN {handlers} ELSE {}) : handlers' = h

SendQuery(t) ==
    /\ At(t, "emplace")
    /\ EmplaceHandler(t)
    /\ asked' = asked \cup {[id |-> call[t].id, of |-> t, kind |-> call[t].kind, file |-> call[t].file]}
    /\ Goto(t, "lock")
    /\ UNCHANGED <<current, raced, mtx, hand, results, queue, stored, uploaded, posting, posted, lastMsg>>

-----------------------------------------------------------------------------
(* The waits, under the mutex.                                             *)

\* Mutant: a thread that finds the mutex held receives too.
LockNot(t) ==
    /\ At(t, "lock")
    /\ mtx' = t
    /\ Goto(t, "wait")
    /\ UNCHANGED <<current, handlers, raced, hand, results, tdlib>>

Lock(t) ==
    /\ At(t, "lock")
    /\ mtx = NoThread
    /\ mtx' = t
    /\ Goto(t, "wait")
    /\ UNCHANGED <<current, handlers, raced, hand, results, tdlib>>

\* Mutant: SendFile does not wait for updateMessageSendSucceeded.
DoneEarly(t) ==
    LET c == call[t] IN
    /\ ~c.wait
    /\ c.kind = "download" => c.file \in downloads
    /\ c.kind = "send" => c.file \in uploads

\* The conditions of all the loops of a call.
Done(t) ==
    LET c == call[t] IN
    /\ ~c.wait
    /\ c.kind = "download" => c.file \in downloads
    /\ c.kind = "send" => c.file \in uploads /\ c.msg \in sent

Mark(S, f, yes) == IF yes THEN S \cup {f} ELSE S \ {f}

\* Receiving goes on: nothing but updates and answers can end the wait.
Receiving(t) == At(t, "wait") /\ ~Done(t) /\ queue # <<>> /\ queue' = Tail(queue)

ProcessUpdate(t) ==
    LET r == Head(queue) IN
    /\ Receiving(t)
    /\ r.to = 0
    /\ IF r.file = NoFile
       THEN sent' = sent \cup {r.msg} /\ UNCHANGED <<downloads, uploads>>
       ELSE /\ downloads' = Mark(downloads, r.file, r.down)
            /\ uploads' = Mark(uploads, r.file, r.up)
            /\ UNCHANGED sent
    /\ UNCHANGED <<current, handlers, raced, mtx, call, hand, asked, stored, uploaded, posting, posted, lastMsg>>

\* An answer that has no handler is dropped.  The lookup may miss one while
\* another thread emplaces.
ProcessResponse(t) ==
    LET r == Head(queue) IN
    /\ Receiving(t)
    /\ r.to # 0
    /\ Meets(t, {"emplace"})
    /\ \/ r.to \in DOMAIN handlers /\ Goto(t, "handle") /\ hand' = r
       \/ /\ r.to \notin DOMAIN handlers \/ \E u \in Threads : At(u, "emplace")
          /\ UNCHANGED <<call, hand>>
    /\ UNCHANGED <<current, handlers, mtx, results, asked, stored, uploaded, posting, posted, lastMsg>>

\* The handlers of SendFile and DownloadFile leave the call waiting if the
\* answer is an error.
Answered(c, r) ==
    IF r.ok \/ c.kind \in {"get", "delete"}
    THEN [c EXCEPT !.wait = FALSE, !.of = r.of, !.msg = r.msg,
                   !.file = IF c.kind = "send" THEN r.file ELSE @]
    ELSE c

\* Mutant: the handler stays in handlers_.
EraseNot(i) == UNCHANGED handlers

Erase(i) == handlers' = Restrict(handlers, DOMAIN handlers \ {i})

\* The handler writes to the call that made it, which waits in its own thread.
RunHandler(t) ==
    LET o == handlers[hand.to]
        done == [call EXCEPT ![o] = Answered(@, hand)] IN
    /\ At(t, "handle")
    /\ call' = [done EXCEPT ![t].pc = "wait"]
    /\ downloads' = IF call[o].kind = "download" /\ hand.ok
                    THEN Mark(downloads, hand.file, hand.down) ELSE downloads
    /\ uploads' = IF call[o].kind = "send" /\ hand.ok
                  THEN Mark(uploads, hand.file, hand.up) ELSE uploads
    /\ Erase(hand.to)
    /\ hand' = Nothing
    /\ UNCHANGED <<current, raced, mtx, sent, tdlib>>

\* Mutant: a path returns without unlock.
UnlockNot(t) ==
    /\ At(t, "wait") /\ Done(t)
    /\ Goto(t, "idle")
    /\ UNCHANGED <<current, handlers, raced, mtx, hand, results, tdlib>>

Unlock(t) ==
    /\ At(t, "wait") /\ Done(t)
    /\ mtx' = NoThread
    /\ Goto(t, "idle")
    /\ UNCHANGED <<current, handlers, raced, hand, results, tdlib>>

-----------------------------------------------------------------------------
(* TDLib.                                                                  *)

\* The answer comes after the updates about what the request did.
Reply(q, updates, r) == asked' = asked \ {q} /\ queue' = Append(queue \o updates, r)

Fail(q) ==
    /\ q.kind \in Failures
    /\ Reply(q, <<>>, Answer(q, FALSE, q.file, 0))
    /\ UNCHANGED <<stored, uploaded, posting, posted, lastMsg>>

Give(q) ==
    /\ q.kind = "get"
    /\ Reply(q, <<>>, Answer(q, TRUE, NoFile, 0))
    /\ UNCHANGED <<stored, uploaded, posting, posted, lastMsg>>

\* The request is synchronous: the answer comes when the file is here.
Fetch(q) ==
    /\ q.kind = "download"
    /\ stored' = stored \cup {q.file}
    /\ Reply(q, <<FileUpdate(q.file, TRUE, q.file \in uploaded)>>, Answer(q, TRUE, q.file, 0))
    /\ UNCHANGED <<uploaded, posting, posted, lastMsg>>

Discard(q) ==
    /\ q.kind = "delete"
    /\ stored' = stored \ {q.file}
    /\ Reply(q, IF q.file \in stored
                THEN <<FileUpdate(q.file, FALSE, q.file \in uploaded)>> ELSE <<>>,
                Answer(q, TRUE, q.file, 0))
    /\ UNCHANGED <<uploaded, posting, posted, lastMsg>>

\* The answer has the id that the message has until it is posted.
Accept(q) == \E f \in FilesOf[q.of] :
    /\ q.kind = "send"
    /\ lastMsg' = lastMsg + 1
    /\ posting' = posting \cup {[msg |-> lastMsg + 1, file |-> f]}
    /\ Reply(q, <<>>, Answer(q, TRUE, f, lastMsg + 1))
    /\ UNCHANGED <<stored, uploaded, posted>>

Respond == \E q \in asked :
    /\ Fail(q) \/ Give(q) \/ Fetch(q) \/ Discard(q) \/ Accept(q)
    /\ UNCHANGED <<current, handlers, raced, mtx, call, hand, results>>

Upload == \E p \in posting :
    /\ p.file \notin uploaded
    /\ uploaded' = uploaded \cup {p.file}
    /\ queue' = Append(queue, FileUpdate(p.file, p.file \in stored, TRUE))
    /\ UNCHANGED <<current, handlers, raced, mtx, call, hand, results, asked, stored, posting, posted, lastMsg>>

Post == \E p \in posting :
    /\ p.file \in uploaded
    /\ posting' = posting \ {p}
    /\ posted' = posted \cup {p.msg}
    /\ queue' = Append(queue, SentUpdate(p.msg))
    /\ UNCHANGED <<current, handlers, raced, mtx, call, hand, results, asked, stored, uploaded, lastMsg>>

\* ProcessUpdate ignores updateMessageSendFailed.
PostFails == \E p \in posting :
    /\ "post" \in Failures
    /\ posting' = posting \ {p}
    /\ UNCHANGED <<current, handlers, raced, mtx, call, hand, results, asked, queue, stored, uploaded, posted, lastMsg>>

-----------------------------------------------------------------------------
Call(t) == GetMessage(t) \/ DownloadFile(t) \/ SendFile(t) \/ DeleteFile(t)

\* The steps that wait for no other thread.
Go(t) == \/ NextQueryId(t) \/ SendQuery(t)
         \/ ProcessUpdate(t) \/ ProcessResponse(t) \/ RunHandler(t) \/ Unlock(t)

Next == \/ \E t \in Threads : Call(t) \/ Go(t) \/ Lock(t)
        \/ Respond \/ Upload \/ Post \/ PostFails

Spec == Init /\ [][Next]_vars

\* Threads run, TDLib works, and no thread is kept out of the mutex for ever by
\* others that take it in turn.
FairSpec == Spec /\ WF_vars(Respond) /\ WF_vars(Upload) /\ WF_vars(Post)
                 /\ \A t \in Threads : WF_vars(Go(t)) /\ SF_vars(Lock(t))

-----------------------------------------------------------------------------
(* Properties.                                                             *)

Requests == [id : Nat, of : Threads, kind : Kinds, file : Files \cup {NoFile}]
Responses == [to : Nat, of : Threads \cup {NoThread}, ok : BOOLEAN, file : Files \cup {NoFile},
              msg : Nat, down : BOOLEAN, up : BOOLEAN]
Calls == [pc : PCs, kind : Kinds, file : Files \cup {NoFile}, id : Nat, wait : BOOLEAN,
          of : Threads \cup {NoThread}, msg : Nat]

\* Every variable keeps its type; the thread that receives is the one that
\* holds the mutex, and an answer it has taken keeps its handler.
TypeOK ==
    /\ current \in Nat
    /\ DOMAIN handlers \subseteq Nat /\ \A i \in DOMAIN handlers : handlers[i] \in Threads
    /\ raced \in BOOLEAN
    /\ mtx \in Threads \cup {NoThread}
    /\ call \in [Threads -> Calls]
    /\ \A t \in Threads : call[t].pc \in {"wait", "handle"} <=> mtx = t
    /\ hand \in Responses
    /\ (\E t \in Threads : At(t, "handle")) => hand.to \in DOMAIN handlers
    /\ uploads \subseteq Files \cup {NoFile} /\ downloads \subseteq Files \cup {NoFile}
    /\ sent \subseteq Nat
    /\ asked \subseteq Requests
    /\ queue \in Seq(Responses)
    /\ stored \subseteq Files \cup {NoFile} /\ uploaded \subseteq Files
    /\ posting \subseteq [msg : Nat, file : Files] /\ posted \subseteq Nat
    /\ lastMsg \in Nat

\* A call that has stopped waiting has the answer to its own request, whichever
\* thread received it.
OwnAnswer == \A t \in Threads : ~call[t].wait => call[t].of \in {t, NoThread}

\* The call of t has made request i and still waits for its answer.
Waits(i, t) == call[t].pc \in {"lock", "wait", "handle"} /\ call[t].wait /\ call[t].id = i

\* Handlers are those of calls that still wait, so that no handler writes to
\* the frame of a call that has returned; and a call waits without a handler
\* only if it is a SendFile or DownloadFile and its answer was an error.
HandlersMatch ==
    /\ \A i \in DOMAIN handlers : Waits(i, handlers[i])
    /\ \A t \in Threads : Waits(call[t].id, t) =>
          call[t].id \in DOMAIN handlers \/ call[t].kind \in Failures \cap {"send", "download"}

\* SendFile returns when the message is in the chat and its file on the server.
SentIsPosted == \A t \in Threads :
    call[t].kind = "send" /\ At(t, "idle") => call[t].msg \in posted /\ call[t].file \in uploaded

\* However many threads call, and whoever receives, these hold up to the first
\* time that two threads meet at current_query_id_ or at handlers_.
OwnAnswerUntilRace == raced \/ OwnAnswer
HandlersMatchUntilRace == raced \/ HandlersMatch
SentIsPostedUntilRace == raced \/ SentIsPosted

\* The calls that are known not to return: SendFile and DownloadFile whose
\* answer was an error, and SendFile whose message is never posted.
Abandoned(t) ==
    LET c == call[t] IN
    /\ c.kind \in {"send", "download"} /\ c.pc = "wait"
    /\ \/ c.wait /\ c.id \notin DOMAIN handlers
       \/ c.kind = "send" /\ ~c.wait /\ c.msg \notin posted /\ ~\E p \in posting : p.msg = c.msg

\* Every call returns, or threads meet, or a call is abandoned: the mutex is
\* then held for ever by its thread, and no later call returns either.
CallsReturn == \A t \in Threads :
    ~At(t, "idle") ~> At(t, "idle") \/ raced \/ \E u \in Threads : Abandoned(u)
=============================================================================
