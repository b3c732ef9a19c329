---------------------------- MODULE TgStartProofs ----------------------------
(***************************************************************************)
(* Proofs about TdAuth and TgStart for any number of runs, updates and     *)
(* wrong inputs.                                                           *)
(*                                                                         *)
(* No question is lost because each step hands it on: a state that needs   *)
(* the user is in an update under way, or typed for, or in the request     *)
(* with the current id, or in the error that answers it (Asked).  A table  *)
(* is taken down by its key because from the check on the key of the run   *)
(* is that of the table (KeyFits).  Each question the program asks is paid  *)
(* for by an update or by a wrong request (Paid).                          *)
(***************************************************************************)
EXTENDS TgStart, FiniteSetTheorems, TLAPS

IsRefusal(m, id) == m.answer /\ ~m.ok /\ m.id = id

\* The last update under way tells the state of TDLib.
LastIsReal == \A i \in DOMAIN mail :
    ~mail[i].answer /\ (\A j \in DOMAIN mail : j > i => mail[j].answer) => mail[i].state = real

\* What TDLib waits for is asked of the user.
Asked == Updates = {} /\ real \in Asking \cup {"params"} =>
    \/ typing
    \/ \E q \in pending : q.id = authId
    \/ \E i \in DOMAIN mail : IsRefusal(mail[i], authId)

AuthInv == AuthTypeOK /\ LastIsReal /\ Asked

LEMMA StatesFacts == /\ "none" \in States /\ "params" \in States /\ "phone" \in States
                     /\ "loggingOut" \in States /\ "closing" \in States /\ "closed" \in States
                     /\ "ready" \in States /\ Asking \subseteq States /\ "params" \notin Asking
                     /\ "ready" \notin Asking /\ Words \subseteq Asking
BY DEF States, Asking, Words, Ending

LEMMA UpdateOK == ASSUME NEW s \in States
                  PROVE  Update(s) \in Messages /\ ~Update(s).answer /\ Update(s).state = s
BY DEF Update, Messages

LEMMA AnswerOK == ASSUME NEW q \in Requests, NEW ok \in BOOLEAN
                  PROVE  /\ Answer(q, ok) \in Messages /\ Answer(q, ok).answer
                         /\ Answer(q, ok).id = q.id /\ Answer(q, ok).ok = ok
BY DEF Answer, Messages, Requests

\* A new client has one update under way, and has asked nothing.
LEMMA FreshInv == ASSUME AuthFresh, login' \in States PROVE AuthInv'
<1>1. mail' = <<Update("params")>> /\ DOMAIN mail' = {1} /\ mail'[1] = Update("params")
  BY DEF AuthFresh
<1>2. Update("params") \in Messages /\ ~Update("params").answer /\ Update("params").state = "params"
  BY UpdateOK, StatesFacts
<1>3. Updates' = {1}
  BY <1>1, <1>2 DEF Updates
<1>4. mail' \in Seq(Messages)
  BY <1>1, <1>2
<1>5. AuthTypeOK'
  BY <1>3, <1>4, StatesFacts DEF AuthFresh, AuthTypeOK
<1>6. LastIsReal'
  BY <1>1, <1>2 DEF AuthFresh, LastIsReal
<1>7. Asked'
  BY <1>3 DEF Asked
<1> QED BY <1>5, <1>6, <1>7 DEF AuthInv

LEMMA InitAuthInv == AuthInit => AuthInv
<1> SUFFICES ASSUME AuthInit PROVE AuthInv
  OBVIOUS
<1>1. mail = <<Update("params")>> /\ DOMAIN mail = {1} /\ mail[1] = Update("params")
  BY DEF AuthInit
<1>2. Update("params") \in Messages /\ ~Update("params").answer /\ Update("params").state = "params"
  BY UpdateOK, StatesFacts
<1>3. Updates = {1}
  BY <1>1, <1>2 DEF Updates
<1>4. mail \in Seq(Messages)
  BY <1>1, <1>2
<1>5. AuthTypeOK
  BY <1>3, <1>4, StatesFacts DEF AuthInit, AuthTypeOK
<1>6. LastIsReal
  BY <1>1, <1>2 DEF AuthInit, LastIsReal
<1>7. Asked
  BY <1>3 DEF Asked
<1> QED BY <1>5, <1>6, <1>7 DEF AuthInv

\* A message more is under way, or two.
LEMMA MailGrows ==
  ASSUME AuthTypeOK, NEW m \in Messages, mail' = Append(mail, m)
  PROVE  /\ mail' \in Seq(Messages) /\ DOMAIN mail' = 1..(Len(mail) + 1)
         /\ DOMAIN mail = 1..Len(mail) /\ Len(mail) \in Nat
         /\ mail'[Len(mail) + 1] = m /\ \A i \in DOMAIN mail : mail'[i] = mail[i]
BY DEF AuthTypeOK

LEMMA MailGrowsTwice ==
  ASSUME AuthTypeOK, NEW m \in Messages, NEW n \in Messages, mail' = mail \o <<m, n>>
  PROVE  /\ mail' \in Seq(Messages) /\ DOMAIN mail' = 1..(Len(mail) + 2)
         /\ DOMAIN mail = 1..Len(mail) /\ Len(mail) \in Nat
         /\ mail'[Len(mail) + 1] = m /\ mail'[Len(mail) + 2] = n
         /\ \A i \in DOMAIN mail : mail'[i] = mail[i]
BY DEF AuthTypeOK

LEMMA MailTaken ==
  ASSUME AuthTypeOK, mail # <<>>, mail' = Tail(mail)
  PROVE  /\ mail' \in Seq(Messages) /\ Head(mail) \in Messages /\ Head(mail) = mail[1]
         /\ DOMAIN mail = 1..Len(mail) /\ Len(mail) \in Nat /\ Len(mail) > 0
         /\ DOMAIN mail' = 1..(Len(mail) - 1)
         /\ \A i \in DOMAIN mail' : mail'[i] = mail[i + 1]
BY DEF AuthTypeOK

LEMMA AuthIds == AuthTypeOK => authId \in Nat /\ wrong \in Nat /\ told \in Nat
BY DEF AuthTypeOK

\* OnAuthorizationStateUpdate types for the user or sends a request, with the
\* new id, and keeps the types.
LEMMA OnUpdateOK ==
  ASSUME AuthTypeOK, NEW s \in States, OnAuthorizationStateUpdate(s)
  PROVE  /\ authId' = authId + 1 /\ authId' \in Nat /\ wrong' \in Nat
         /\ pending' \subseteq Requests /\ \A q \in pending' : q.id <= authId'
         /\ authorized' \in BOOLEAN /\ typing' \in BOOLEAN
         /\ s \in Asking <=> typing'
         /\ s = "params" => \E q \in pending' : q.id = authId'
<1>1. authId \in Nat /\ wrong \in Nat /\ pending \subseteq Requests /\ \A q \in pending : q.id \in Nat /\ q.id <= authId
  BY DEF AuthTypeOK, Requests
<1>2. authId' = authId + 1 /\ authId' \in Nat
  BY <1>1 DEF OnAuthorizationStateUpdate
<1>3. authorized' \in BOOLEAN
  BY DEF OnAuthorizationStateUpdate
<1>4. typing' \in BOOLEAN /\ (s \in Asking <=> typing')
  <2>1. typing' = (s \in Asking)
    BY DEF OnAuthorizationStateUpdate
  <2>2. (s \in Asking) \in BOOLEAN
    OBVIOUS
  <2>3. PICK b \in BOOLEAN : b = (s \in Asking)
    BY <2>2
  <2> QED BY <2>1, <2>3
<1>5. CASE s = "params"
  <2>1. PICK good \in BOOLEAN : Send(s, authId + 1, good)
    BY <1>5 DEF OnAuthorizationStateUpdate
  <2>2. pending' = pending \cup {[for |-> s, id |-> authId + 1, good |-> good]} /\ wrong' \in Nat
    BY <1>1, <2>1 DEF Send
  <2>3. [for |-> s, id |-> authId + 1, good |-> good] \in Requests
    BY <1>1 DEF Requests
  <2> QED BY <1>1, <1>2, <1>3, <1>4, <2>2, <2>3
<1>6. CASE s # "params"
  <2>1. pending' = pending /\ wrong' = wrong
    BY <1>6 DEF OnAuthorizationStateUpdate
  <2> QED BY <1>1, <1>2, <1>3, <1>4, <1>6, <2>1
<1> QED BY <1>5, <1>6

LEMMA UpdateInv == ASSUME AuthInv, ProcessAuthUpdate PROVE AuthInv'
<1> DEFINE r == Head(mail)
<1>1. /\ AuthTypeOK /\ LastIsReal /\ mail # <<>> /\ ~r.answer /\ state' = r.state
      /\ mail' = Tail(mail) /\ UNCHANGED <<newline, real, login, told>>
  BY DEF AuthInv, ProcessAuthUpdate
<1>2. /\ mail' \in Seq(Messages) /\ r \in Messages /\ r = mail[1]
      /\ DOMAIN mail = 1..Len(mail) /\ Len(mail) \in Nat /\ Len(mail) > 0
      /\ DOMAIN mail' = 1..(Len(mail) - 1)
      /\ \A i \in DOMAIN mail' : mail'[i] = mail[i + 1]
  BY <1>1, MailTaken
<1>3. r.state \in States
  BY <1>2 DEF Messages
<1>4. /\ authId' = authId + 1 /\ authId' \in Nat /\ wrong' \in Nat
      /\ pending' \subseteq Requests /\ \A q \in pending' : q.id <= authId'
      /\ authorized' \in BOOLEAN /\ typing' \in BOOLEAN
      /\ r.state \in Asking <=> typing'
      /\ r.state = "params" => \E q \in pending' : q.id = authId'
  <2>1. OnAuthorizationStateUpdate(r.state)
    BY DEF ProcessAuthUpdate
  <2> HIDE DEF r
  <2> QED BY <1>1, <1>3, <2>1, OnUpdateOK
<1> HIDE DEF r
<1>5. Updates' = {} => r.state = real
  <2> SUFFICES ASSUME Updates' = {} PROVE r.state = real
    OBVIOUS
  <2>1. \A j \in DOMAIN mail : j > 1 => mail[j].answer
    <3> TAKE j \in DOMAIN mail
    <3> HAVE j > 1
    <3>1. j - 1 \in DOMAIN mail' /\ mail'[j - 1] = mail[j]
      BY <1>2
    <3> QED BY <3>1 DEF Updates
  <2>2. 1 \in DOMAIN mail
    BY <1>2
  <2> QED BY <1>1, <1>2, <2>1, <2>2 DEF LastIsReal
<1>6. LastIsReal'
  <2> SUFFICES ASSUME NEW i \in DOMAIN mail', ~mail'[i].answer,
                      \A j \in DOMAIN mail' : j > i => mail'[j].answer
               PROVE  mail'[i].state = real
    BY <1>1 DEF LastIsReal
  <2>1. i + 1 \in DOMAIN mail /\ mail'[i] = mail[i + 1]
    BY <1>2
  <2>2. \A j \in DOMAIN mail : j > i + 1 => mail[j].answer
    <3> TAKE j \in DOMAIN mail
    <3> HAVE j > i + 1
    <3>1. j - 1 \in DOMAIN mail' /\ mail'[j - 1] = mail[j] /\ j - 1 > i
      BY <1>2
    <3> QED BY <3>1
  <2> QED BY <1>1, <2>1, <2>2 DEF LastIsReal
<1>7. Asked'
  BY <1>1, <1>4, <1>5 DEF Asked
<1>8. AuthTypeOK'
  BY <1>1, <1>2, <1>3, <1>4, <1>5 DEF AuthTypeOK
<1> QED BY <1>6, <1>7, <1>8 DEF AuthInv

LEMMA AnswerInv == ASSUME AuthInv, ProcessAuthAnswer PROVE AuthInv'
<1> DEFINE r == Head(mail)
<1>1. /\ AuthTypeOK /\ LastIsReal /\ Asked /\ mail # <<>> /\ ~typing /\ r.answer
      /\ mail' = Tail(mail) /\ UNCHANGED <<state, newline, real, login, told>>
  BY DEF AuthInv, ProcessAuthAnswer
<1>2. /\ mail' \in Seq(Messages) /\ r \in Messages /\ r = mail[1]
      /\ DOMAIN mail = 1..Len(mail) /\ Len(mail) \in Nat /\ Len(mail) > 0
      /\ DOMAIN mail' = 1..(Len(mail) - 1)
      /\ \A i \in DOMAIN mail' : mail'[i] = mail[i + 1]
  BY <1>1, MailTaken
<1>3. IF r.id = authId /\ ~r.ok
      THEN OnAuthorizationStateUpdate(state)
      ELSE UNCHANGED <<authId, authorized, typing, pending, wrong>>
  BY DEF ProcessAuthAnswer, AsksAgain
<1> HIDE DEF r
<1>4. Updates' = {} => Updates = {}
  <2> SUFFICES ASSUME Updates' = {}, NEW j \in DOMAIN mail, ~mail[j].answer PROVE FALSE
    BY DEF Updates
  <2>1. j # 1
    BY <1>1, <1>2
  <2>2. j - 1 \in DOMAIN mail' /\ mail'[j - 1] = mail[j]
    BY <1>2, <2>1
  <2> QED BY <2>2 DEF Updates
<1>5. LastIsReal'
  <2> SUFFICES ASSUME NEW i \in DOMAIN mail', ~mail'[i].answer,
                      \A j \in DOMAIN mail' : j > i => mail'[j].answer
               PROVE  mail'[i].state = real
    BY <1>1 DEF LastIsReal
  <2>1. i + 1 \in DOMAIN mail /\ mail'[i] = mail[i + 1]
    BY <1>2
  <2>2. \A j \in DOMAIN mail : j > i + 1 => mail[j].answer
    <3> TAKE j \in DOMAIN mail
    <3> HAVE j > i + 1
    <3>1. j - 1 \in DOMAIN mail' /\ mail'[j - 1] = mail[j] /\ j - 1 > i
      BY <1>2
    <3> QED BY <3>1
  <2> QED BY <1>1, <2>1, <2>2 DEF LastIsReal
<1>6. CASE r.id = authId /\ ~r.ok
  <2>1. state \in States /\ OnAuthorizationStateUpdate(state)
    BY <1>1, <1>3, <1>6 DEF AuthTypeOK
  <2>2. /\ authId' = authId + 1 /\ authId' \in Nat /\ wrong' \in Nat
        /\ pending' \subseteq Requests /\ \A q \in pending' : q.id <= authId'
        /\ authorized' \in BOOLEAN /\ typing' \in BOOLEAN
        /\ state \in Asking <=> typing'
        /\ state = "params" => \E q \in pending' : q.id = authId'
    BY <1>1, <2>1, OnUpdateOK
  <2>3. Updates = {} => state = real
    BY <1>1 DEF AuthTypeOK
  <2>4. Asked'
    BY <1>1, <1>4, <2>2, <2>3 DEF Asked
  <2>5. AuthTypeOK'
    BY <1>1, <1>2, <1>4, <2>2, <2>3 DEF AuthTypeOK
  <2> QED BY <1>5, <2>4, <2>5 DEF AuthInv
<1>7. CASE ~(r.id = authId /\ ~r.ok)
  <2>1. UNCHANGED <<authId, authorized, typing, pending, wrong>>
    BY <1>3, <1>7
  <2>2. Asked'
    <3> SUFFICES ASSUME Updates' = {}, real \in Asking \cup {"params"},
                        NEW i \in DOMAIN mail, IsRefusal(mail[i], authId)
                 PROVE  \E j \in DOMAIN mail' : IsRefusal(mail'[j], authId')
      BY <1>1, <1>4, <2>1 DEF Asked
    <3>1. i # 1
      BY <1>2, <1>7 DEF IsRefusal
    <3>2. i - 1 \in DOMAIN mail' /\ mail'[i - 1] = mail[i]
      BY <1>2, <3>1
    <3> QED BY <2>1, <3>2 DEF IsRefusal
  <2>3. AuthTypeOK'
    BY <1>1, <1>2, <1>4, <2>1 DEF AuthTypeOK
  <2> QED BY <1>5, <2>2, <2>3 DEF AuthInv
<1> QED BY <1>6, <1>7

LEMMA TypeInv == ASSUME AuthInv, Type PROVE AuthInv'
<1>1. /\ AuthTypeOK /\ LastIsReal
      /\ UNCHANGED <<state, authId, authorized, mail, real, login, told>>
      /\ typing' = FALSE /\ newline' = (state \in Words)
  BY DEF AuthInv, Type
<1>2. PICK good \in BOOLEAN : Send(state, authId, good)
  BY DEF Type
<1> DEFINE new == [for |-> state, id |-> authId, good |-> good]
<1>3. new \in Requests /\ pending' = pending \cup {new} /\ wrong' \in Nat
      /\ new.id = authId /\ authId \in Nat
  BY <1>1, <1>2 DEF AuthTypeOK, Requests, Send
<1> HIDE DEF new
<1>4. newline' \in BOOLEAN
  BY <1>1
<1>5. pending' \subseteq Requests /\ \A q \in pending' : q.id <= authId
  BY <1>1, <1>3 DEF AuthTypeOK
<1>6. AuthTypeOK'
  BY <1>1, <1>3, <1>4, <1>5 DEF AuthTypeOK, Updates
<1>7. LastIsReal'
  BY <1>1 DEF LastIsReal
<1>8. Asked'
  BY <1>1, <1>3 DEF Asked
<1> QED BY <1>6, <1>7, <1>8 DEF AuthInv

\* TDLib moves on: the news comes last.
LEMMA NewsInv ==
  ASSUME AuthInv, NEW s \in States, Become(s), UNCHANGED <<state, authId, authorized, input, wrong>>,
         pending' \subseteq pending,
         \/ mail' = Append(mail, Update(s))
         \/ \E q \in pending : mail' = mail \o <<Update(s), Answer(q, TRUE)>>
  PROVE  AuthInv'
<1>1. /\ AuthTypeOK /\ real' = s /\ told' \in Nat /\ login' \in States
      /\ Update(s) \in Messages /\ ~Update(s).answer /\ Update(s).state = s
  BY StatesFacts, UpdateOK DEF AuthInv, AuthTypeOK, Become
<1>2. /\ mail' \in Seq(Messages) /\ Len(mail) \in Nat /\ Len(mail) + 1 \in DOMAIN mail'
      /\ mail'[Len(mail) + 1] = Update(s)
      /\ \A i \in DOMAIN mail' : i \in Nat /\ (i > Len(mail) + 1 => mail'[i].answer)
  <2>1. CASE mail' = Append(mail, Update(s))
    <3>1. /\ mail' \in Seq(Messages) /\ DOMAIN mail' = 1..(Len(mail) + 1) /\ Len(mail) \in Nat
          /\ mail'[Len(mail) + 1] = Update(s)
      BY <1>1, <2>1, MailGrows
    <3> QED BY <3>1
  <2>2. CASE \E q \in pending : mail' = mail \o <<Update(s), Answer(q, TRUE)>>
    <3>1. PICK q \in pending : mail' = mail \o <<Update(s), Answer(q, TRUE)>>
      BY <2>2
    <3>2. Answer(q, TRUE) \in Messages /\ Answer(q, TRUE).answer
      BY <1>1, AnswerOK DEF AuthTypeOK
    <3>3. /\ mail' \in Seq(Messages) /\ DOMAIN mail' = 1..(Len(mail) + 2) /\ Len(mail) \in Nat
          /\ mail'[Len(mail) + 1] = Update(s) /\ mail'[Len(mail) + 2] = Answer(q, TRUE)
      BY <1>1, <3>1, <3>2, MailGrowsTwice
    <3>4. \A i \in 1..(Len(mail) + 2) : i > Len(mail) + 1 => i = Len(mail) + 2
      BY <3>3
    <3>5. Len(mail) + 1 \in DOMAIN mail' /\ \A i \in DOMAIN mail' : i \in Nat
      BY <3>3
    <3>6. \A i \in DOMAIN mail' : i > Len(mail) + 1 => mail'[i].answer
      <4> TAKE i \in DOMAIN mail'
      <4> HAVE i > Len(mail) + 1
      <4>1. i = Len(mail) + 2
        BY <3>3, <3>4
      <4> QED BY <3>2, <3>3, <4>1
    <3> QED BY <3>3, <3>5, <3>6
  <2> QED BY <2>1, <2>2
<1>3. Updates' # {}
  BY <1>1, <1>2 DEF Updates
<1>4. LastIsReal'
  <2> SUFFICES ASSUME NEW i \in DOMAIN mail', ~mail'[i].answer,
                      \A j \in DOMAIN mail' : j > i => mail'[j].answer
               PROVE  mail'[i].state = s
    BY <1>1 DEF LastIsReal
  <2>1. i = Len(mail) + 1
    BY <1>1, <1>2
  <2> QED BY <1>1, <1>2, <2>1
<1>5. Asked'
  BY <1>3 DEF Asked
<1>6. AuthTypeOK'
  BY <1>1, <1>2, <1>3 DEF AuthTypeOK, input
<1> QED BY <1>4, <1>5, <1>6 DEF AuthInv

LEMMA RefuseInv == ASSUME AuthInv, Refuse PROVE AuthInv'
<1>1. AuthTypeOK /\ LastIsReal /\ Asked
      /\ UNCHANGED <<state, authId, authorized, typing, newline, real, login, told, wrong>>
  BY DEF AuthInv, Refuse, input
<1>2. PICK q \in pending : pending' = pending \ {q} /\ mail' = Append(mail, Answer(q, FALSE))
  BY DEF Refuse
<1> DEFINE m == Answer(q, FALSE)
<1>3. m \in Messages /\ m.answer /\ m.id = q.id /\ m.ok = FALSE
  BY <1>1, AnswerOK DEF AuthTypeOK
<1>4. mail' = Append(mail, m)
  BY <1>2
<1> HIDE DEF m
<1>5. /\ mail' \in Seq(Messages) /\ DOMAIN mail' = 1..(Len(mail) + 1)
      /\ DOMAIN mail = 1..Len(mail) /\ Len(mail) \in Nat
      /\ mail'[Len(mail) + 1] = m /\ \A i \in DOMAIN mail : mail'[i] = mail[i]
  BY <1>1, <1>3, <1>4, MailGrows
<1>6. DOMAIN mail \subseteq DOMAIN mail' /\ \A i \in DOMAIN mail' : i \in DOMAIN mail \/ mail'[i] = m
  BY <1>5
<1>7. Updates' = Updates
  BY <1>3, <1>5, <1>6 DEF Updates
<1>8. AuthTypeOK'
  BY <1>1, <1>2, <1>5, <1>7 DEF AuthTypeOK
<1>9. LastIsReal'
  <2> SUFFICES ASSUME NEW i \in DOMAIN mail', ~mail'[i].answer,
                      \A j \in DOMAIN mail' : j > i => mail'[j].answer
               PROVE  mail'[i].state = real
    BY <1>1 DEF LastIsReal
  <2>1. i \in DOMAIN mail /\ mail'[i] = mail[i]
    BY <1>3, <1>5, <1>6
  <2>2. \A j \in DOMAIN mail : j > i => mail[j].answer
    BY <1>5, <1>6
  <2> QED BY <1>1, <2>1, <2>2 DEF LastIsReal
<1>10. Asked'
  <2> SUFFICES ASSUME Updates = {}, real \in Asking \cup {"params"}, ~typing
               PROVE  \/ \E p \in pending' : p.id = authId
                      \/ \E i \in DOMAIN mail' : IsRefusal(mail'[i], authId')
    BY <1>1, <1>7 DEF Asked
  <2>1. CASE \E i \in DOMAIN mail : IsRefusal(mail[i], authId)
    BY <1>1, <1>5, <1>6, <2>1 DEF IsRefusal
  <2>2. CASE q.id = authId
    <3>1. Len(mail) + 1 \in DOMAIN mail'
      BY <1>5
    <3> QED BY <1>1, <1>3, <1>5, <2>2, <3>1 DEF IsRefusal
  <2>3. CASE \E p \in pending : p.id = authId /\ q.id # authId
    BY <1>2, <2>3
  <2> QED BY <1>1, <2>1, <2>2, <2>3 DEF Asked
<1> QED BY <1>8, <1>9, <1>10 DEF AuthInv

LEMMA AuthStepInv == ASSUME AuthInv, Auth PROVE AuthInv'
<1>1. CASE Receive
  BY <1>1, UpdateInv, AnswerInv DEF Receive
<1>2. CASE Type
  BY <1>2, TypeInv
<1>3. CASE Accept
  <2>1. PICK q \in pending, s \in States :
          /\ Become(s) /\ pending' = pending \ {q}
          /\ mail' = mail \o <<Update(s), Answer(q, TRUE)>>
          /\ UNCHANGED <<state, authId, authorized, input, wrong>>
    BY <1>3 DEF Accept
  <2> QED BY <2>1, NewsInv
<1>4. CASE Refuse
  BY <1>4, RefuseInv
<1>5. CASE Nudge
  <2>1. PICK s \in {real, "phone", "loggingOut", "closing"} :
          /\ Become(s) /\ mail' = Append(mail, Update(s))
          /\ UNCHANGED <<state, authId, authorized, input, pending, wrong>>
    BY <1>5 DEF Nudge
  <2>2. s \in States
    BY StatesFacts DEF AuthInv, AuthTypeOK
  <2> QED BY <2>1, <2>2, NewsInv
<1>6. CASE Close
  <2>1. /\ Become("closed") /\ mail' = Append(mail, Update("closed"))
        /\ UNCHANGED <<state, authId, authorized, input, pending, wrong>>
    BY <1>6 DEF Close
  <2> QED BY <2>1, StatesFacts, NewsInv
<1> QED BY <1>1, <1>2, <1>3, <1>4, <1>5, <1>6 DEF Auth, Respond

LEMMA AuthSame == ASSUME AuthInv, UNCHANGED authVars PROVE AuthInv'
BY DEF AuthInv, authVars, input, td, AuthTypeOK, LastIsReal, Asked, IsRefusal, Updates

LEMMA AuthInvGives == AuthInv => AuthTypeOK /\ NoLostQuestion
<1> SUFFICES ASSUME AuthInv, mail = <<>> PROVE Updates = {} /\ DOMAIN mail = {}
  BY DEF AuthInv, NoLostQuestion, Asked
<1> QED BY DEF Updates

-----------------------------------------------------------------------------
(* Runs of the program.                                                    *)

Runs == {"options", "table", "root", "pin", "session", "serve"}

StartTypes ==
    /\ pc \in PCs /\ starts \in 0..MaxStarts
    /\ opts \in Options
    /\ files \in [{"own", "given"} -> Key \cup {NoKey}]
    /\ key \in Key \cup {NoKey} /\ table \in Key \cup {NoKey}
    /\ chat \in BOOLEAN /\ current \in BOOLEAN /\ mounted \in BOOLEAN /\ missed \in BOOLEAN

\* Where the key and the chat are there.
KeyThere ==
    /\ pc \in {"check", "table", "root", "pin", "session", "serve"} => key # NoKey
    /\ pc = "options" => opts.info \/ key # NoKey
    /\ pc \in {"down", "auth", "keys"} => key = NoKey
    /\ pc \in {"down", "auth"} => chat = FALSE
    /\ pc \in {"down", "auth", "keys", "check"} => current = FALSE

\* From the check on, what is pinned is of the key of the run, unless an error
\* hid it.
KeyFits ==
    /\ pc \in Runs /\ chat /\ HasTable => table = key \/ missed
    /\ pc = "pin" => ~HasTable

StartInv == StartTypes /\ KeyThere /\ KeyFits
Inv == AuthInv /\ StartInv

LEMMA KeyFacts == /\ MaxStarts \in Nat /\ NoKey \notin Key /\ Blank \in Key
                  /\ 0 \in 0..MaxStarts /\ NoOptions \in Options
BY StartAssumption DEF Key, Blank, NoOptions, Options

LEMMA StartInit == Init => Inv
<1> SUFFICES ASSUME Init PROVE AuthInv /\ StartInv
  BY DEF Inv
<1>1. AuthInv
  BY InitAuthInv DEF Init
<1>2. StartTypes
  <2>1. files \in [{"own", "given"} -> Key \cup {NoKey}]
    BY DEF Init
  <2>2. /\ pc \in PCs /\ starts \in 0..MaxStarts /\ opts \in Options
        /\ key \in Key \cup {NoKey} /\ table \in Key \cup {NoKey}
        /\ chat \in BOOLEAN /\ current \in BOOLEAN /\ mounted \in BOOLEAN /\ missed \in BOOLEAN
    BY KeyFacts DEF Init, PCs
  <2> QED BY <2>1, <2>2 DEF StartTypes
<1>3. KeyThere /\ KeyFits
  BY DEF Init, KeyThere, KeyFits, Runs
<1> QED BY <1>1, <1>2, <1>3 DEF StartInv

LEMMA ExitInv == ASSUME Inv, Exit, UNCHANGED <<files, table>> PROVE Inv'
<1>1. login' \in States
  BY DEF Inv, AuthInv, AuthTypeOK, Exit
<1>2. AuthInv'
  BY <1>1, FreshInv DEF Exit
<1>3. StartInv'
  BY KeyFacts DEF Inv, StartInv, StartTypes, KeyThere, KeyFits, Exit, PCs, Runs
<1> QED BY <1>2, <1>3 DEF Inv

LEMMA ParseInv == ASSUME Inv, Parse PROVE Inv'
<1>1. PICK o \in Options :
        /\ pc = "down" /\ starts < MaxStarts /\ starts' = starts + 1
        /\ IF o.whole
           THEN opts' = o /\ pc' = IF o.info THEN "options" ELSE "auth"
           ELSE UNCHANGED <<opts, pc>>
        /\ UNCHANGED <<authVars, files, table, key, chat, current, mounted, missed>>
  BY DEF Parse
<1>2. AuthInv'
  BY <1>1, AuthSame DEF Inv
<1>3. starts' \in 0..MaxStarts
  BY <1>1, KeyFacts DEF Inv, StartInv, StartTypes
<1>4. o.info \in BOOLEAN
  BY DEF Options
<1>5. StartInv' => Inv'
  BY <1>2 DEF Inv
<1>6. (o.whole /\ o.info) \/ (o.whole /\ ~o.info) \/ ~o.whole
  BY <1>4
<1>7. ASSUME o.whole, o.info PROVE StartInv'
  BY <1>1, <1>3, <1>7 DEF Inv, StartInv, StartTypes, KeyThere, KeyFits, PCs, Runs, HasTable
<1>8. ASSUME o.whole, ~o.info PROVE StartInv'
  BY <1>1, <1>3, <1>8 DEF Inv, StartInv, StartTypes, KeyThere, KeyFits, PCs, Runs, HasTable
<1>9. ASSUME ~o.whole PROVE StartInv'
  BY <1>1, <1>3, <1>9 DEF Inv, StartInv, StartTypes, KeyThere, KeyFits, PCs, Runs, HasTable
<1> QED BY <1>5, <1>6, <1>7, <1>8, <1>9

LEMMA LogInInv == ASSUME Inv, LogIn PROVE Inv'
<1>1. AuthInv'
  BY AuthStepInv DEF Inv, LogIn, AuthNext
<1>2. StartInv'
  BY DEF Inv, LogIn, run, StartInv, StartTypes, KeyThere, KeyFits, HasTable
<1> QED BY <1>1, <1>2 DEF Inv

LEMMA FindChatInv == ASSUME Inv, FindChat PROVE Inv'
<1>1. login' \in States
  BY DEF Inv, AuthInv, AuthTypeOK, FindChat
<1>2. AuthInv'
  BY <1>1, FreshInv DEF FindChat
<1>3. StartInv'
  BY DEF Inv, StartInv, StartTypes, KeyThere, KeyFits, FindChat, PCs, Runs
<1> QED BY <1>2, <1>3 DEF Inv

\* The key of a run is in Key, wherever it comes from.
LEMMA MakeKeysInv == ASSUME Inv, MakeKeys PROVE Inv'
<1>1. /\ pc = "keys" /\ pc' = "check" /\ StartTypes /\ KeyThere
      /\ UNCHANGED <<authVars, starts, table, opts, chat, current, mounted, missed>>
      /\ IF NewKey THEN Generate ELSE Load
  BY DEF Inv, StartInv, MakeKeys, Goto
<1>2. KeyPath \in {"own", "given"} /\ starts \in Key /\ files[KeyPath] \in Key \cup {NoKey}
  BY <1>1 DEF StartTypes, KeyPath, Key
<1>3. key' \in Key /\ files' \in [{"own", "given"} -> Key \cup {NoKey}]
  <2>1. CASE NewKey
    <3>1. key' = starts /\ \E k \in {starts, files[KeyPath], NoKey} : files' = [files EXCEPT ![KeyPath] = k]
      BY <1>1, <2>1 DEF Generate
    <3> QED BY <1>1, <1>2, <3>1 DEF StartTypes
  <2>2. CASE ~NewKey
    <3>1. key' \in (IF files[KeyPath] # NoKey THEN {files[KeyPath]} ELSE {starts, Blank}) /\ files' = files
      BY <1>1, <2>2 DEF Load
    <3> QED BY <1>1, <1>2, <3>1, KeyFacts DEF StartTypes
  <2> QED BY <2>1, <2>2
<1>4. key' # NoKey
  BY <1>3, KeyFacts
<1>5. AuthInv'
  BY <1>1, AuthSame DEF Inv
<1>6. StartInv'
  BY <1>1, <1>3, <1>4 DEF StartInv, StartTypes, KeyThere, KeyFits, PCs, Runs
<1> QED BY <1>5, <1>6 DEF Inv

\* missed stays what it is, or becomes TRUE.
LEMMA MissOK ==
  ASSUME StartTypes, NEW p, NEW c, Miss(p, c)
  PROVE  /\ missed' \in BOOLEAN /\ (missed => missed')
         /\ (p = IsPinned \/ missed')
BY DEF StartTypes, Miss

\* A run goes on after the check only with the key of the table, or when it
\* missed the table.
LEMMA TryKeyInv == ASSUME Inv, NEW pinned, TryKey(pinned) PROVE Inv'
<1>0. StartTypes
  BY DEF Inv, StartInv
<1>1. /\ pc = "check"
      /\ IF WrongKey(pinned)
         THEN Exit
         ELSE /\ Goto("check", "options")
              /\ current' = FALSE
              /\ Miss(pinned, IsCurrent)
              /\ UNCHANGED <<opts, key, chat, mounted>>
      /\ UNCHANGED <<files, table>>
  BY DEF TryKey
<1>2. CASE WrongKey(pinned)
  BY <1>1, <1>2, ExitInv
<1>3. CASE ~WrongKey(pinned)
  <2>1. /\ pc = "check" /\ pc' = "options" /\ current' = FALSE
        /\ UNCHANGED <<authVars, starts, files, table, opts, key, chat, mounted>>
    BY <1>1, <1>3 DEF Goto
  <2>2. /\ missed' \in BOOLEAN
        /\ pinned = IsPinned \/ missed'
    BY <1>0, <1>1, <1>3, MissOK
  <2>3. chat /\ HasTable => key = table \/ missed'
    BY <1>3, <2>2 DEF WrongKey, DownloadTable, Decrypts, IsPinned
  <2>4. AuthInv'
    BY <2>1, AuthSame DEF Inv
  <2>5. StartInv'
    BY <2>1, <2>2, <2>3 DEF Inv, StartInv, StartTypes, KeyThere, KeyFits, PCs, Runs, HasTable
  <2> QED BY <2>4, <2>5 DEF Inv
<1> QED BY <1>2, <1>3

\* Whatever download_table makes of what it is answered.
LEMMA ReadTableInv == ASSUME Inv, NEW p, NEW c, ReadTable(p, c) PROVE Inv'
<1>1. AuthInv /\ StartTypes /\ KeyThere /\ KeyFits
  BY DEF Inv, StartInv
<1>2. /\ pc = "table" /\ pc' \in {"session", "root", "table"}
      /\ UNCHANGED <<authVars, starts>>
      /\ current' = (DownloadTable(p, c) \in {0, 3} \/ current)
      /\ Miss(p, c)
      /\ UNCHANGED <<files, table, opts, key, chat, mounted>>
  BY DEF ReadTable, Goto
<1>3. missed' \in BOOLEAN /\ (missed => missed')
  BY <1>1, <1>2, MissOK
<1>4. current' \in BOOLEAN
  <2>1. (DownloadTable(p, c) \in {0, 3} \/ current) \in BOOLEAN
    OBVIOUS
  <2> QED BY <1>2, <2>1, Zenon
<1>5. AuthInv'
  BY <1>1, <1>2, AuthSame
<1>6. StartInv'
  BY <1>1, <1>2, <1>3, <1>4 DEF StartInv, StartTypes, KeyThere, KeyFits, PCs, Runs, HasTable
<1> QED BY <1>5, <1>6 DEF Inv

\* The steps between the check and the end.
LEMMA MountingInv ==
  ASSUME Inv, ParseMount \/ UpdateTable \/ Unpin \/ Pin \/ Mount \/ Upload PROVE Inv'
<1>1. AuthInv /\ StartTypes /\ KeyThere /\ KeyFits
  BY DEF Inv, StartInv
<1>2. CASE ParseMount
  <2>1. CASE opts.info \/ ~opts.fits
    BY <1>2, <2>1, ExitInv DEF ParseMount
  <2>2. CASE ~(opts.info \/ ~opts.fits)
    <3>1. pc = "options" /\ pc' = "table" /\ UNCHANGED <<authVars, starts, files, table, run>>
      BY <1>2, <2>2 DEF ParseMount, Goto
    <3>2. AuthInv'
      BY <1>1, <3>1, AuthSame
    <3>3. StartInv'
      BY <1>1, <2>2, <3>1 DEF StartInv, StartTypes, KeyThere, KeyFits, PCs, Runs, HasTable, run
    <3> QED BY <3>2, <3>3 DEF Inv
  <2> QED BY <2>1, <2>2
<1>3. CASE UpdateTable
  BY <1>3, ReadTableInv DEF UpdateTable
<1>4. CASE Unpin
  <2>1. /\ pc = "root" /\ pc' = "pin" /\ table' = NoKey
        /\ UNCHANGED <<authVars, starts, files, run>>
    BY <1>4 DEF Unpin, Goto
  <2>2. AuthInv'
    BY <1>1, <2>1, AuthSame
  <2>3. StartInv'
    BY <1>1, <2>1 DEF StartInv, StartTypes, KeyThere, KeyFits, PCs, Runs, HasTable, run
  <2> QED BY <2>2, <2>3 DEF Inv
<1>5. CASE Pin
  <2>1. /\ pc = "pin" /\ pc' \in {"serve", "session"} /\ table' = key /\ current' = TRUE
        /\ UNCHANGED <<authVars, starts, files, opts, key, chat, mounted, missed>>
    BY <1>5 DEF Pin, Goto
  <2>2. AuthInv'
    BY <1>1, <2>1, AuthSame
  <2>3. StartInv'
    BY <1>1, <2>1 DEF StartInv, StartTypes, KeyThere, KeyFits, PCs, Runs, HasTable
  <2> QED BY <2>2, <2>3 DEF Inv
<1>6. CASE Mount
  <2>1. CASE Exit
    BY <1>6, <2>1, ExitInv DEF Mount
  <2>2. CASE ~Exit
    <3>1. /\ pc = "session" /\ pc' \in {"serve", "deaf"} /\ mounted' = TRUE
          /\ UNCHANGED <<authVars, starts, files, table, opts, key, chat, current, missed>>
      BY <1>6, <2>2 DEF Mount, Goto
    <3>2. AuthInv'
      BY <1>1, <3>1, AuthSame
    <3>3. StartInv'
      BY <1>1, <3>1 DEF StartInv, StartTypes, KeyThere, KeyFits, PCs, Runs, HasTable
    <3> QED BY <3>2, <3>3 DEF Inv
  <2> QED BY <2>1, <2>2
<1>7. CASE Upload
  <2>1. pc = "serve" /\ pc' = "root" /\ UNCHANGED <<authVars, starts, files, table, run>>
    BY <1>7 DEF Upload, Goto
  <2>2. AuthInv'
    BY <1>1, <2>1, AuthSame
  <2>3. StartInv'
    BY <1>1, <2>1 DEF StartInv, StartTypes, KeyThere, KeyFits, PCs, Runs, HasTable, run
  <2> QED BY <2>2, <2>3 DEF Inv
<1> QED BY <1>2, <1>3, <1>4, <1>5, <1>6, <1>7

LEMMA KeepKeyInv == ASSUME Inv, KeepKey PROVE Inv'
<1>1. /\ pc = "down" /\ files' = [files EXCEPT !.given = files.own]
      /\ UNCHANGED <<authVars, pc, starts, table, run>>
  BY DEF KeepKey
<1>2. AuthInv'
  BY <1>1, AuthSame DEF Inv
<1>3. StartInv'
  BY <1>1 DEF Inv, StartInv, StartTypes, KeyThere, KeyFits, Runs, HasTable, run
<1> QED BY <1>2, <1>3 DEF Inv

LEMMA StartStep == Inv /\ [Next]_vars => Inv'
<1> SUFFICES ASSUME Inv, [Next]_vars PROVE Inv'
  OBVIOUS
<1>1. CASE UNCHANGED vars
  <2>1. AuthInv'
    BY <1>1, AuthSame DEF Inv, vars
  <2>2. StartInv'
    BY <1>1 DEF vars, run, Inv, StartInv, StartTypes, KeyThere, KeyFits, HasTable
  <2> QED BY <2>1, <2>2 DEF Inv
<1>2. CASE Unmount \/ Kill
  BY <1>2, ExitInv DEF Unmount, Kill
<1>3. CASE Step \/ Upload
  BY <1>3, FindChatInv, MakeKeysInv, TryKeyInv, MountingInv DEF Step, CheckKey
<1>4. CASE Parse \/ LogIn \/ KeepKey
  BY <1>4, ParseInv, LogInInv, KeepKeyInv
<1>5. CASE Misses
  BY <1>5, TryKeyInv, ReadTableInv DEF Misses, CheckKeyMisses, UpdateTableMisses
<1> QED BY <1>1, <1>2, <1>3, <1>4, <1>5 DEF Next

LEMMA StartSpecInv == Spec => []Inv
BY StartInit, StartStep, PTL DEF Spec

\* Types are kept through all runs, and the program knows of TDLib what no
\* update under way tells.
THEOREM StartTypesKept == Spec => []TypeOK
<1>1. Inv => TypeOK
  BY AuthInvGives DEF Inv, StartInv, StartTypes, KeyThere, TypeOK
<1> QED BY <1>1, StartSpecInv, PTL

\* Whatever TDLib asks in between, and whatever it refuses, the program never
\* waits for it while it waits for the program.
THEOREM QuestionsAreKept == Spec => []NoLostQuestion
<1>1. Inv => NoLostQuestion
  BY AuthInvGives DEF Inv
<1> QED BY <1>1, StartSpecInv, PTL

\* A pinned table is taken down only by a run that can read it, or from which
\* an error of getChatPinnedMessage hid it.
THEOREM TableIsTakenByItsKey == Spec => TakenByItsKey
<1>1. Inv /\ [Next]_vars => [HasTable /\ table' # table => key = table \/ missed]_vars
  <2> SUFFICES ASSUME Inv, Next, HasTable, table' # table PROVE key = table \/ missed
    OBVIOUS
  <2>1. CASE Unpin
    BY <2>1 DEF Unpin, Goto, Inv, StartInv, KeyFits, Runs
  <2>2. CASE Pin
    BY <2>2 DEF Pin, Goto, Inv, StartInv, KeyFits
  <2>3. CASE ~Unpin /\ ~Pin
    BY <2>3 DEF Next, Step, Parse, LogIn, FindChat, MakeKeys, CheckKey, TryKey, ParseMount,
                UpdateTable, ReadTable, Misses, CheckKeyMisses, UpdateTableMisses, Mount,
                Upload, Unmount, Kill, KeepKey
  <2> QED BY <2>1, <2>2, <2>3
<1> QED BY <1>1, StartSpecInv, PTL DEF Spec, TakenByItsKey

\* A run that was given a key file leaves what was readable readable, unless
\* its key is in no file, wherever it is killed.
THEOREM KeysAreKept == Spec => KeyIsKept
<1> DEFINE Lost == opts.key = "none" \/ (key # NoKey /\ key \notin {files.own, files.given})
<1>1. Inv /\ [Next]_vars => [Readable /\ ~Readable' => Lost]_vars
  <2> SUFFICES ASSUME Inv, Next, Readable, ~Readable' PROVE Lost
    OBVIOUS
  <2>1. table' # NoKey /\ table' \notin {key', files'.own, files'.given}
    BY DEF Readable, HasTable
  <2>2. table # NoKey => table \in {key, files.own, files.given}
    BY DEF Readable, HasTable
  <2>3. CASE MakeKeys
    <3>1. pc = "keys" /\ table' = table /\ key = NoKey
      BY <2>3 DEF MakeKeys, Goto, Inv, StartInv, KeyThere
    <3>2. ~NewKey => files' = files
      BY <2>3 DEF MakeKeys, Load
    <3> QED BY <2>1, <2>2, <3>1, <3>2 DEF NewKey
  <2>4. CASE Pin
    BY <2>1, <2>4 DEF Pin
  <2>5. CASE Unpin
    BY <2>1, <2>5 DEF Unpin
  <2>6. CASE KeepKey
    <3>1. /\ files.given = NoKey /\ files' = [files EXCEPT !.given = files.own]
          /\ files \in [{"own", "given"} -> Key \cup {NoKey}]
          /\ table' = table /\ key' = key
      BY <2>6 DEF KeepKey, run, Inv, StartInv, StartTypes
    <3>2. files'.own = files.own
      BY <3>1
    <3> QED BY <2>1, <2>2, <3>1, <3>2
  <2>7. CASE ~MakeKeys /\ ~Pin /\ ~Unpin /\ ~KeepKey
    <3>1. files' = files /\ table' = table
      BY <2>7 DEF Next, Step, Parse, LogIn, FindChat, CheckKey, TryKey, ParseMount,
                  UpdateTable, ReadTable, Misses, CheckKeyMisses, UpdateTableMisses, Mount,
                  Upload, Unmount, Kill, run
    <3> QED BY <2>1, <2>2, <3>1
  <2> QED BY <2>3, <2>4, <2>5, <2>6, <2>7
<1> QED BY <1>1, StartSpecInv, PTL DEF Spec, KeyIsKept

-----------------------------------------------------------------------------
(* How often the program asks.  Each update under way, and a wrong request  *)
(* whose refusal no update overtakes, pays for a question yet to be asked.  *)

Live == \/ \E q \in pending : q.id = authId /\ ~q.good
        \/ \E i \in DOMAIN mail : IsRefusal(mail[i], authId) /\ \A j \in DOMAIN mail : j < i => mail[j].answer

\* Answers are to requests that were made, the latest one of the present state.
Latest == /\ \A q \in pending : q.id = authId => q.for = state
          /\ \A i \in DOMAIN mail : mail[i].answer => mail[i].id <= authId

Budget == /\ authId + Cardinality(Updates) <= told + wrong
          /\ Live => authId + Cardinality(Updates) + 1 <= told + wrong

Paid == Latest /\ Budget

\* The numbers of Budget.
LEMMA BudgetNumbers ==
  AuthTypeOK => /\ IsFiniteSet(Updates) /\ Cardinality(Updates) \in Nat
                /\ authId \in Nat /\ told \in Nat /\ wrong \in Nat
<1> SUFFICES ASSUME AuthTypeOK PROVE IsFiniteSet(Updates) /\ Cardinality(Updates) \in Nat
  BY DEF AuthTypeOK
<1>1. DOMAIN mail = 1..Len(mail) /\ Len(mail) \in Nat
  BY DEF AuthTypeOK
<1>2. IsFiniteSet(1..Len(mail)) /\ Updates \subseteq 1..Len(mail)
  BY <1>1, FS_Interval DEF Updates
<1> QED BY <1>2, FS_Subset, FS_CardinalityType

\* What is received is one update less, if it is one.
LEMMA UpdatesTaken ==
  ASSUME AuthTypeOK, mail # <<>>, mail' = Tail(mail)
  PROVE  Cardinality(Updates)' = IF Head(mail).answer THEN Cardinality(Updates)
                                                     ELSE Cardinality(Updates) - 1
<1>1. /\ Head(mail) = mail[1] /\ DOMAIN mail = 1..Len(mail) /\ Len(mail) \in Nat /\ Len(mail) > 0
      /\ DOMAIN mail' = 1..(Len(mail) - 1)
      /\ \A i \in DOMAIN mail' : mail'[i] = mail[i + 1]
  BY MailTaken
<1> DEFINE S == Updates'
           T == Updates \ {1}
           f == [i \in S |-> i + 1]
<1>2. f \in [S -> T]
  BY <1>1 DEF Updates
<1>3. \A i, j \in S : f[i] = f[j] => i = j
  BY <1>1 DEF Updates
<1>4. \A j \in T : \E i \in S : f[i] = j
  <2> TAKE j \in T
  <2>1. j - 1 \in S /\ (j - 1) + 1 = j
    BY <1>1 DEF Updates
  <2>2. f[j - 1] = (j - 1) + 1
    BY <2>1
  <2> QED BY <2>1, <2>2
<1>5. IsFiniteSet(Updates)
  BY BudgetNumbers
<1>6. Cardinality(T) = Cardinality(Updates) - (IF 1 \in Updates THEN 1 ELSE 0) /\ IsFiniteSet(T)
      /\ Cardinality(Updates) \in Nat
  <2>1. IsFiniteSet(T) /\ Cardinality(T) = IF 1 \in Updates THEN Cardinality(Updates) - 1 ELSE Cardinality(Updates)
    BY <1>5, FS_RemoveElement
  <2> QED BY <2>1, BudgetNumbers
<1>7. IsFiniteSet(S) /\ Cardinality(S) = Cardinality(T)
  <2> HIDE DEF S, T, f
  <2>1. f \in Bijection(S, T)
    BY <1>2, <1>3, <1>4 DEF Bijection, Injection, Surjection, IsInjective
  <2>2. f \in Injection(S, T) /\ f \in Surjection(S, T)
    BY <2>1 DEF Bijection
  <2> QED BY <1>6, <2>2, FS_Injection
<1>8. 1 \in Updates <=> ~Head(mail).answer
  BY <1>1 DEF Updates
<1> QED BY <1>6, <1>7, <1>8

\* News is one update more, an answer is none.
LEMMA UpdatesGrow ==
  ASSUME AuthTypeOK, NEW m \in Messages, mail' = Append(mail, m)
  PROVE  Cardinality(Updates)' = IF m.answer THEN Cardinality(Updates) ELSE Cardinality(Updates) + 1
<1>1. /\ DOMAIN mail' = 1..(Len(mail) + 1) /\ DOMAIN mail = 1..Len(mail) /\ Len(mail) \in Nat
      /\ mail'[Len(mail) + 1] = m /\ \A i \in DOMAIN mail : mail'[i] = mail[i]
  BY MailGrows
<1>2. CASE m.answer
  <2>1. Updates' = Updates
    BY <1>1, <1>2 DEF Updates
  <2> QED BY <1>2, <2>1
<1>3. CASE ~m.answer
  <2>1. Updates' = Updates \cup {Len(mail) + 1} /\ Len(mail) + 1 \notin Updates
    BY <1>1, <1>3 DEF Updates
  <2> QED BY <1>3, <2>1, BudgetNumbers, FS_AddElement
<1> QED BY <1>2, <1>3

LEMMA UpdatesGrowTwice ==
  ASSUME AuthTypeOK, NEW m \in Messages, NEW n \in Messages, mail' = mail \o <<m, n>>,
         ~m.answer, n.answer
  PROVE  Cardinality(Updates)' = Cardinality(Updates) + 1
<1>1. /\ DOMAIN mail' = 1..(Len(mail) + 2) /\ DOMAIN mail = 1..Len(mail) /\ Len(mail) \in Nat
      /\ mail'[Len(mail) + 1] = m /\ mail'[Len(mail) + 2] = n
      /\ \A i \in DOMAIN mail : mail'[i] = mail[i]
  BY MailGrowsTwice
<1>2. DOMAIN mail' = DOMAIN mail \cup {Len(mail) + 1, Len(mail) + 2}
  BY <1>1
<1>3. Updates' = Updates \cup {Len(mail) + 1} /\ Len(mail) + 1 \notin Updates
  BY <1>1, <1>2 DEF Updates
<1> QED BY <1>3, BudgetNumbers, FS_AddElement

\* A new client owes nothing.
LEMMA FreshPaid ==
  ASSUME AuthFresh PROVE Paid'
<1>1. mail' = <<Update("params")>> /\ DOMAIN mail' = {1} /\ mail'[1] = Update("params")
      /\ ~Update("params").answer
  BY UpdateOK, StatesFacts DEF AuthFresh
<1>2. Updates' = {1}
  BY <1>1 DEF Updates
<1>3. Cardinality(Updates)' = 1
  BY <1>2, FS_Singleton
<1>4. ~Live'
  BY <1>1 DEF AuthFresh, Live, IsRefusal
<1>5. Latest'
  BY <1>1 DEF AuthFresh, Latest
<1> QED BY <1>3, <1>4, <1>5 DEF Paid, Budget, AuthFresh

LEMMA InitPaid == AuthInit => Paid
<1> SUFFICES ASSUME AuthInit PROVE Paid
  OBVIOUS
<1>1. mail = <<Update("params")>> /\ DOMAIN mail = {1} /\ mail[1] = Update("params")
      /\ ~Update("params").answer
  BY UpdateOK, StatesFacts DEF AuthInit
<1>2. Updates = {1}
  BY <1>1 DEF Updates
<1>3. Cardinality(Updates) = 1
  BY <1>2, FS_Singleton
<1>4. ~Live
  BY <1>1 DEF AuthInit, Live, IsRefusal
<1>5. Latest
  BY <1>1 DEF AuthInit, Latest
<1> QED BY <1>3, <1>4, <1>5 DEF Paid, Budget, AuthInit

\* OnAuthorizationStateUpdate takes what was paid for: the question is new, so
\* that only a wrong request of its own may be refused.
LEMMA OnUpdatePaid ==
  ASSUME AuthTypeOK, Latest, NEW s \in States, OnAuthorizationStateUpdate(s),
         \A i \in DOMAIN mail' : \E j \in DOMAIN mail : mail'[i] = mail[j],
         state' = s
  PROVE  Latest' /\ wrong' >= wrong /\ (Live' => wrong' = wrong + 1)
<1>1. /\ authId \in Nat /\ wrong \in Nat /\ authId' = authId + 1 /\ authId' \in Nat
      /\ \A q \in pending : q.id \in Nat /\ q.id <= authId /\ q.id # authId'
  BY DEF AuthTypeOK, Requests, OnAuthorizationStateUpdate
<1>2. \A i \in DOMAIN mail' : mail'[i].answer => mail'[i].id <= authId' /\ mail'[i].id # authId'
  <2> TAKE i \in DOMAIN mail'
  <2> HAVE mail'[i].answer
  <2> PICK j \in DOMAIN mail : mail'[i] = mail[j]
    OBVIOUS
  <2>1. mail[j] \in Messages
    BY DEF AuthTypeOK
  <2>2. mail[j].id \in Nat
    BY <2>1 DEF Messages
  <2> QED BY <1>1, <2>2 DEF Latest
<1>3. CASE s = "params"
  <2>1. PICK good \in BOOLEAN : Send(s, authId + 1, good)
    BY <1>3 DEF OnAuthorizationStateUpdate
  <2> PICK new : new = [for |-> s, id |-> authId + 1, good |-> good]
    OBVIOUS
  <2>2. pending' = pending \cup {new} /\ new.for = s /\ new.id = authId' /\ new.good = good
        /\ wrong' = IF good THEN wrong ELSE wrong + 1
    BY <1>1, <2>1 DEF Send
  <2>3. Latest'
    BY <1>1, <1>2, <2>2 DEF Latest
  <2>4. Live' => ~good
    BY <1>1, <1>2, <2>2 DEF Live, IsRefusal
  <2> QED BY <1>1, <2>2, <2>3, <2>4
<1>4. CASE s # "params"
  <2>1. pending' = pending /\ wrong' = wrong
    BY <1>4 DEF OnAuthorizationStateUpdate
  <2>2. Latest'
    BY <1>1, <1>2, <2>1 DEF Latest
  <2>3. ~Live'
    BY <1>1, <1>2, <2>1 DEF Live, IsRefusal
  <2> QED BY <1>1, <2>1, <2>2, <2>3
<1> QED BY <1>3, <1>4

\* Messages that stay messages.
LEMMA TakenFrom ==
  ASSUME AuthTypeOK, mail # <<>>, mail' = Tail(mail)
  PROVE  \A i \in DOMAIN mail' : \E j \in DOMAIN mail : mail'[i] = mail[j]
<1>1. /\ DOMAIN mail = 1..Len(mail) /\ Len(mail) \in Nat /\ Len(mail) > 0
      /\ DOMAIN mail' = 1..(Len(mail) - 1)
      /\ \A i \in DOMAIN mail' : mail'[i] = mail[i + 1]
  BY MailTaken
<1> TAKE i \in DOMAIN mail'
<1>2. i + 1 \in DOMAIN mail
  BY <1>1
<1> QED BY <1>1, <1>2

LEMMA UpdatePaid == ASSUME AuthTypeOK, Paid, ProcessAuthUpdate PROVE Paid'
<1> PICK r : r = Head(mail)
  OBVIOUS
<1>1. /\ mail # <<>> /\ ~r.answer /\ state' = r.state /\ mail' = Tail(mail) /\ told' = told
      /\ OnAuthorizationStateUpdate(r.state) /\ authId' = authId + 1
  BY DEF ProcessAuthUpdate, OnAuthorizationStateUpdate
<1>2. r.state \in States
  BY <1>1, MailTaken DEF Messages
<1>3. Latest' /\ wrong' >= wrong /\ (Live' => wrong' = wrong + 1)
  BY <1>1, <1>2, TakenFrom, OnUpdatePaid DEF Paid
<1>4. Cardinality(Updates)' = Cardinality(Updates) - 1
  BY <1>1, UpdatesTaken
<1>5. wrong' \in Nat
  BY <1>1, <1>2, OnUpdateOK
<1>6. authId + Cardinality(Updates) <= told + wrong
  BY DEF Paid, Budget
<1>7. Budget'
  BY <1>1, <1>3, <1>4, <1>5, <1>6, BudgetNumbers DEF Budget
<1> QED BY <1>3, <1>7 DEF Paid

LEMMA AnswerPaid == ASSUME AuthTypeOK, Paid, ProcessAuthAnswer PROVE Paid'
<1> PICK r : r = Head(mail)
  OBVIOUS
<1>1. /\ mail # <<>> /\ r.answer /\ mail' = Tail(mail) /\ told' = told /\ state' = state
      /\ IF r.id = authId /\ ~r.ok
         THEN OnAuthorizationStateUpdate(state)
         ELSE UNCHANGED <<authId, authorized, typing, pending, wrong>>
  BY DEF ProcessAuthAnswer, AsksAgain
<1>2. /\ r = mail[1] /\ DOMAIN mail = 1..Len(mail) /\ Len(mail) \in Nat /\ Len(mail) > 0
      /\ DOMAIN mail' = 1..(Len(mail) - 1)
      /\ \A i \in DOMAIN mail' : mail'[i] = mail[i + 1]
  BY <1>1, MailTaken
<1>3. Cardinality(Updates)' = Cardinality(Updates)
  BY <1>1, UpdatesTaken
<1>4. CASE r.id = authId /\ ~r.ok
  <2>1. Live
    <3>1. 1 \in DOMAIN mail /\ IsRefusal(mail[1], authId) /\ \A j \in DOMAIN mail : ~(j < 1)
      BY <1>1, <1>2, <1>4 DEF IsRefusal
    <3> QED BY <3>1 DEF Live
  <2>2. OnAuthorizationStateUpdate(state) /\ authId' = authId + 1 /\ state \in States
    BY <1>1, <1>4 DEF OnAuthorizationStateUpdate, AuthTypeOK
  <2>3. Latest' /\ wrong' >= wrong /\ (Live' => wrong' = wrong + 1)
    BY <1>1, <2>2, TakenFrom, OnUpdatePaid DEF Paid
  <2>4. wrong' \in Nat
    BY <2>2, OnUpdateOK
  <2>5. authId + Cardinality(Updates) + 1 <= told + wrong
    BY <2>1 DEF Paid, Budget
  <2>6. Budget'
    BY <1>1, <1>3, <2>2, <2>3, <2>4, <2>5, BudgetNumbers DEF Budget
  <2> QED BY <2>3, <2>6 DEF Paid
<1>5. CASE ~(r.id = authId /\ ~r.ok)
  <2>1. UNCHANGED <<authId, pending, wrong>>
    BY <1>1, <1>5
  <2>2. Live' => Live
    <3> SUFFICES ASSUME NEW i \in DOMAIN mail', IsRefusal(mail'[i], authId),
                        \A j \in DOMAIN mail' : j < i => mail'[j].answer
                 PROVE  Live
      BY <2>1 DEF Live
    <3>1. i + 1 \in DOMAIN mail /\ IsRefusal(mail[i + 1], authId)
      BY <1>2
    <3>2. ASSUME NEW j \in DOMAIN mail, j < i + 1 PROVE mail[j].answer
      <4>1. CASE j = 1
        BY <1>1, <1>2, <4>1
      <4>2. CASE j # 1
        <5>1. j - 1 \in DOMAIN mail' /\ mail'[j - 1] = mail[j] /\ j - 1 < i
          BY <1>2, <3>2, <4>2
        <5> QED BY <5>1
      <4> QED BY <4>1, <4>2
    <3> QED BY <3>1, <3>2 DEF Live
  <2>3. Latest'
    BY <1>1, <2>1, TakenFrom DEF Paid, Latest
  <2>4. Budget'
    BY <1>1, <1>3, <2>1, <2>2 DEF Paid, Budget
  <2> QED BY <2>3, <2>4 DEF Paid
<1> QED BY <1>4, <1>5

\* What is typed is paid for when it is wrong.
LEMMA TypePaid == ASSUME AuthTypeOK, Paid, Type PROVE Paid'
<1>1. UNCHANGED <<state, authId, mail, told>>
  BY DEF Type
<1>2. PICK good \in BOOLEAN : Send(state, authId, good)
  BY DEF Type
<1> PICK new : new = [for |-> state, id |-> authId, good |-> good]
  OBVIOUS
<1>3. pending' = pending \cup {new} /\ new.for = state /\ new.id = authId /\ new.good = good
      /\ wrong' = IF good THEN wrong ELSE wrong + 1
  BY <1>2 DEF Send
<1>4. Latest'
  BY <1>1, <1>3 DEF Paid, Latest
<1>5. Live' => Live \/ ~good
  BY <1>1, <1>3 DEF Live, IsRefusal
<1>6. Cardinality(Updates)' = Cardinality(Updates)
  BY <1>1 DEF Updates
<1>7. Budget'
  BY <1>1, <1>3, <1>5, <1>6, BudgetNumbers DEF Paid, Budget
<1> QED BY <1>4, <1>7 DEF Paid

\* News pays for the question that it brings.
LEMMA NewsPaid ==
  ASSUME AuthTypeOK, Paid, NEW s \in States, Become(s), UNCHANGED <<state, authId, wrong>>,
         pending' \subseteq pending,
         \/ mail' = Append(mail, Update(s))
         \/ \E q \in pending : mail' = mail \o <<Update(s), Answer(q, TRUE)>>
  PROVE  Paid'
<1>1. told' = told + 1 /\ Update(s) \in Messages /\ ~Update(s).answer
  BY UpdateOK DEF Become
<1>2. /\ Cardinality(Updates)' = Cardinality(Updates) + 1
      /\ DOMAIN mail = 1..Len(mail) /\ Len(mail) \in Nat
      /\ DOMAIN mail \subseteq DOMAIN mail'
      /\ \A i \in DOMAIN mail : mail'[i] = mail[i]
      /\ \A i \in DOMAIN mail' : i \in DOMAIN mail \/ ~mail'[i].answer
                                 \/ (mail'[i].ok = TRUE /\ mail'[i].id <= authId)
  <2>1. CASE mail' = Append(mail, Update(s))
    <3>1. /\ DOMAIN mail' = 1..(Len(mail) + 1) /\ DOMAIN mail = 1..Len(mail) /\ Len(mail) \in Nat
          /\ mail'[Len(mail) + 1] = Update(s) /\ \A i \in DOMAIN mail : mail'[i] = mail[i]
      BY <1>1, <2>1, MailGrows
    <3>2. \A i \in DOMAIN mail' : i \in DOMAIN mail \/ i = Len(mail) + 1
      BY <3>1
    <3>3. Cardinality(Updates)' = Cardinality(Updates) + 1
      BY <1>1, <2>1, UpdatesGrow
    <3>4. DOMAIN mail \subseteq DOMAIN mail'
      BY <3>1
    <3> QED BY <1>1, <3>1, <3>2, <3>3, <3>4
  <2>2. CASE \E q \in pending : mail' = mail \o <<Update(s), Answer(q, TRUE)>>
    <3>1. PICK q \in pending : mail' = mail \o <<Update(s), Answer(q, TRUE)>>
      BY <2>2
    <3>2. /\ Answer(q, TRUE) \in Messages /\ Answer(q, TRUE).answer
          /\ Answer(q, TRUE).ok = TRUE /\ Answer(q, TRUE).id <= authId
      BY AnswerOK DEF AuthTypeOK
    <3>3. /\ DOMAIN mail' = 1..(Len(mail) + 2) /\ DOMAIN mail = 1..Len(mail) /\ Len(mail) \in Nat
          /\ mail'[Len(mail) + 1] = Update(s) /\ mail'[Len(mail) + 2] = Answer(q, TRUE)
          /\ \A i \in DOMAIN mail : mail'[i] = mail[i]
      BY <1>1, <3>1, <3>2, MailGrowsTwice
    <3>4. \A i \in DOMAIN mail' : i \in DOMAIN mail \/ i = Len(mail) + 1 \/ i = Len(mail) + 2
      BY <3>3
    <3>5. Cardinality(Updates)' = Cardinality(Updates) + 1
      BY <1>1, <3>1, <3>2, UpdatesGrowTwice
    <3>6. DOMAIN mail \subseteq DOMAIN mail'
      BY <3>3
    <3> QED BY <1>1, <3>2, <3>3, <3>4, <3>5, <3>6
  <2> QED BY <2>1, <2>2
<1>3. Latest'
  BY <1>2 DEF Paid, Latest
<1>4. Live' => Live
  <2>1. ASSUME NEW i \in DOMAIN mail', IsRefusal(mail'[i], authId),
               \A j \in DOMAIN mail' : j < i => mail'[j].answer
        PROVE  Live
    <3>1. i \in DOMAIN mail
      BY <1>2, <2>1 DEF IsRefusal
    <3>2. IsRefusal(mail[i], authId) /\ \A j \in DOMAIN mail : j < i => mail[j].answer
      BY <1>2, <2>1, <3>1
    <3> QED BY <3>1, <3>2 DEF Live
  <2> QED BY <2>1 DEF Live
<1>5. Budget'
  BY <1>1, <1>2, <1>4, BudgetNumbers DEF Paid, Budget
<1> QED BY <1>3, <1>5 DEF Paid

\* A refusal that no update overtakes is of a wrong request: one that was
\* right when nothing is under way fits the state of TDLib.
LEMMA RefusePaid == ASSUME AuthTypeOK, Paid, Refuse PROVE Paid'
<1>1. PICK q \in pending :
        /\ q.for # real \/ ~q.good \/ \E p \in pending : p.id > q.id
        /\ pending' = pending \ {q}
        /\ mail' = Append(mail, Answer(q, FALSE))
        /\ UNCHANGED <<state, authId, authorized, input, real, login, told, wrong>>
  BY DEF Refuse
<1>2. /\ Answer(q, FALSE) \in Messages /\ Answer(q, FALSE).answer /\ Answer(q, FALSE).id = q.id
      /\ q.id <= authId /\ \A p \in pending : p.id \in Nat /\ p.id <= authId
  BY AnswerOK DEF AuthTypeOK, Requests
<1> PICK m : m = Answer(q, FALSE)
  OBVIOUS
<1>3. /\ DOMAIN mail' = 1..(Len(mail) + 1) /\ DOMAIN mail = 1..Len(mail) /\ Len(mail) \in Nat
      /\ mail'[Len(mail) + 1] = m /\ \A i \in DOMAIN mail : mail'[i] = mail[i]
  BY <1>1, <1>2, MailGrows
<1>4. Cardinality(Updates)' = Cardinality(Updates)
  BY <1>1, <1>2, UpdatesGrow
<1>5. \A i \in DOMAIN mail' : i \in DOMAIN mail \/ i = Len(mail) + 1
  BY <1>3
<1>6. Latest'
  BY <1>1, <1>2, <1>3, <1>5 DEF Paid, Latest
<1>7. Live' => Live
  <2>1. ASSUME NEW i \in DOMAIN mail', IsRefusal(mail'[i], authId),
               \A j \in DOMAIN mail' : j < i => mail'[j].answer
        PROVE  Live
    <3>1. CASE i \in DOMAIN mail
      <4>1. IsRefusal(mail[i], authId)
        BY <1>3, <2>1, <3>1
      <4>2. \A j \in DOMAIN mail : j < i => mail[j].answer
        <5>1. \A j \in DOMAIN mail : j \in DOMAIN mail' /\ mail'[j] = mail[j]
          BY <1>3
        <5> QED BY <2>1, <5>1
      <4> QED BY <3>1, <4>1, <4>2 DEF Live
    <3>2. CASE i = Len(mail) + 1
      <4>1. q.id = authId
        BY <1>2, <1>3, <2>1, <3>2 DEF IsRefusal
      <4>2. Updates = {}
        <5>1. \A j \in DOMAIN mail : j \in DOMAIN mail' /\ mail'[j] = mail[j] /\ j < i
          BY <1>3, <3>2
        <5> QED BY <2>1, <5>1 DEF Updates
      <4>3. state = real /\ q.for = state
        BY <4>1, <4>2 DEF AuthTypeOK, Paid, Latest
      <4>4. ~\E p \in pending : p.id > q.id
        BY <1>2, <4>1 DEF AuthTypeOK
      <4>5. ~q.good
        BY <1>1, <4>3, <4>4
      <4> QED BY <4>1, <4>5 DEF Live
    <3> QED BY <1>5, <3>1, <3>2
  <2> QED BY <1>1, <2>1 DEF Live
<1>8. Budget'
  BY <1>1, <1>4, <1>7 DEF Paid, Budget
<1> QED BY <1>6, <1>8 DEF Paid

LEMMA AuthStepPaid == ASSUME AuthTypeOK, Paid, Auth PROVE Paid'
<1>1. CASE Receive
  BY <1>1, UpdatePaid, AnswerPaid DEF Receive
<1>2. CASE Type
  BY <1>2, TypePaid
<1>3. CASE Accept
  <2>1. PICK q \in pending, s \in States :
          /\ Become(s) /\ pending' = pending \ {q}
          /\ mail' = mail \o <<Update(s), Answer(q, TRUE)>>
          /\ UNCHANGED <<state, authId, authorized, input, wrong>>
    BY <1>3 DEF Accept
  <2> QED BY <2>1, NewsPaid
<1>4. CASE Refuse
  BY <1>4, RefusePaid
<1>5. CASE Nudge
  <2>1. PICK s \in {real, "phone", "loggingOut", "closing"} :
          /\ Become(s) /\ mail' = Append(mail, Update(s))
          /\ UNCHANGED <<state, authId, authorized, input, pending, wrong>>
    BY <1>5 DEF Nudge
  <2>2. s \in States
    BY StatesFacts DEF AuthTypeOK
  <2> QED BY <2>1, <2>2, NewsPaid
<1>6. CASE Close
  <2>1. /\ Become("closed") /\ mail' = Append(mail, Update("closed"))
        /\ UNCHANGED <<state, authId, authorized, input, pending, wrong>>
    BY <1>6 DEF Close
  <2> QED BY <2>1, StatesFacts, NewsPaid
<1> QED BY <1>1, <1>2, <1>3, <1>4, <1>5, <1>6 DEF Auth, Respond

LEMMA SamePaid == ASSUME Paid, UNCHANGED authVars PROVE Paid'
<1>1. UNCHANGED <<state, authId, pending, mail, told, wrong>>
  BY DEF authVars, td
<1>2. Live' <=> Live
  BY <1>1 DEF Live, IsRefusal
<1>3. Updates' = Updates
  BY <1>1 DEF Updates
<1> QED BY <1>1, <1>2, <1>3 DEF Paid, Latest, Budget

\* Every step of the program keeps the budget: it logs in, or starts a client
\* anew, or does neither.
LEMMA PaidStep == AuthTypeOK /\ Paid /\ [Next]_vars => Paid'
<1> SUFFICES ASSUME AuthTypeOK, Paid, [Next]_vars PROVE Paid'
  OBVIOUS
<1>1. CASE UNCHANGED authVars
  BY <1>1, SamePaid
<1>2. CASE AuthFresh
  BY <1>2, FreshPaid
<1>3. CASE Auth
  BY <1>3, AuthStepPaid
<1>4. CASE FindChat \/ Unmount \/ Kill
  BY <1>2, <1>4 DEF FindChat, Unmount, Kill, Exit
<1>5. CASE CheckKey \/ CheckKeyMisses \/ ParseMount \/ Mount
  BY <1>1, <1>2, <1>5 DEF CheckKey, CheckKeyMisses, TryKey, ParseMount, Mount, Exit, Goto
<1>6. CASE Parse \/ MakeKeys \/ Unpin \/ Pin \/ Upload \/ KeepKey \/ UNCHANGED vars
  <2>1. UNCHANGED authVars
    BY <1>6, Zenon DEF Parse, MakeKeys, Unpin, Pin, Upload, KeepKey, Goto, vars
  <2> QED BY <1>1, <2>1
<1>7. CASE LogIn
  BY <1>3, <1>7 DEF LogIn, AuthNext
<1>8. CASE UpdateTable \/ UpdateTableMisses
  <2>1. PICK p, c : ReadTable(p, c)
    BY <1>8, Zenon DEF UpdateTable, UpdateTableMisses
  <2>2. UNCHANGED authVars
    BY <2>1 DEF ReadTable, Goto
  <2> QED BY <1>1, <2>2
<1> QED BY <1>4, <1>5, <1>6, <1>7, <1>8 DEF Next, Step, Misses

\* However long the log-in lasts, and whatever TDLib refuses because it has
\* moved on, the program asks no more often than there were updates and wrong
\* requests.
THEOREM AsksAreBounded == Spec => []AsksBounded
<1>1. Init => Inv /\ Paid
  BY StartInit, InitPaid DEF Init
<1>2. Inv /\ Paid /\ [Next]_vars => (Inv /\ Paid)'
  BY StartStep, PaidStep DEF Inv, AuthInv
<1>3. Inv /\ Paid => AsksBounded
  <2> SUFFICES ASSUME AuthTypeOK, Paid PROVE AsksBounded
    BY DEF Inv, AuthInv
  <2> QED BY BudgetNumbers DEF Paid, Budget, AsksBounded
<1> QED BY <1>1, <1>2, <1>3, PTL DEF Spec
=============================================================================
