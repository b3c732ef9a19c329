------------------------------- MODULE TdAuth -------------------------------
(***************************************************************************)
(* Authorization: TdClass::Start receives until TDLib has told it that the *)
(* user is logged in.  Each update of the authorization state that needs   *)
(* something of the user is answered, from the terminal, by a request; an  *)
(* error that answers the latest request makes the handler ask again.      *)
(*                                                                         *)
(* TDLib is external.  It tells a change of its state before the answer    *)
(* to the request that caused it, and refuses a request that does not fit  *)
(* its state or that is overtaken by another one.  It may change its state *)
(* by itself, also while the user types.                                   *)
(***************************************************************************)
EXTENDS Naturals, Sequences, FiniteSets

CONSTANTS MaxTold,  \* bound: TDLib tells nothing of its own accord after so
                    \* many updates
          MaxWrong  \* bound: requests that TDLib has a reason to refuse, other
                    \* than empty passwords

VARIABLES state,       \* authorization_state_
          authId,      \* authentication_query_id_
          authorized,  \* are_authorized_
          typing,      \* the handler of the state waits for the user
          newline,     \* the end of a line read with >> is still in cin
          pending,     \* TDLib: the requests under way
          mail,        \* TDLib: what receive returns next
          real,        \* TDLib: its state
          login,       \* TDLib: the state that its database keeps
          told,        \* TDLib: how many updates it has sent
          wrong        \* how many requests had a reason to be refused

input == <<typing, newline>>
td == <<pending, mail, real, login, told>>
authVars == <<state, authId, authorized, input, td, wrong>>

\* What is read with >>, and what with getline.
Words == {"phone", "email", "emailCode", "code", "registration"}
Asking == Words \cup {"password"}
Ending == {"loggingOut", "closing", "closed"}
States == Asking \cup Ending \cup {"none", "params", "ready"}

ASSUME AuthAssumption == MaxTold \in Nat /\ MaxWrong \in Nat

Update(s) == [answer |-> FALSE, state |-> s, id |-> 0, ok |-> TRUE]
Answer(q, ok) == [answer |-> TRUE, state |-> q.for, id |-> q.id, ok |-> ok]
Updates == {i \in DOMAIN mail : ~mail[i].answer}

\* A new client: TDLib tells that it waits for its parameters.
AuthFresh ==
    /\ state' = "none" /\ authId' = 0 /\ authorized' = FALSE
    /\ typing' = FALSE /\ newline' = FALSE
    /\ pending' = {} /\ mail' = <<Update("params")>>
    /\ real' = "params" /\ told' = 1 /\ wrong' = 0

AuthInit ==
    /\ state = "none" /\ authId = 0 /\ authorized = FALSE
    /\ typing = FALSE /\ newline = FALSE
    /\ pending = {} /\ mail = <<Update("params")>>
    /\ real = "params" /\ login = "phone" /\ told = 1 /\ wrong = 0

-----------------------------------------------------------------------------
(* The handlers.                                                           *)

\* The handler of a request has the id of the state that it answers; TDLib
\* gets good set-up parameters, or may refuse them.
Send(s, id, good) ==
    /\ pending' = pending \cup {[for |-> s, id |-> id, good |-> good]}
    /\ wrong' = IF good THEN wrong ELSE wrong + 1

MayBeWrong(good) == good \/ wrong < MaxWrong

\* Mutant: the id is counted after the handler has taken it.
OnAuthorizationStateUpdateLate(s) ==
    /\ authId' = authId + 1
    /\ authorized' = (s = "ready" \/ (authorized /\ s \notin {"loggingOut", "closed"}))
    /\ typing' = (s \in Asking)
    /\ IF s = "params"
       THEN \E good \in BOOLEAN : MayBeWrong(good) /\ Send(s, authId, good)
       ELSE UNCHANGED <<pending, wrong>>

OnAuthorizationStateUpdate(s) ==
    /\ authId' = authId + 1
    /\ authorized' = (s = "ready" \/ (authorized /\ s \notin {"loggingOut", "closed"}))
    /\ typing' = (s \in Asking)
    /\ IF s = "params"
       THEN \E good \in BOOLEAN : MayBeWrong(good) /\ Send(s, authId + 1, good)
       ELSE UNCHANGED <<pending, wrong>>

\* Mutant: the state is not kept.
ProcessAuthUpdateLost ==
    /\ mail # <<>> /\ ~typing
    /\ ~Head(mail).answer
    /\ mail' = Tail(mail)
    /\ OnAuthorizationStateUpdate(Head(mail).state)
    /\ UNCHANGED <<state, newline, real, login, told>>

ProcessAuthUpdate ==
    LET r == Head(mail) IN
    /\ mail # <<>> /\ ~typing
    /\ ~r.answer
    /\ state' = r.state
    /\ mail' = Tail(mail)
    /\ OnAuthorizationStateUpdate(r.state)
    /\ UNCHANGED <<newline, real, login, told>>

\* Mutant: the handler does not look at the id it was made with.
AsksAgainAlways(r) == ~r.ok

\* CreateAuthenticationQueryHandler and CheckAuthenticationError.
AsksAgain(r) == r.id = authId /\ ~r.ok

ProcessAuthAnswer ==
    LET r == Head(mail) IN
    /\ mail # <<>> /\ ~typing
    /\ r.answer
    /\ mail' = Tail(mail)
    /\ IF AsksAgain(r)
       THEN OnAuthorizationStateUpdate(state)
       ELSE UNCHANGED <<authId, authorized, typing, pending, wrong>>
    /\ UNCHANGED <<state, newline, real, login, told>>

\* The user answers.  getline takes the rest of the line of an earlier >>,
\* which is an empty password.
Type == \E good \in BOOLEAN :
    LET empty == state = "password" /\ newline IN
    /\ typing
    /\ IF empty THEN ~good ELSE MayBeWrong(good)
    /\ Send(state, authId, good)
    /\ typing' = FALSE
    /\ newline' = (state \in Words)
    /\ UNCHANGED <<state, authId, authorized, mail, real, login, told>>

-----------------------------------------------------------------------------
(* TDLib.                                                                  *)

\* What may follow when a request is accepted.
After(s) ==
    CASE s = "params" -> {login}
      [] s = "phone" -> {"email", "emailCode", "code"}
      [] s = "email" -> {"emailCode"}
      [] s \in {"emailCode", "code"} -> {"registration", "password", "ready"}
      [] OTHER -> {"ready"}

\* The state is kept over restarts, but for the end of the client; after
\* logging out there is a new log-in.
Become(s) ==
    /\ real' = s
    /\ login' = IF s = "loggingOut" THEN "phone" ELSE IF s \in Ending THEN login ELSE s
    /\ told' = told + 1

Accept == \E q \in pending, s \in States :
    /\ q.good /\ q.for = real
    /\ s \in After(real)
    /\ Become(s)
    /\ pending' = pending \ {q}
    /\ mail' = mail \o <<Update(s), Answer(q, TRUE)>>
    /\ UNCHANGED <<state, authId, authorized, input, wrong>>

Refuse == \E q \in pending :
    /\ q.for # real \/ ~q.good \/ \E p \in pending : p.id > q.id
    /\ pending' = pending \ {q}
    /\ mail' = Append(mail, Answer(q, FALSE))
    /\ UNCHANGED <<state, authId, authorized, input, real, login, told, wrong>>

\* TDLib asks once more, or from the beginning, or closes.
Nudge == \E s \in {real, "phone", "loggingOut", "closing"} :
    /\ told < MaxTold
    /\ real \in Asking
    /\ Become(s)
    /\ mail' = Append(mail, Update(s))
    /\ UNCHANGED <<state, authId, authorized, input, pending, wrong>>

Close ==
    /\ real \in {"loggingOut", "closing"}
    /\ Become("closed")
    /\ mail' = Append(mail, Update("closed"))
    /\ UNCHANGED <<state, authId, authorized, input, pending, wrong>>

-----------------------------------------------------------------------------
Receive == ProcessAuthUpdate \/ ProcessAuthAnswer
Respond == Accept \/ Refuse

\* Start, and TDLib while it runs.
Auth == Receive \/ Type \/ Respond \/ Nudge \/ Close

AuthNext == ~authorized /\ Auth

AuthSpec == AuthInit /\ [][AuthNext]_authVars

-----------------------------------------------------------------------------
(* Properties.                                                             *)

Requests == [for : States, id : Nat, good : BOOLEAN]
Messages == [answer : BOOLEAN, state : States, id : Nat, ok : BOOLEAN]

\* Every variable keeps its type; the program believes what TDLib is about, or
\* the news is under way; the ids of requests are not ahead of the program's.
AuthTypeOK ==
    /\ state \in States /\ real \in States /\ login \in States
    /\ authorized \in BOOLEAN /\ typing \in BOOLEAN /\ newline \in BOOLEAN
    /\ authId \in Nat /\ told \in Nat /\ wrong \in Nat
    /\ pending \subseteq Requests /\ mail \in Seq(Messages)
    /\ typing => state \in Asking
    /\ Updates = {} => state = real
    /\ \A q \in pending : q.id <= authId

\* No question is lost: when nothing is under way and nobody types, TDLib does
\* not wait for the program, whose receive would return nothing for ever.
NoLostQuestion ==
    ~typing /\ mail = <<>> /\ pending = {} => real \notin Asking \cup {"params"}

\* The program asks no more than once for each update, and once more for each
\* request that was wrong: what is refused because TDLib has moved on, or was
\* asked again, brings no question.
AsksBounded == authId <= told + wrong
=============================================================================
