----------------------------- MODULE CallService -----------------------------
(***************************************************************************)
(* What TdClass promises to the threads that call it: every call is served *)
(* once, at one moment between its beginning and its return, and returns   *)
(* with its own outcome, however many threads call.                        *)
(*                                                                         *)
(* A message goes into the chat some time after its call was served;       *)
(* SendFile returns when it is there.  A call that was refused may be      *)
(* lost: then it never returns.  From the moment that the service breaks   *)
(* nothing is promised.                                                    *)
(***************************************************************************)
EXTENDS Naturals

CONSTANTS Callers,
          Files, NoFile

VARIABLES calls,   \* caller -> its call: where it is, what it asked and got
          here,    \* files that are on this disk
          last,    \* the number of messages accepted so far
          chat,    \* messages that are in the chat
          broken

serviceVars == <<calls, here, last, chat, broken>>

NoCall == [stage |-> "out", kind |-> "get", file |-> NoFile, msg |-> 0]

Init == /\ calls = [c \in Callers |-> NoCall]
        /\ here = {}
        /\ last = 0
        /\ chat = {}
        /\ broken = FALSE

Invoke(c, kind, file) ==
    /\ calls[c].stage = "out"
    /\ calls' = [calls EXCEPT ![c] = [stage |-> "asked", kind |-> kind, file |-> file, msg |-> 0]]
    /\ UNCHANGED <<here, last, chat>>

Asks(c, kind) == calls[c].stage = "asked" /\ calls[c].kind = kind

Serve(c, file, msg) ==
    calls' = [calls EXCEPT ![c] = [stage |-> "served", kind |-> @.kind, file |-> file, msg |-> msg]]

Get(c) == /\ Asks(c, "get")
          /\ Serve(c, calls[c].file, 0)
          /\ UNCHANGED <<here, last, chat>>

Download(c) == /\ Asks(c, "download")
               /\ Serve(c, calls[c].file, 0)
               /\ here' = here \cup {calls[c].file}
               /\ UNCHANGED <<last, chat>>

Delete(c) == /\ Asks(c, "delete")
             /\ Serve(c, calls[c].file, 0)
             /\ here' = here \ {calls[c].file}
             /\ UNCHANGED <<last, chat>>

Send(c, file) == /\ Asks(c, "send")
                 /\ Serve(c, file, last + 1)
                 /\ last' = last + 1
                 /\ UNCHANGED <<here, chat>>

\* Nothing happens: get and delete do not tell their caller, the others never
\* return.
Refuse(c) == /\ \/ (Asks(c, "get") \/ Asks(c, "delete")) /\ Serve(c, calls[c].file, 0)
                \/ /\ Asks(c, "download") \/ Asks(c, "send")
                   /\ calls' = [calls EXCEPT ![c].stage = "lost"]
             /\ UNCHANGED <<here, last, chat>>

Post(m) == /\ chat' = chat \cup {m}
           /\ UNCHANGED <<calls, here, last>>

Return(c) == /\ calls[c].stage = "served"
             /\ calls[c].kind = "send" => calls[c].msg \in chat
             /\ calls' = [calls EXCEPT ![c].stage = "out"]
             /\ UNCHANGED <<here, last, chat>>

Work == \/ \E c \in Callers :
              \/ \E k \in {"get", "download", "delete", "send"}, f \in Files \cup {NoFile} : Invoke(c, k, f)
              \/ Get(c) \/ Download(c) \/ Delete(c) \/ (\E f \in Files : Send(c, f))
              \/ Refuse(c) \/ Return(c)
        \/ \E m \in 1..last : Post(m)

Next == broken' = TRUE \/ (UNCHANGED broken /\ Work)

Spec == Init /\ [][Next]_serviceVars
=============================================================================
