------------------------------- MODULE TgStart -------------------------------
(***************************************************************************)
(* The program from main to the FUSE loop, and its keys: several runs, one *)
(* after the other, on one machine with one cache directory.  A run parses *)
(* its options, logs in (TdAuth), makes or loads a key, tries it on the    *)
(* pinned table, and mounts.  It may be killed at any time; its key then   *)
(* lives on only in a file.                                                *)
(*                                                                         *)
(* Of the chat only the key of the pinned table is kept; TgfsStore has the *)
(* rest.  Decryption authenticates: it fails with any other key.           *)
(* getChatPinnedMessage may be answered with an error where the key is     *)
(* tried and where the table is read; the other requests of a run succeed. *)
(***************************************************************************)
EXTENDS TdAuth

CONSTANTS NoKey,     \* no key, or a key file of the wrong size
          MaxStarts  \* bound: how many runs

VARIABLES pc,      \* where main is, "down" between runs
          opts,    \* the options of this run
          starts,  \* how many runs there were
          files,   \* the key files: cache_dir/tgcloud.key ("own"), and one
                   \* that the user keeps elsewhere ("given")
          key,     \* key and iv of the run
          chat,    \* the chat was found
          table,   \* the key of the pinned table, NoKey if none is pinned
          current, \* current_table_id_ is the id of the pinned message
          mounted, \* the FUSE loop runs
          missed   \* history: an error was taken for a chat without a table

run == <<opts, key, chat, current, mounted, missed>>
vars == <<authVars, pc, starts, files, table, run>>

PCs == {"down", "auth", "keys", "check", "options", "table", "root", "pin", "session", "serve", "deaf"}

\* Uninitialised memory may be all zeroes in several runs.
Blank == 0

ASSUME StartAssumption == MaxStarts \in Nat /\ NoKey \notin 0..MaxStarts

\* A key drawn at random is new: that of run n is n.
Key == 0..MaxStarts

\* info: help or a version is asked for; whole: --cache_dir, -api_id and
\* -api_hash are there; key: the file that --key names; fits: the mount point
\* and the FUSE options are good.
Options == [info : BOOLEAN, whole : BOOLEAN, key : {"none", "own", "given"},
            fits : BOOLEAN, foreground : BOOLEAN]
NoOptions == [info |-> FALSE, whole |-> FALSE, key |-> "none", fits |-> FALSE, foreground |-> FALSE]

HasTable == table # NoKey

Init ==
    /\ AuthInit
    /\ pc = "down" /\ starts = 0 /\ opts = NoOptions
    /\ files = [own |-> NoKey, given |-> NoKey]
    /\ key = NoKey /\ chat = FALSE
    /\ table = NoKey /\ current = FALSE /\ mounted = FALSE /\ missed = FALSE

\* What the process held goes with it.
Exit ==
    /\ pc' = "down"
    /\ opts' = NoOptions /\ key' = NoKey /\ chat' = FALSE /\ current' = FALSE /\ mounted' = FALSE
    /\ missed' = FALSE
    /\ AuthFresh /\ UNCHANGED <<login, starts>>

\* One step of main.
Goto(from, to) == pc = from /\ pc' = to /\ UNCHANGED <<authVars, starts>>

-----------------------------------------------------------------------------
(* Options and log-in.                                                     *)

\* Parser::parse, which exits without the three options whatever else is
\* asked; and create_td_client, which logs in unless it has to inform.
Parse == \E o \in Options :
    /\ pc = "down" /\ starts < MaxStarts
    /\ starts' = starts + 1
    /\ IF o.whole
       THEN opts' = o /\ pc' = IF o.info THEN "options" ELSE "auth"
       ELSE UNCHANGED <<opts, pc>>
    /\ UNCHANGED <<authVars, files, table, key, chat, current, mounted, missed>>

LogIn == pc = "auth" /\ AuthNext /\ UNCHANGED <<pc, starts, files, table, run>>

\* SetMainChatId.  Nobody but Start looks at what is left of the dialogue.
FindChat ==
    /\ pc = "auth" /\ authorized
    /\ pc' = "keys"
    /\ chat' \in BOOLEAN
    /\ AuthFresh
    /\ UNCHANGED <<login, starts, files, table, opts, key, current, mounted, missed>>

-----------------------------------------------------------------------------
(* The key.                                                                *)

\* Mutant: a key file that is named is written, too.
NewKeyAlways == TRUE

\* Parser::get_key_path.
NewKey == opts.key = "none"
KeyPath == IF opts.key = "given" THEN "given" ELSE "own"

\* GenerateKeys and LoadIntoFile, which may fail to open or to fill the file.
Generate ==
    /\ key' = starts
    /\ \E k \in {starts, files[KeyPath], NoKey} : files' = [files EXCEPT ![KeyPath] = k]

\* LoadFromFile; when it fails the key is what the memory holds.
Load ==
    /\ key' \in IF files[KeyPath] # NoKey THEN {files[KeyPath]} ELSE {starts, Blank}
    /\ UNCHANGED files

MakeKeys ==
    /\ IF NewKey THEN Generate ELSE Load
    /\ Goto("keys", "check")
    /\ UNCHANGED <<table, opts, chat, current, mounted, missed>>

\* The tag of the pinned table fits the key.
Decrypts == key = table

\* GetLastPinnedMessage finds the table or nothing: without a chat nothing is
\* pinned, and an error is taken for that.  download_table asks twice, itself
\* and in is_up_to_date_table.
IsPinned == chat /\ HasTable
IsCurrent == IsPinned /\ current
Miss(pinned, upToDate) ==
    missed' = (missed \/ pinned # IsPinned \/ upToDate # IsCurrent)

\* Mutant: a table that cannot be decrypted counts as none.
DownloadTableLoose(pinned, upToDate) ==
    IF upToDate THEN 1 ELSE IF pinned /\ Decrypts THEN 0 ELSE 2

\* What download_table returns.
DownloadTable(pinned, upToDate) ==
    IF upToDate THEN 1 ELSE IF ~pinned THEN 2 ELSE IF Decrypts THEN 0 ELSE 3

\* Mutant: the key is not tried.
WrongKeyNot(pinned) == FALSE

\* The constructor of td_client_api.  (Uninitialised, current_table_id_ is
\* taken not to be the id of a message.)
WrongKey(pinned) == DownloadTable(pinned, FALSE) = 3

TryKey(pinned) ==
    /\ pc = "check"
    /\ IF WrongKey(pinned)
       THEN Exit
       ELSE /\ Goto("check", "options")
            /\ current' = FALSE
            /\ Miss(pinned, IsCurrent)
            /\ UNCHANGED <<opts, key, chat, mounted>>
    /\ UNCHANGED <<files, table>>

CheckKey == TryKey(IsPinned)
CheckKeyMisses == IsPinned /\ TryKey(FALSE)

-----------------------------------------------------------------------------
(* make_new_tgfs.                                                          *)

\* A mistake is the end, and so is a request for information: libfuse gives it,
\* or (-v and -hv) goes on to mount, and there is no api.
ParseMount ==
    /\ pc = "options"
    /\ IF opts.info \/ ~opts.fits
       THEN Exit
       ELSE Goto("options", "table") /\ UNCHANGED run
    /\ UNCHANGED <<files, table>>

\* update_table in the constructor of tgfs_data: again until 0 or 2, and a
\* table that was found is the current one whether it could be read or not.
ReadTable(pinned, upToDate) ==
    LET res == DownloadTable(pinned, upToDate) IN
        /\ Goto("table", CASE res = 0 -> "session" [] res = 2 -> "root" [] OTHER -> "table")
        /\ current' = (res \in {0, 3} \/ current)
        /\ Miss(pinned, upToDate)
        /\ UNCHANGED <<files, table, opts, key, chat, mounted>>

UpdateTable == ReadTable(IsPinned, IsCurrent)
UpdateTableMisses ==
    IsPinned /\ \/ ReadTable(FALSE, IsCurrent) \/ ReadTable(FALSE, FALSE)
                \/ IsCurrent /\ ReadTable(TRUE, FALSE)

\* Uploads: of the root, and later of any inode.  SendFile needs the chat.
Unpin ==
    /\ chat
    /\ Goto("root", "pin")
    /\ table' = NoKey
    /\ UNCHANGED <<files, run>>

Pin ==
    /\ Goto("pin", IF mounted THEN "serve" ELSE "session")
    /\ table' = key
    /\ current' = TRUE
    /\ UNCHANGED <<files, opts, key, chat, mounted, missed>>

\* The session may not start.  In the background there is a forked process,
\* without the threads of TDLib: it gets no answer.
Mount ==
    /\ pc = "session"
    /\ \/ Exit
       \/ /\ Goto("session", IF opts.foreground THEN "serve" ELSE "deaf")
          /\ mounted' = TRUE
          /\ UNCHANGED <<opts, key, chat, current, missed>>
    /\ UNCHANGED <<files, table>>

Upload == Goto("serve", "root") /\ UNCHANGED <<files, table, run>>

Unmount == pc \in {"serve", "deaf"} /\ Exit /\ UNCHANGED <<files, table>>

Kill == pc # "down" /\ Exit /\ UNCHANGED <<files, table>>

\* Between runs the user puts a copy of the key elsewhere, once.
KeepKey ==
    /\ pc = "down" /\ files.given = NoKey
    /\ files' = [files EXCEPT !.given = files.own]
    /\ UNCHANGED <<authVars, pc, starts, table, run>>

-----------------------------------------------------------------------------
Step == FindChat \/ MakeKeys \/ CheckKey \/ ParseMount \/ UpdateTable \/ Unpin \/ Pin \/ Mount

\* getChatPinnedMessage is answered with an error.
Misses == CheckKeyMisses \/ UpdateTableMisses

Next == Parse \/ LogIn \/ Step \/ Misses \/ Upload \/ Unmount \/ Kill \/ KeepKey

Spec == Init /\ [][Next]_vars

\* The program runs, TDLib answers, and the user types when asked.
FairSpec ==
    /\ Spec
    /\ WF_vars(Step)
    /\ WF_vars(LogIn /\ Receive) /\ WF_vars(LogIn /\ Type)
    /\ WF_vars(LogIn /\ Respond) /\ WF_vars(LogIn /\ Close)

-----------------------------------------------------------------------------
(* Properties.                                                             *)

\* Every variable keeps its type; after the check the key is that of the table.
TypeOK ==
    /\ AuthTypeOK
    /\ pc \in PCs /\ starts \in 0..MaxStarts
    /\ opts \in Options
    /\ files \in [{"own", "given"} -> Key \cup {NoKey}]
    /\ key \in Key \cup {NoKey} /\ table \in Key \cup {NoKey}
    /\ chat \in BOOLEAN /\ current \in BOOLEAN /\ mounted \in BOOLEAN /\ missed \in BOOLEAN
    /\ pc \in {"table", "root", "pin", "session", "serve"} => key # NoKey

\* Only a run that can decrypt the pinned table takes it down, through all
\* runs with wrong, lost and unreadable keys, but for the runs in which an
\* error of getChatPinnedMessage hid the table.
TakenByItsKey == [][HasTable /\ table' # table => key = table \/ missed]_vars

\* Somebody can read what is pinned.
Readable == HasTable => table \in {key, files.own, files.given}

\* What could be read can be read no more only through a run without --key,
\* which overwrites the key file, or the end of a run whose key is in no file.
KeyIsKept ==
    [][Readable /\ ~Readable' =>
          opts.key = "none" \/ (key # NoKey /\ key \notin {files.own, files.given})]_vars

\* A run ends or mounts: the wait for the log-in and the loop of update_table
\* come to an end, unless TDLib is closed, the chat was not found, or an error
\* of getChatPinnedMessage hid the table from the check of a wrong key.
StartEnds ==
    pc \notin {"down", "serve", "deaf"} ~>
        \/ pc \in {"down", "serve", "deaf"}
        \/ pc = "auth" /\ real = "closed"
        \/ pc = "root" /\ ~chat
        \/ pc = "table" /\ missed /\ ~Decrypts
=============================================================================
