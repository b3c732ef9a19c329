# Verification of tg_cloud

tg_cloud mounts a Telegram chat as a file system.  This directory models its
core in TLA+, checks the models with TLC and proves theorems about them with
TLAPS.

## Inventory

| Component | Sources | State | Operations | Interacts through |
|---|---|---|---|---|
| Inode store | `tgfs/tgfs_data.*`, `tgfs/tgfs_inode.*`, `tgfs/tgfs_helpers.h` | `messages_` (table inode → message), `inodes_` (cached objects), `last_ino_`; per object `version`, `need_datasync_`, `attr` with `data_msg_` mapped from `<ino>/inode`, and `<ino>/data_0` | `update_table`, `lookup_msg`, `lookup_inode`, `update`, `upload`, `remove`, `new_ino`, the constructor | calls of `tgfs_net_api` |
| Chat API | `tgcl/tgfs_api.*`, interface `tgfs/tgfs.h` | `current_table_id_` | `is_up_to_date_table`, `download_table`, `upload_table`, `upload`, `download`, `remove` | calls of `TdClass` |
| Chat | Telegram | messages, pins | send, delete, pin, newest pin | shared by all mounts |
| Telegram client | `tgcl/tdclient.*` | `handlers_`, `current_query_id_`, `completed_uploads_`, `completed_downloads_`, `sent_message_`, the global `mtx` | one blocking method per request, `ProcessResponse`, `ProcessUpdate` | TDLib's queue of answers and updates, callbacks |
| FUSE handlers | `tgfs/tgfs_ops.cpp`, `tgfs/tgfs_dir.*` | `nlookup`, `st_nlink`, directory entries, open handles (`tgfs_fh`) | one handler per kernel request | calls of the inode store |
| SQLite tables | `tgfs/tgfs_table*` | a table key → value in a file | `at`, `contains`, `set`, `remove`, `max_key`, `sync` | file shared with the chat API |
| Authorization | `tgcl/tdclient.*` (`Start`, `OnAuthorizationStateUpdate` and its handlers) | `authorization_state_`, `authentication_query_id_`, `are_authorized_`; the rest of a line in `cin` | one question and request per state, asked again after an error | TDLib's updates and answers, the terminal |
| Start-up, options | `main.cpp`, `parser/*`, `tgfs/tgfs_main.cpp`, `create_td_client` | options | parse, log in, make or load keys, check the key, mount, loop of threads | constructs everything |
| Encryption, keys | `encryption/*` | key, key file | encrypt, decrypt, generate, load, save | called by the chat API |

What is hard here:

* **Crashes.** A change is published in up to seven requests to the chat
  (data, removal of the old data, inode, table, removal of the old table, pin,
  removal of the old inode).  The process can die between any two.
* **Several mounts.** Nothing stops two clients from sharing a chat.  They
  pin and delete each other's messages, and each carries message ids from one
  request to the next.
* **Threads.** The FUSE loop is multi-threaded unless `-s` is given;
  `tgfs_data` has no lock, `TdClass` has one that it does not hold everywhere.
* **Order.** Answers and updates of TDLib come in one queue and complete
  waits of several threads; directory entries and link counts are published
  in two uploads.
* **Ends.** `update_table` loops until the chat says the right thing;
  the waits of `TdClass` loop until an answer clears a flag.

What makes each part correct:

* store and chat API: the pinned table leads to inodes that exist; nothing is
  leaked; a flush that returned is durable; a message is never read as another
  kind; the cached table is believed only when it is the pinned one;
  operations end;
* FUSE handlers: link counts agree with directory entries, no entry leads to
  a removed inode, what the kernel still knows is not removed;
* Telegram client: every call returns its own answer, whichever thread
  receives it; errors do not leave the lock held;
* directories: a listing shows every entry once although names come and go
  between its pieces; a directory counts as empty exactly when it has no name;
* authorization: the user is asked what TDLib waits for, no more and no less;
* start-up: only a run that can read the pinned table replaces it; no key is lost
  that reads it, unless the user asked for a new one; every run mounts or ends.

## Modules

| Module | What it is |
|---|---|
| `TgChat` | the chat (external): numbered messages and pins |
| `TgfsStore` | the inode store and the chat API, for any number of mounts |
| `InodeStore` | what the store promises: a map from inodes to contents, which one operation at a time changes in one place; what a process that dies while the store is exposed costs |
| `TgfsStoreView` | the refinement mapping from `TgfsStore` with one mount to `InodeStore` |
| `MCTgfsStore`, `MCTgfsStoreView` | constants and symmetry for TLC |
| `TgfsStoreProofs` | TLAPS proofs about `TgfsStore` |
| `TgfsMountProofs` | TLAPS proofs about `TgfsStore` with one mount at a time, killed anywhere |
| `TgfsChatProofs` | the same: it implements `InodeStore`; where it is killed only between operations, every message is accounted for |
| `TgfsOps` | the handlers that change names, for one mount, over a store whose uploads are single steps |
| `FileTree` | what these handlers promise: names change at once, files live as long as names and references |
| `TgfsOpsView` | the refinement mapping from `TgfsOps` to `FileTree` |
| `MCTgfsOps` | kill points and symmetry for TLC |
| `TgfsOpsProofs` | TLAPS proofs about `TgfsOps`: its invariants, and that it implements `FileTree` |
| `TdClient` | `TdClass`: threads that send queries and receive answers, with TDLib as their environment |
| `MCTdClient` | which files and failures TLC takes |
| `CallService` | what `TdClass` promises: every call is served once, between its beginning and its return, with its own outcome |
| `TdClientView` | the refinement mapping from `TdClient` to `CallService` |
| `TdClientProofs` | TLAPS proofs about `TdClient`: its invariants, and that it implements `CallService` |
| `TgfsDir` | one directory: its SQLite table and a listing in pieces |
| `MCTgfsDir` | symmetry for TLC |
| `TgfsDirProofs` | TLAPS proofs about `TgfsDir` |
| `TdAuth` | authorization: `TdClass::Start` with the user and TDLib as its environment |
| `TgStart` | the program from `main` to the FUSE loop over several runs, with its keys; extends `TdAuth` |
| `TgStartProofs` | TLAPS proofs about `TdAuth` and `TgStart` |
| `TgfsThreads` | the table of one mount in several threads |
| `NatSetLemmas` | greatest and least members of finite sets of numbers, for the proofs of the store and the handlers |

`TgfsOps` does not instantiate `TgfsStore`: it takes from it that an upload of a
mount that is alone ends in the pinned table with the new inode, or in the old
one (`ImplementsInodeStore`).  What breaks this is not in `TgfsOps`: a kill between the
removal of the pinned table and the next pin (`store_window`), one in `upload_data`
(`TornFilesBounded`), and requests that fail.

`TgfsThreads` is `TgfsStore` taken another way: there several mounts, each with one
thread, here one mount with several threads that share `messages_`.  `TgfsOps` has a
directory as a function from names to inodes, which `TgfsDir` shows with its rows.
`TgStart` extends `TdAuth`, whose steps are those of its run while it logs in; of the
store it keeps which key the pinned table was encrypted with.

`TdClient` does not instantiate the others either: they take a request to the chat
for one step, which is what `CallService` makes of a call of `TdClass`, and what `TdClient`
implements until threads meet in `SendQuery` (`ImplementsCallService`); the models of one
mount with one thread never come to that.

### TgfsStore

State.  `table`, `cur`, `lastIno`, `inodes` are `messages_`,
`current_table_id_`, `last_ino_` and the keys of `inodes_`.  `local[m][i]` is
the object of inode `i` and its two files: `version` and `dirty`
(`need_datasync_`) die with the process, `full` (`st_size != 0`), `data`
(`data_msg_`) and `bytes` (`data_0`) stay on disk.  `frame[m]` is the stack of
the operation a mount is in: where it is (`pc`), where `update_table` returns
(`ret`), and the local variables that outlive a request (`ino`, `old` = `msg` of
`upload` and `remove`, `hold` = `pinned`, `new` = the id just sent).

A step is local code with at most one request to the chat, so that other mounts
and kills come between any two requests.

| Code | Actions |
|---|---|
| `update_table`, `download_table` | `CheckTable`, `ReadPinned`, `TableIsCurrent` (returns 1), `StartOver` (returns 2), `AdoptTable`, `FetchTable` (returns 0) |
| constructor | `Boot`, `LookupRoot`, `MountExisting`, `MakeRoot` |
| `lookup_inode`, `update`, `update_data` | `Lookup`, `KeepObject`, `ReloadObject`, `LoadBytes` |
| handlers that change an object | `Write`, `Truncate`, `SetSize`, `Create` |
| `upload`, `upload_data` | `StartUpload`, `RememberMsg`, `SkipData`, `SendData`, `RemoveOldData`, `SendInode` |
| `upload_table` | `SendTable`, `FindPinned`, `RemovePinned`, `PinTable` |
| `upload`, `remove`, the end | `DropOld` |
| `remove`, the beginning | `StartRemove` |
| death of the process | `Kill` (anywhere in `CrashPoints`), `Segv` (a deleted message was asked for) |
| a request answered with an error | `CheckTableFails`, `ReadPinnedFails`, `ConfirmFails`, `FindPinnedFails` (`getChatPinnedMessage`), `PinTableFails`, `RemoveOldDataFails`, `RemovePinnedFails`, `DropOldFails`, `StartRemoveFails` (`deleteMessages`), `GetMessageFails` |

Requests that fail.  Each has an action of its own, named after the step in whose place
it comes; `errors` counts them.  `TdClass` takes an error of `getChatPinnedMessage` for a
chat without a pin, does not look at the answers to `pinChatMessage` and
`deleteMessages`, returns null for an error of `getMessage` (the process ends as in
`Segv`), and waits for ever after an error of `sendMessage` or `downloadFile`: these steps
are just not taken.  `TypeOK` and `RightKind` hold whatever fails.  The other
properties are stated up to the first request that fails, since one of them is enough to
break each, and no text promises more:

* `ReadPinnedFails`: a mount starts over with an empty table and publishes it;
* `PinTableFails`: the old table is removed and the new one not pinned, so that the
  next refresh starts over;
* `CheckTableFails` while the table is current: `download_table` returns 1 for ever, and
  `update_table` never ends;
* `FindPinnedFails`, and an error of `deleteMessages`: a message that nobody will remove,
  or a second pinned table.

Simplifications: one operation at a time per mount (`fuse -s`); the key is
right; `getMessage` and the download of its file are one step; contents are
model values; `Write` stands for any change of the bytes that calls
`datawrite`.  `data_version_` is left out since it is 0 whenever `update_data`
reads it (only for new objects).

### TgfsOps

State.  `node` is what the chat holds: for every inode number in `messages_` the
parts of its attributes that the handlers decide by (`dir`, `nlink`) and, for a
directory, its table without "." (`up` is "..", `ents` the rest, 0 is no row).
`nlookup` and `lastIno` die with the process.  `known` and `forgets` are the
kernel's: the lookups that it counts and those that a forget is bringing back.
`frame` is the handler between its two uploads.  `kills` counts deaths, and `cuts`
those that came between the two uploads of unlink, rmdir or link: a history variable
for the properties, which say what holds up to the first of them.

| Code | Actions |
|---|---|
| constructor | `MountExisting`, `MakeRoot` |
| `tgfs_lookup`, `tgfs_forget` | `Lookup`, `LookupFails`, `Forget` (with `RemoveNode` for `tgfs_data::remove`) |
| `tgfs_mknod`, `tgfs_mkdir` | `Make` (up to the first upload), `NameMade` |
| `tgfs_unlink`, `tgfs_rmdir` | `Unlink`, `Rmdir` (up to the first upload), `DropEntry` |
| `tgfs_link` | `Link` (up to the first upload), `CountLink` |
| `tgfs_lookup`, `tgfs_readdir` on a removed inode | `Segv` |
| death of the process | `Kill` (anywhere in `KillPoints`) |

The kernel (external) names as parents only directories that it has looked up
and that were not removed, unlinks and links what it has looked up, and gives
lookups back at any time between requests (`KernelForget`), all that it counts
at once.  Forgets arrive later, possibly several merged into one or one split
in parts.  The kernel makes no link to an inode without links; the bound
`MaxNlink` also keeps link counts from growing without end and is the value
that `st_nlink--` gives for 0.

Errors that change nothing (`EEXIST`, `ENOTEMPTY`, `ENOENT` of unlink and rmdir) are
the states in which `Make`, `Link`, `Unlink` and `Rmdir` are not enabled;
`LookupFails` stands for the reply that the kernel asks for most.

### TgfsDir

State.  `row` is the table of a directory: name -> rowid.  `off`, `ended` and `seen`
are a listing in progress: the offset of the last entry passed on, whether an empty
reply has come, and how often each name was passed on; `old` and `gone` are history
variables, the names there at its beginning and those removed since.

| Code | Actions |
|---|---|
| `tgfs_dir::set`, `remove` of the handlers | `Set`, `Remove` |
| `tgfs_dir::next`, `tgfs_readdir` | `Readdir` (one reply, with as many entries as fit), `ReaddirEnds` |
| a new listing (external) | `Opendir` |
| `tgfs_dir::empty` | the operator `Empty` |

A new row has the greatest rowid plus one (SQLite without AUTOINCREMENT): the rowid of
a removed last entry is given out again.  `next` is asked for one row at a time and
returns the rows by rowid.  A name with an apostrophe (`Quoted`) breaks the SQL text;
`set` ignores the error and `contains` finds nothing.  `MaxReply` is how many entries
fit in a reply.

### TdAuth and TgStart

State of `TdAuth`.  `state`, `authId`, `authorized` are `authorization_state_`,
`authentication_query_id_`, `are_authorized_`; `typing` says that a handler waits for
the terminal, `newline` that the end of a line is left in `cin` by `>>`.  TDLib has
`pending` requests, a queue `mail` of updates and answers, its own state `real`, and
what its database keeps over a restart, `login`.

State of `TgStart`.  `pc` is where `main` is, `opts` the command line, `key` the key and
iv, `files` the two key files that matter (the one in the cache directory, one that the
user keeps elsewhere), `chat` whether the chat was found, `table` the key of the pinned
table, `current` whether `current_table_id_` is the pinned message, `missed` (history) whether an
error was taken for a chat without a table in this run.  The key of run `n` is
`n`; what uninitialised memory holds is any value, the one of the run or one that
several runs share.

| Code | Actions |
|---|---|
| `ProcessUpdate`, `OnAuthorizationStateUpdate` | `ProcessAuthUpdate`, up to the question |
| the rest of the handler: `cin`, `SendQuery` | `Type` |
| `CreateAuthenticationQueryHandler`, `CheckAuthenticationError` | `ProcessAuthAnswer` |
| TDLib (external) | `Accept`, `Refuse`, `Nudge` (a state of its own accord), `Close` |
| `Parser::parse`, `create_td_client` | `Parse`, `LogIn` (any step of `TdAuth`), `FindChat` |
| `Encryption_Keys` | `MakeKeys` (`Generate` or `Load`) |
| `td_client_api::td_client_api` | `CheckKey`; `CheckKeyMisses` if the table is hidden by an error |
| `make_new_tgfs` | `ParseMount`, `UpdateTable` (`UpdateTableMisses`), `Mount`, `Unmount` |
| uploads, of the root and later ones | `Upload`, `Unpin`, `Pin` |
| the user and the system | `Kill`, `KeepKey` (the user keeps a copy of the key) |

`Start` is the only thread, so the mutex and query ids are left out of `TdAuth`.
`fuse_daemonize` in the background forks away from the threads of TDLib: such a mount
(`deaf`) serves nothing.

### TgfsThreads

State.  `table`, `open`, `cur` are `messages_` with its file, whether it is constructed,
and `current_table_id_`; all threads share them.  `frame[t]` is the request that thread `t`
is in.

| Code | Actions |
|---|---|
| `update_table`, `download_table` | `CheckTable`, `CloseTable`, `ReadPinned`, `Confirm`, `FetchTable` |
| `lookup_msg` alone | `Lookup` |
| `upload` | `StartUpload`, `RememberMsg`, `SendInode`, `SetEntry`, `DropOld` |
| `upload_table` | `SendTable`, `FindPinned`, `RemovePinned`, `PinTable`, `KeepId` |
| use of a destroyed `messages_`, a message that is gone | `Segv`, or nothing happens |

The objects in `inodes_`, the data of files and `last_ino_` are left out.

### TdClient

State.  `current`, `handlers`, `mtx`, `uploads`, `downloads`, `sent` are
`current_query_id_`, `handlers_`, the global mutex, and the keys with a true value of
`completed_uploads_`, `completed_downloads_` and `sent_message_`.  `call[t]` has the
local variables of the call that thread `t` makes, among them `wait`, which the
handler clears (`isDownloaded` of `DownloadFile` is its negation); `of` is a history
variable: whose request the answer was about.  `hand` is the answer that
`ProcessResponse` has found a handler for.  The rest is TDLib's.

| Code | Actions |
|---|---|
| `GetMessage`, `PinMessage`, `GetLastPinnedMessage`, `DeleteMessage` | `GetMessage` (one kind: they differ in what they ask) |
| `DownloadFile`, `SendFile`, `DeleteFile` | actions of these names |
| `NextQueryId` | read in `Begin`, incremented in `NextQueryId` |
| `SendQuery` | `SendQuery`, with `EmplaceHandler` and the send |
| `mtx.lock()`, the loops, `mtx.unlock()` | `Lock`, `ProcessUpdate` and `ProcessResponse` while not `Done`, `Unlock` |
| `ProcessResponse` | `ProcessResponse` (finds the handler), `RunHandler` (runs and erases it) |
| TDLib (external) | `Respond` (`Fail`, `Give`, `Fetch`, `Discard`, `Accept`), `Upload`, `Post`, `PostFails` |

`SendQuery` runs without the mutex, and the model puts no lock in its place: a thread
may read the `current_query_id_` that another is about to increment, and its handler
may get lost, or not be found, when `emplace` meets another `emplace`, the lookup or `erase`.
Two threads in such a place are a data race; `raced`, a history variable, remembers that
there was one.  The model goes on after it with these outcomes (others, a crash among them,
are left out).  `TypeOK` holds throughout.  `OwnAnswerUntilRace`, `HandlersMatchUntilRace`,
`SentIsPostedUntilRace`, `CallsReturn` and `ImplementsCallService` are stated up to the first
race, in whatever way calls overlap otherwise: C++ promises nothing after it, and
`td_overlap` shows `OwnAnswer` violated.

The `while` loops of a call test, one after another, flags that stay set while this
thread has the mutex, so `Done` is their conjunction; `completed_downloads_` may be
cleared again, but not after `DownloadFile` has found it set.  `receive(0)` that
returns nothing changes nothing.

TDLib answers each request once; what it sends comes in one queue, in the order in
which it happened, with the state that a file had then.  A thread deletes a file
from TDLib's cache after each download and upload, as `td_client_api` does.

## Runs

Bounds: `MaxIno` inodes, `Values` contents, `MaxCrashes` kills, `MaxErrors` failed
requests; `MaxMsg` bounds the message ids at which an operation may still begin, so
every operation that begins can end.  In each run the bounds let several operations
follow one another on the same inode, a removed inode number be used again, and a kill
hit every label of `CrashPoints`.  A failed request may be the first, or come after any
steps.  `store_restart` goes no further than the failed request (`UntilError`), up to which
its properties are stated; `store_two` goes on after it, but not to the last two messages
(`ShortAfterError`), for the sake of time; a kill and a failed request meet in neither, but
`TypeOK` and `RightKind` are proved for both together.

| Run | Instance | Shows |
|---|---|---|
| `store_restart` | 1 mount, 2 inodes, 2 values, fair, kills between operations, cut at the first failed request | between operations the chat holds exactly the pinned table, its inodes and their data (`ChatExactlyReachable`), the cache is current (`CacheIsCurrent`), and what was flushed is what the pinned table leads to (`FlushIsDurable`), and every operation returns (`OperationsReturn`) |
| `store_crash` | 1 mount, 3 inodes, 2 kills anywhere, no failed requests | the pinned table never lists a deleted inode message (`PinnedInodesExist`); published files whose data is lost are at most one per kill or operation under way (`TornFilesBounded`); no message is taken for another kind or another inode (`RightKind`); the store implements `InodeStore` (`ImplementsInodeStore`) |
| `store_two` | 2 mounts, 1 inode, 8 messages, 1 failed request (after it, 7 messages) | types and `RightKind`, whatever request fails; `TableMatchesPin`: a mount that finds itself up to date is |
| `store_window` | 1 mount, 2 inodes, one kill, between the removal of the pinned table and the next pin | **fails** (`StartsOverWithoutFiles`): a mount starts over although the chat holds the inode of a file |
| `store_stale` | 2 mounts | **fails**: the table sent is not up to date |
| `ops_kills` | 3 inodes, 2 names, fair, 2 kills anywhere | `KernelIsServed`; each kill in unlink, rmdir or link accounts for one name that dangles or is not counted (`DamageBounded`); up to the first of these, `LinksMatch`, `NoDanglingEntries`, what lost its last name is removed unless the process dies first (`UnnamedIsRemoved`), and the handlers implement `FileTree`; up to the first kill, every inode without a name has a forget to come (`NothingLeaks`) |
| `dir_listing` | 4 names, one of them not SQL, 7 rowids, replies of up to 2 entries | rowids are unique (`TypeOK`); a listing shows each entry once (`ListedOnce`); `EmptyMeansNoNames` |
| `td_two` | 2 threads with a file each, 4 queries, fair, anything may fail, cut at the first data race | types, one receiver, an answer in hand has its handler (`TypeOK`); up to that race a call has its own answer (`OwnAnswerUntilRace`), handlers are those of calls that wait (`HandlersMatchUntilRace`), what `SendFile` returns is posted (`SentIsPostedUntilRace`), each call is served once between its beginning and its return (`ImplementsCallService`), every call returns or a failure has abandoned one (`CallsReturn`) |
| `td_shared` | 2 threads, 1 file, 3 queries, fair, no failures | **fails**: a call never returns, though no threads met in `SendQuery` |
| `td_overlap` | 2 threads, 2 queries, no failures | **fails** (`OwnAnswer`): two calls take one query id, and one returns with the answer to the other |
| `start_runs` | 3 runs killed anywhere, all options, one wrong input and one unasked update per log-in, errors of `getChatPinnedMessage`, fair | `TypeOK`; TDLib does not wait unheard (`NoLostQuestion`), the user is asked once per update and once per wrong request (`AsksBounded`); `TakenByItsKey`, `KeyIsKept`; a run mounts or ends (`StartEnds`) |
| `threads_window` | 2 threads of one mount, 4 messages | **fails**: an empty table counts as the pinned one |

In `ops_kills` inode 1 is the root; two more inodes give a directory with a file in
it, or a file with names in two directories; two names per directory let an unlink meet
a link of the same file, and two kills let a cut be followed by another handler on the
same inode and another kill.  `MaxLookups = 2` lets a lookup race with a forget.
`MaxNlink = 7` is above every count that this instance reaches without wrapping.

Fairness of `TgfsOps` (`FairSpec`): a handler under way ends; the process is
mounted; the kernel drops an inode that has no name and stays without one
(nothing is held open for ever); and a forget that is possible again and again
is served (strong fairness), because the FUSE queue of the kernel hands out
forgets in turn with requests and does not let requests starve them.

In the `td` runs three or four queries let each thread send or download a file and
delete it, in all orders of answers and updates.  `MaxQueries` bounds the calls that
begin, so that the system may come to rest, and a call whose request failed may wait for
ever: deadlock is not checked, and `CallsReturn` is.  In `td_two` each thread has a file of
its own, without which `CallsReturn` is false (`td_shared`); the safety of calls does not
depend on it, and is proved for any `FilesOf`.  `td_two` goes no further than the first data
race (`UntilRace`), up to which its properties are stated; calls overlap in every other
way: while one waits for the mutex, another receives its answer, takes an id or
puts its handler in.  `TypeOK` after races is proved.  In `td_overlap` two queries are enough.

Fairness of `TdClient` (`FairSpec`): TDLib answers, uploads and posts; a thread goes
on; a thread that waits for the mutex and could have it again and again gets it (strong
fairness: the threads of the FUSE loop are scheduled, and a call of the others is
followed by work outside the mutex).  The failures of
`sendMessage`, `downloadFile` and the posting of a message abandon their call: it
receives for ever, with the mutex, and `CallsReturn` excepts what comes after (see the
hazards).

`dir_listing` has as many names as let a listing take two replies with names made and
removed before, between and after them, and one rowid more than names and dots, so that
a rowid is used again and also a new greatest one is given.

In `start_runs` three runs are one that makes the file system, one that goes wrong (no key
file, another key, a kill anywhere, a key that was not written) and one that meets what is
left.  Each log-in may come by any path through TDLib's states, with one input that is
refused, and with one update that nobody asked for; empty passwords are not counted in
`MaxWrong`, as the program sends at most one of them per line.  A run may end for good
(`MaxStarts`): deadlock is not checked.  Fairness (`FairSpec`): the program goes on, TDLib
answers, a user who is asked types; nothing is assumed about kills, updates that TDLib
sends unasked, uploads, the end of a mount, and errors.

An error of `getChatPinnedMessage` hides the pinned table from the check of the key
(`CheckKeyMisses`) or from `update_table` (`UpdateTableMisses`); `missed` remembers it for
the rest of the run.  `TakenByItsKey` and `StartEnds` except what it leads to: a run with
another key that missed the table in both places starts over and takes the table down; one
that missed it in the first only finds it in `update_table`, cannot decrypt it, and
loops for ever.  With the right key it does neither.

The mounts of `store_two` share one inode, since the eight messages that `TableIsCurrent`
takes (a table that a mount already has is pinned again behind its back) leave no
room for a second one; what `store_two` checks is proved for any number of inodes.
`FlushIsDurable` is checked without truncation (`Sizes = {}`), see the limits below.

Fairness of `TgfsStore` (`FairSpec`): the steps of an operation that has begun happen, as the
requests of TDLib are answered.  New requests of the kernel, boots and kills
are not assumed.  `OperationsReturn` is checked for one mount killed only between
operations: with other mounts or after a kill in the middle of an upload a
missing message ends the process (`Segv`).  What makes `update_table` loop (a failed
request, or a second mount that pins a table which is current already) is not in this run.

## Disagreements with the documentation

* `store_window`: `tgfs.h:18` has `download_table` return 2 "if chat is empty";
  the code returns 2 when nothing is pinned.  `upload_table` removes the pinned
  table before it pins the new one, so a kill in between makes the next mount
  start an empty file system next to the old one's messages.  The run takes the least
  that the sentence says (`StartsOverWithoutFiles`: a chat with the inode of a file is not
  empty) and kills only in that window; in its trace the root is published, a file is made
  and its table sent, the pinned table removed, and the process killed.
* `store_stale`: `tgfs_data.h:25-27` says that `messages_` holds all files on the
  server and must always be up to date; it is sent as the new table several
  requests after the last refresh, and the change that another mount published
  meanwhile is lost.

  Both claims need the kill and the second mount that these runs show: a mount that is
  alone and killed only between operations never starts over in a chat that is not empty
  (`StartsOverWhenEmptyAlone`), and one that is alone, killed anywhere, sends a table that is
  up to date (`SentTableIsCurrentAlone`).
* `td_shared`: `tdclient.h:49-50` has `DownloadFile` return the downloaded file.
  With two threads it may wait for ever: the answer is received by the other thread,
  which deletes the same file, and the flag tested at `tdclient.cpp:63` is cleared
  before the first thread has the mutex.  It then keeps the mutex.
* `td_overlap`: `tdclient.h:68` has `GetMessage` "get information about a message".  Two
  threads that take a query id at once get the same one, `emplace` keeps the handler of the
  first, and it is run with the answer that comes first, that of the other's request.
  Which messages these are is not in the model; `of` says whose request was answered.
* `threads_window`: the same sentence of `tgfs_data.h:25-27`, with threads of one
  mount (the default; `-s` is needed to have one).  While one thread is between the
  removal of the pinned table and the pin of its own, another thread finds nothing
  pinned and makes `messages_` anew, empty.  The pin then makes the empty table count as
  up to date, and the next upload publishes a table with one inode.  No undefined
  behaviour is needed for it.

## Proofs

`TgfsStoreProofs` proves for every number of mounts, inodes, values, kills, failed requests
and messages, from `StoreAssumption` alone:

* `TypeCorrect`: `Spec => []TypeOK`;
* `RightKindAlways`: `Spec => []RightKind`;
* `TableMatchesPinAlways`: `Spec => []TableMatchesPin`.

`TypeOK` is not inductive: `FetchTable` puts a downloaded map into `messages_`,
which has the type of a table only if the pinned message was one.  `Kinds`
closes this: it says of every id that is held anywhere (tables in memory and in
the chat, `data_msg_` in memory and in the chat, the local variables of
operations) that it was given out already and names the right kind of message,
or none.  Since ids are never reused and messages never change, this survives
whatever other mounts do (`Aging`); the proof is one lemma per holder of ids.

`TableMatchesPin` needs to know what `current_table_id_` stands for (`Pinned`): a
table that a mount adopted is pinned as long as it exists, because a message
loses its pin only by deletion; between `upload`'s change of `messages_` and
`PinTable` the mount's table is that of the message it is about to pin.
`TypeOK /\ Kinds` is inductive for all steps.  `Pinned` is not: a failed
`pinChatMessage` or `getChatPinnedMessage` breaks it.  `TypeOK /\ Kinds /\ (errors = 0 =>
Pinned)` is; `NotFailedYet` says that while `errors` is 0 a step is one of `Work`, in
which every request succeeds.  `Inv == TypeOK /\ Kinds /\ Pinned` is what the other proofs
about the store have up to the first failed request.

`TgfsMountProofs` proves, for one mount at a time (`OneMount`) that may be killed at any
step and started again, for any inodes, values, kills and messages, up to the first failed
request (each invariant below is proved in the form `errors = 0 => ...`):

* `PinnedInodesExistAlways`: `Spec => []PinnedInodesExist`;
* `CacheIsCurrentAlways`: `Spec => []CacheIsCurrent`;
* `FlushIsDurableAlways`: `Spec => FlushIsDurable`, if no size is set to more than 0 without
  a write (`TRUE \notin Sizes`; truncation to 0 is allowed);
* `TornFilesBoundedAlways`: `Spec => []TornFilesBounded` (a kill in the pin window publishes
  nothing, so it tears nothing in this sense: what it costs is `store_window`);
* `SentTableIsCurrentAlone`: `Spec => []SentTableIsCurrent`, of which `store_stale` shows that
  it needs `OneMount`.

Each needs to know what holds in the middle of an upload; there are three invariants, each
on top of the ones before.  `Lone`: at most one message is pinned, a mount that
has started has its id in `current_table_id_`, the versions of cached objects are the
entries of `messages_`, the entries name messages that exist, and the message that
`upload` and `remove` drop last has left the table (`Replaced`): this is why
`DropOld` cannot take away what the new table lists.  `Files`: no two inodes have the
same data, though `data_msg_` survives kills in a file and a new inode inherits it;
an object that asks for no datasync has its bytes in the chat (`Good`); data is in the
chat before its inode is sent, and the inode before the table (`InodeIsReady`,
`FileIsSent`).  So the pin at the end of an upload leads to the bytes.  `Losses`: the
table that a new mount would find differs from the mount's in the inode under way only
(`OthersPublished`), so that a kill adds at most that inode to the files that have lost
their contents (`Lost`), and the table that is sent is the pinned one but for that inode.

`TgfsChatProofs` adds that kills come between operations only (`KilledIdle`), and proves
`ChatExactlyReachableAlways`: `Spec => []ChatExactlyReachable`, if there is a mount at all.
Its invariant `Books` accounts for every message of the chat: it is the pinned one, an
entry of the table, the data of an inode, or one of the messages that the operation
under way has sent and not named yet or is about to remove (`Loose`).  A kill in the
middle leaves such messages behind for good, hence the assumption.
`StartsOverWhenEmptyAlone` (`Spec => []StartsOverWhenEmpty`) follows from `Books`: a
constructor that finds nothing pinned has an empty table, so no data and nothing loose
either.

`ImplementsInodeStoreAlways` (`Spec => ImplementsInodeStore`) is in the same module,
without `KilledIdle`: for one mount at a time, killed anywhere.  `ViewAssumption` says that
`None` is not an inode and `Torn` not a value.  The view of an inode is what the pinned
table leads to, and while the table is being replaced, the new one.  The store is
`exposed` between the removal of the pinned table and the next pin: a kill there is `Lose`,
which leaves an empty store; a kill anywhere else is `Die`, which changes no view.  That
the window is the only such place is part of what is proved.  One lemma per kind of step:
most leave the view of every inode alone (`ViewStays`), as a message that goes is not one
that the table or an inode of it names; a step of an upload or removal may change the view
of its own inode only (`Change`), as data belongs to one inode (`Files`) and the pinned
table differs from the mount's in one entry (`OthersPublished`); `DropOld` is `Finish`, as
the inode then has its bytes or is gone (`FileIsSent`, `RemovedIsGone`).  `broken` is
`errors > 0`: after a failed request the abstract store may do anything.

`TgfsOpsProofs` proves for every number of inodes, names, lookups and kills, from
`OpsAssumption` alone:

* `TypeCorrect`: `Spec => []TypeOK`;
* `KernelIsServedAlways`: `Spec => []KernelIsServed`;
* `LinksMatchAlways`: `Spec => []LinksMatch`;
* `NoDanglingAlways`: `Spec => []NoDanglingEntries`;
* `NothingLeaksAlways`: `Spec => []NothingLeaks`;
* `DamageBoundedAlways`: `Spec => []DamageBounded`;
* `ImplementsFileTreeAlways`: `Spec => ImplementsFileTree`,

all of them for every set of kill points.

The first two rest on `Inv == TypeOK /\ LinkFits /\ KernelIsServed`, where `LinkFits`
says that the inode of a link under way has room for one more link, which
`TypeOK` needs in `CountLink`.

The others rest on `Tidy`.  It says what holds in the middle of handlers:
`CountsMatch` has a name owed by mknod before its second upload, and one name too
many in unlink, rmdir and link; `EntriesLead` has every entry lead to an inode
other than the root; `Barren` says that what has no name, or is a file, has no
entries, so that removing it takes no name from another inode; `Ups` says that
".." of a directory is where its name is, so that the parent of a directory with a
name exists; `FrameTidy` says what a handler still knows of its inodes when it
goes on.  `Barren` is what `LinksMatch` alone lacks at a forget: the inode removed
has no links, so no names, so no entries.  The proof has one lemma per handler
step (`MakeTidy`, `NameMadeTidy`, `UnlinkTidy`, `DropEntryTidy`, `LinkTidy`,
`CountLinkTidy`, `ForgetTidy`), over lemmas about how names change when an
entry, a node or neither does (`EntryNames`, `BarrenNames`, `SameNames`).
`cuts = 0 => Tidy` is inductive for all kill points: a kill in mknod leaves an inode
with one link and no name, a `Stray`, which no handler has in hand, no name leads to and
no lookup finds again (`StraysRest`), so that it stays as it is (`StraysStep`).

What is left after a kill that cuts unlink, rmdir or link, where `LinksMatch` and `Tidy`
are false, is `DamageBounded`: there is a set `L` of names, no more than `cuts`, that has
every dangling entry in it, and every inode counts at least its names outside `L`.  Counting
dangling entries alone would not say it: a name that its inode does not count dangles only
after the inode is removed, and leads to another inode when the number is given out
again; as `L` is about names, such a name stays in it.  `Covers` adds what the handler
under way still owes (`Owed`, `Extra`).  An inode with no links has names only in `L`, so
its removal makes no others dangle; `DropEntry` of a name in `L` gives its place to another
name of the inode whose count went down; a kill that cuts a handler adds one name.  `L`
is chosen anew in each step, so that no sum over inodes has to be computed.  `Damage` needs
`TypeOK` and `LinkFits`, nothing of `Tidy`.  Not bounded by it, nor by the code: the files
inside a directory.  One that a cut rmdir left with no links can be filled again, and a
forget then removes it with its entries; their inodes stay, and nothing leads to them.

`NothingLeaks` needs `Kept` besides, which holds until the first kill: `nlookup` is
exactly what the kernel counts (`Inv` has only that it is no less), unlink and rmdir
have an inode in hand that the kernel refers to, so that it is not left without both a
name and a reference, and what has neither is the inode that mknod is about to name.
At a forget `Tidy` and `Kept` meet: an inode without a name has no links, so
the forget that gives back the last lookup removes it (`ForgetKept`).

The refinement to `FileTree` follows from `Inv` and `Tidy`, and is about steps only.  An
entry of the tree is a name (`EntryIsName`), so what the lemmas above say of names decides
which step of the tree a handler's step is: of the two uploads of mknod, mkdir, unlink
and rmdir the tree sees the second (`FirstUnseen`, `NameSeen`, `SecondSeen`), of those of
link the first as the new name and the second as a lookup.  `Release` may remove a file
because an inode that dies at a forget has no names (`CountsMatch`; it is not a
`Stray`, the kernel just gave it back) and no entries (`Barren`).  After a kill that cuts
unlink, rmdir or link the tree promises nothing (`torn`).

`TdClientProofs` proves for every number of threads, files and queries, for all
`FilesOf` and `Failures`, from `TdAssumption` alone:

* `TypeCorrect`: `Spec => []TypeOK`, also after threads have met; it is inductive
  because only the thread with the mutex erases handlers;
* `OwnAnswerAlways`: `Spec => []OwnAnswerUntilRace`;
* `HandlersMatchAlways`: `Spec => []HandlersMatchUntilRace`;
* `SentIsPostedAlways`: `Spec => []SentIsPostedUntilRace`;
* `ImplementsCallServiceAlways`: `Spec => ImplementsCallService`.

There is no assumption on how calls overlap.  The inductive invariant is `CalmUntilRace ==
TypeOK /\ (raced \/ Calm)`, where `Calm` is `Inv`, `Heard`, `Truth` and `SentIsPosted`.
`Inv` adds to the properties `Ids` (one thread at most is at `current_query_id_`, and one
at `handlers_`, which is what `~raced` is worth; the calls that have a query id have
different ones, all given out), `Owed` (each request that TDLib has, each answer in the
queue and the answer in hand is for a call that waits with that id, and an error only for
a kind that may fail) and `Once` (no two of them have the same id).  `Once` is what makes
`OwnAnswer` survive `RunHandler`: after the handler has cleared `wait`, nothing is on its
way to that call any more that `Owed` would have to account for.  After a race `Ids` is
false, since two threads may have read the same `current_query_id_`, and `OwnAnswer` fails
with it: the first handler gets whichever answer comes first (`td_overlap`).

`SentIsPosted` needs `Truth`: what answers and updates under way say of a file on the
server or of a message in the chat is so and stays so, hence `completed_uploads_` and
`sent_message_` have nothing else in them.  It uses `HandlersMatch`: no handler writes the
file and the message of another answer to a call that has returned.

The refinement has a call served when TDLib answers it (`Respond`), later than its thread
sends the request and before any thread receives the answer.  Its view shows a call as
it will be when its answer, in the queue or in hand, has been handled (`Settled`), so that
receiving and handling are not seen.  This is well defined because of `OnItsWay`: at most
one request or answer is on its way to a call, and the call waits for it.  `Heard` is what
`Inv` lacks: what is asked or answered keeps its handler until it is handled, so that
`ProcessResponse` drops no answer.  Then each step is one of the service: the steps of
`SendQuery` before the request and the wait for the mutex are not seen, `Respond` serves
its call or, with an error, loses one that sends or downloads, an upload that ends
posts its message, and the return is that of the service because of `Truth`: what
`SendFile` waits for in `sent_message_` is in the chat.

`TgfsDirProofs` proves for any names, rowids and sizes of replies, from `DirAssumption`:

* `RowsAreUnique`: `Spec => []TypeOK`; it needs only that a new row is above the others;
* `ListingIsExact`: `Spec => []ListedOnce`, from `Listed`: of what was not removed since
  the listing began, an entry after the offset has not been shown, and one up to the
  offset that was there at the beginning has been shown once;
* `EmptyIsRight`: `Spec => []EmptyMeansNoNames`, from the two rows of the dots.

`TgStartProofs` proves for any number of runs and for all that TDLib and the user may
do, from `AuthAssumption` and `StartAssumption`:

* `StartTypesKept`: `Spec => []TypeOK`;
* `QuestionsAreKept`: `Spec => []NoLostQuestion`;
* `AsksAreBounded`: `Spec => []AsksBounded`;
* `TableIsTakenByItsKey`: `Spec => TakenByItsKey`;
* `KeysAreKept`: `Spec => KeyIsKept`.

The invariant has two halves that do not know of each other.  `AuthInv` is that of the
log-in: the last update under way tells TDLib's state (`LastIsReal`), and while TDLib
waits and no update is under way, the user types, or the request with the id `authId`
is pending, or the error that answers it is on its way (`Asked`).  `AsksBounded` needs
`Paid` besides: the updates under way and a wrong request that is still `authId`'s are
among `told` and `wrong` and have not been asked for yet.  A question is asked for an
update, which leaves the queue, or for an error with the current id; a right request is
refused only when TDLib has moved on, and then the update that says so comes first and
makes the id of the error an old one.  `StartInv` is that of
the run: where the key and the chat are there (`KeyThere`), and that from `CheckKey` on
the key is that of the pinned table, unless an error hid it (`KeyFits`).

Every safety property of a passing run is proved.  Only model-checked is liveness
(`OperationsReturn`, `UnnamedIsRemoved`, `CallsReturn`, `StartEnds`): fairness and `ENABLED`
are out of the prover's reach.

## Limits

Not modelled: the cipher (decrypting what was encrypted with the same key is the
identity, with another key it fails), the text of SQL statements and SQLite's own errors
and locks (a name with an apostrophe may also happen to be valid SQL; `Quoted` names are
those that are not), `td_helpers.*` and the hand-run tests (not part of the program).

Failed requests: `TgfsStore` has all of those that the store makes; `TgStart` has the
errors of `getChatPinnedMessage` only; `TgfsThreads` and `TgfsOps` have none.  Nothing useful
holds of the store after a failed request but `TypeOK` and `RightKind`, and nothing is
claimed.

The pin window: a kill between the removal of the pinned table and the next pin leaves
nothing published.  `TornFilesBounded` counts published files only, so it does not count
this loss; `InodeStore` has it as `Lose`, and `store_window` shows what the next mount makes
of it.

File handles: what reads and writes do to an inode is in `TgfsStore`, but the handle
itself (a descriptor and a pointer to the object) is not, nor are byte positions, which
libfuse handles.  The code keeps no property of truncated contents (`O_TRUNC` and
`setattr` of the size do not call `datawrite`), so none is stated; `Truncate` and
`SetSize` are in the model for the properties that they could break.

Threads: `TgfsThreads` has the table; the objects in `inodes_`, `last_ino_` and the maps of
`TdClass` under two threads are undefined behaviour from the first meeting on.  `TdClient`
has the mildest outcomes of such a meeting, of which `td_overlap` needs one.

## Plan

1. `TgChat`, `TgfsStore`, `InodeStore`, `TgfsStoreView` and the proofs: done.
2. `TgfsOps`, `FileTree`, `TgfsOpsView` and the proofs: done.
3. `TdClient` and the proofs: done.
4. `TgfsDir`, `TdAuth`, `TgStart` and the proofs: done.
5. `TgfsThreads`: done for the table.
6. `CallService`, `TdClientView` and the proof that `TdClient` implements it: done.
7. Requests that fail in `TgfsStore` and `TgStart`, threads that meet in `TdClient`: done.
8. Left: file handles over several mounts; for which numbers of threads and orders of
   requests the table of `TgfsThreads` is the pinned one (with one thread it is
   `TgfsStore`'s).
