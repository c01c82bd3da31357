# TLA+ models of rtbserver

rtbserver is an ad server: frontends receive bid requests and impressions, campaign managers select
ads, other services keep user profiles, match requests with impressions and clicks, and move logs.
This directory models the parts of it that keep money, matches and data right across threads, servers
and failures, checks them with TLC and proves main properties with TLAPS:

* the **billing path**: campaign managers ask one of several billing servers whether an account, a
  campaign and a creative group ("ccg") may pay for an impression; RequestInfoManager sends corrections
  (fraud, delayed clicks) afterwards;
* the **matching of requests** with notices, impressions, clicks and actions in RequestInfoManager;
* the **profile storage** under it and other services: transactions on keys over levels in memory
  and in files;
* the **log files** that bring records from one server to the next: their transfer and their loading;
* the **binding of user ids**: which user an external id (a cookie of a partner) belongs to.

The rest of the system is inventoried below and in `PROJECT.json` ("components").

Contents: 1 inventory, 2 modules, 3 runs, 4 findings, 5 fairness and refinement, 6 proofs, 7 what is
not modelled, 8 plan.

## 1. Inventory

Paths are under `src/`. "Hard" is what tests hardly reach. Properties in *italics* are stated in a
module here, the others are what the component would have to satisfy.

### Modelled parts

| Component | State | Operations | Interaction | Hard | Correct when |
|---|---|---|---|---|---|
| `CampaignSvcs/BillingServer/BillingContainer` | three maps (accounts, campaigns, ccgs) of AmountHolders, each map under its own lock; the configuration; rates; a storage directory | check_available_bid, confirm_bid, config, stat, dump, load | called by BillingServerImpl from many CORBA threads | three locks per call, partial confirms, reverts, days and time zones, statistics hours old | *budgets hold*, *the answers account for the books*, *running totals are consistent*, *fresh days survive statistics* |
| `CampaignSvcs/BillingServer/BillingServerImpl` | which container is served, tasks | check, confirm_bid, add_amount, reserve_bid; update_config_, update_stat_, dump_; activate/deactivate/wait | reads CampaignServer every period; serves CampaignManager and RequestInfoManager | stop with calls and tasks in flight, death in a dump | *a stop loses nothing*, *a start restores the last complete dump* (not after a death between two renames: finding 4) |
| `CampaignSvcs/CampaignManager/BillingStateContainer` | per ccg: active server, use count, disabled servers, setter; list of rechecks | check_available_bid, confirm_bid, recheck task | CORBA calls to billing servers; sets flags of Campaign objects the selection reads | state read under a lock, used after a call; two lists, three locks | *no server overlooked*, *what is deactivated comes back*, *what is disabled is retried* |
| `RequestInfoSvcs/RequestInfoManager/BillingProcessor` | per server: aggregated requests; list of non-empty servers; delayed requests; a dump file | process_impression/click (add), sender jobs, send_delayed_, dump, load | add_amount of the billing servers | two levels of locks, a multiset ordered by mutable keys, lost replies, stop in the middle of a call | *nothing accepted is lost*, *nothing billed twice* |
| `RequestInfoSvcs/RequestInfoManager/RequestInfoContainer` | one profile per request id: what was done, what waits for what, the fraud state | process_request, process_impression, process_action, process_impression_post_action, change_request_user_id, fraud rollback | log records from files; operations to the owner of another user id; tells statistics, billing, fraud protection | events in any order and more than once, a dozen counters of what waits, moves overtaken by later records | *the outcome does not depend on the order*, *nothing is booked twice*, *a fraud rollback nets to zero* |
| `ProfilingCommons/ProfileMap/TransactionMap`, `TransactionProfileMap` | per key a holder with a lock, a count of waiters, references | get_transaction, read, save, remove, close | every profile of RequestInfoManager, UserInfoManager is changed through it | the last reference dropped while another thread finds the holder | *one transaction per key*, *a transaction reads the last write* |
| `ProfilingCommons/PlainStorage3/LevelProfileMap` | a writable level, read-only levels, files; counters of what is not dumped and not merged | save, remove, get; dump and merge tasks; start, stop | a task runner; blocks writers | counters beside lists under other locks, readers without the lock, failing merges, restarts from files | *it implements a profile store*, *counters match the levels*, *merges are scheduled*, *blocked writers go on*, *a stop ends* |
| `LogCommons/FileReceiver`, `FileReceiverFacade`; loaders (`RequestLogLoader`, `RequestOperationLoader`) | per type: names in memory (at most 50000), the eldest name that is not, files in progress; a list of receivers that may have files | check_files, get_eldest, process, file guards; stop, restart | the input directories filled by SyncLogs; records go to RequestInfoContainer | a directory read while files come and go, two lists of receivers under two locks, a stop between two records | *the receivers implement a queue of files*, *a receiver with files is listed*, *records are processed once*, *files are loaded* |
| `UserInfoSvcs/UserBindServer` (`UserBindServerImpl`, `UserBindChunk`, `FetchableHashTable`) | per kind (seen, bound) a container of holders, one for each period, with a table of users each; files of a chunk | get_user_id, add_user_id, clear_expired, dump, load | called by frontends from many threads, twice for an id that gets a new user | a container is swapped under one lock while calls go on with the old one; a user is erased here and put there some steps later; files written without a lock of users | *an id has one home*, *a client is told the binding*, *it implements a directory of users*, *a start that comes up loads what was known*, *a fetch finds all that stay* |
| `LogProcessing/SyncLogs` (feed routes) | the source directory, hosts and their availability, files still to be unlinked | process, move (rsync, post command, unlink), the route of commit files | FileReceiver at the other end (commit mode) | a lost acknowledgement and a retry on another host; a command failing between two others; death in between | *nothing is lost*, *a file is processed once*, *files arrive* |

A bid goes: CampaignManager selects a ccg whose `Campaign` flag says available ->
`BillingStateContainer::check_available_bid` -> the active billing server -> the bid is won ->
`confirm_bid` -> `BillingContainer::confirm_bid` on account, campaign, ccg in this order -> what was not
confirmed goes back as a remainder.

A record goes: a frontend's or campaign manager's log file -> `SyncLogs` -> `FileReceiver` of a
RequestInfoManager -> `RequestLogLoader` -> `RequestInfoContainer`, which changes the request's profile in a
transaction of `TransactionProfileMap` over `LevelProfileMap` and tells its processors; an operation for
another owner goes through a file again. A correction goes: RequestInfoContainer ->
`BillingProcessor::process_*` -> `RequestPool::add` shares it among all servers -> a sender job calls
`add_amount` -> remainders go to the next server, then to the delayed requests.

An id goes: a frontend's `get_user_id` -> the chunk of the id, which finds it bound (and moves it to the holder
of the present) or seen (and binds it when it is old enough) -> for an id without a user, or with one of the
black list, the server itself calls `add_user_id` with a new user id, after the lock of the id was released.

### The rest of the system

| Component | What it does, what is hard in it | Here |
|---|---|---|
| CampaignManager (selection, configuration) | pure search over an index; swap of a full configuration | only the swap and its calls to billing |
| CampaignServer | database readers, timestamped updates | only its outputs, as inputs of the billing server |
| Rates, CTROptimizer | numeric optimisation of CTR goals per hour | not modelled |
| RequestInfoManager: user profiles, statistics logs | windows of fraud protection, reach, passbacks | only the fraud rollback they cause |
| UserInfoManager, its controller, UserBindController | admission of servers with their chunks, sessions of clients | planned |
| UserOperationSaver/Loader | files replayed after a failure | planned; the loader has the shape of LogLoading |
| BindRequestChunk (of UserBindServer), UserInfoExchanger, ExpireProfileMap | expiry, files by day, exchange of profiles | later |
| LogGeneralizer | aggregation, upload to the database | later |
| ChannelServer, ChannelProxy, DictionaryProvider | trigger search, update of chunks | later or not |
| Frontends, ExpressionMatcher, Plain, LogCommons, Commons, Controlling, Predictor, Utils, tests | parsing, formatting, batch arithmetic, generated code, tools | not modelled |

`PROJECT.json` "hazards" lists what is hard to test, at its line, with the property that covers it or
the reason why none does. Besides those: the periodic dump of the corrections misses what workers and
send_delayed_ hold (`BillingProcessor.cpp:2213`; only the orderly stop is modelled, and no document
promises more), and the four files of a billing dump are written under four locks, so that a crash
may restore an account that was charged and a campaign that was not (`BillingContainer.cpp:2987`; the
model has it, nothing promises the levels of a restored dump to agree).

## 2. Modules and how they correspond to the code

| Module | Models | Extends |
|---|---|---|
| `Sums` | the sum of a function over a finite set | |
| `AmountHolder` | one AmountHolder as a function from days to (amount_before, amount): `add_amount`, `replace_amount_`, `save_amounts_`, `load_amounts_` as operators; fixed-point division and multiplication | `Sums` |
| `DayLedger` | abstract: a carried sum, the money of each day, a clock; booking changes one day, settling only days older than the statistics delay | |
| `AmountLedger` | the life of one holder: bids and refunds on open days, overflow and its rollback, statistics, the passing of days, restarts; implements `DayLedger` | `AmountHolder` |
| `DeliveryLimits` | `DeliveryLimitsChecker` (check, confirm_amount), `confirm_account_bid_`, `check_available_account_bid_` as functions of limits and holder | `AmountHolder` |
| `BillingContainer` | concurrent `confirm_bid` calls, one action per locked section; configurations; the statistics task, one step per level; `check_available_bid` as a predicate | `DeliveryLimits` |
| `BillingServer` | the process around the container: loading, readiness, tasks, dump file by file, the renames, stop, crash, restart | `BillingContainer` |
| `BillingStateContainer` | the state of one ccg at a campaign manager: threads in check and confirm, the recheck task, ageing of disabled servers, new configurations | |
| `RequestPool` | callers, sender jobs, send_delayed_, activation timers, stop, dump and load of the corrections | `Sums` |
| `RequestInfoContainer` | one request at all owners: every operation on its profile, what it tells the processors, the operations sent to other owners, in any order | |
| `ProfileStore` | abstract: what a key shows, what a crash would leave of it, expiry, stop, crash, start | |
| `ProfileUsers` | the keys and clients that the parts of a profile map share | |
| `LevelProfileMap` | the writable level, its exchange, dump tasks and the merge task in their steps, the removal of merged levels' files, counters, waiting writers, snapshots of readers, start, stop, crash | `Sums`, `ProfileUsers` |
| `TransactionMap` | holders of keys: open, join, lock, refuse, close, release | `ProfileUsers` |
| `TransactionProfileMap` | clients that open a transaction, read, write or remove, wait for room; the composition of the two; implements `ProfileStore` | `LevelProfileMap`, `TransactionMap` |
| `FileQueue` | abstract: files wait, the eldest of a type is given to one owner, let go, perhaps found again | |
| `FileReceiver` | the members of the receivers under `files_lock_` as operators on a record, and the steps of their operations on the directory | |
| `LogLoading` | check_files tasks, the facade, the loading threads, stop, restart, crash; implements `FileQueue` | `FileReceiver` |
| `FileTransfer` | a feed route with its movers, the commit files' route, the receivers of the hosts | |
| `UserDirectory` | abstract: the user of an id and the time of its last use; what is used is kept | |
| `UserBindServer` | the steps of get_user_id and add_user_id on holders and containers, the second call of the server, expiry; implements `UserDirectory` | |
| `UserBindDump` | the dump of a chunk holder by holder, its files and their renames, errors, a crash and the load after it | `UserBindServer` |
| `FetchableHashTable` | the table of a holder: set, erase, and the fetcher that reads it by portions | |
| `Billing_proofs` | theorems about holders, limits, the container, the server and the ledger | `BillingServer`, `AmountLedger`, `TLAPS` |
| `RequestInfoManager_proofs` | theorems about the log files on their way and about the matching of the requests in them | `RequestInfoContainer`, `FileTransfer`, `Sums_proofs` |
| other `*_proofs` | theorems about the module of that name; `UserBindDump_proofs` also about those it extends and `FetchableHashTable` | the module, `TLAPS` |
| `Sums_proofs` | the laws of sums and folds over finite sets | `Sums`, `TLAPS` |
| `MC*` | the values and action constraints of the runs | the module |

State. A `std::map` is a function on the keys present; the books are `books[level][id]`, where "no
days" stands for an absent entry. A call is a record with a program counter and the local variables
that survive a lock. Money is a whole number of the smallest unit of RevenueDecimal, days are natural
numbers, time is counted in parts of a day so that time zone offsets move a bid over midnight. A
profile in a level is the number of its write (a tombstone is one too), so "older" and "newer" are
comparisons. A log file is a number in the order of the names; `Undefined` = 0 is UNDEFINED_STATE_MARK,
which comes before every name, and `None` the empty string, which means that no name is missing in memory.

Actions. Each action is one critical section or one remote call with all it changes.
* *Billing.* `ConfirmAccount` is the account lock of `confirm_bid` with `confirm_account_bid_`, its
  `add_amount` and the `recalc_remind_amounts_` that follows; `ConfirmBid(b, level)` is the same for campaign
  and ccg; `Skip` is an early `stop_confirm`; the reverts are actions of their own because the lock is taken
  anew. In `BillingServer` each file of a dump is a step, and so is each rename. In `BillingStateContainer`
  choosing a server, the call, the deactivation and the planning of a recheck are four steps, as the code
  releases `lock_` between them. In `RequestPool` taking a server from the list and taking its requests
  are two steps, as two locks are.
* *Requests.* Each operation of RequestInfoContainer is one transaction on the profile: a function of the
  profile, the counts it tells and the operations it hands on (`ProcessRequest`, `ProcessNotice`,
  `ProcessImpression`, `ProcessClick`, `ProcessAction`, ...). Operations for another owner are a bag and are taken
  in any order, as files of operations may be. Actions and post impression actions that waited are processed at
  once: `ProcessActions(s, n)` is what n calls of `process_action_buf_` do, as the flags they look at stay the same.
* *Storage.* A read takes the list of levels in one step and searches it in another, as `get_profile` does
  with two locks. A write is one step with the exchange of the level it causes. A dump moves its level,
  writes it, puts it in the list and counts it; a merge picks, writes, swaps, counts and looks again: each
  of them a step, under the lock the code takes. The levels that a merge replaced keep their files (`removing`) until
  the last reference to them goes, then they are unlinked one by one (`Unlink`). A crash keeps what was renamed to
  its final name and what was not unlinked yet; `StartAmongRemoved` is the start that finds the latter.
* *Files.* `MoveIn` renames a file and adds its name under one lock; telling the facade (`TopChanged`) is
  another step. `Get` either gives the eldest name or has the directory read, entry by entry in any order,
  while files are moved in and let go. `FileTransfer` has one step per command (rsync, post command,
  unlink) of each file's mover, a copy that was made may be reported as a failure, and the commit files go
  on steps of their own.
* *Bindings.* A call takes the lock of its id, reads the container, and changes one table or one container at a
  time: `GetBound`, `GetSeen`, `GetHolder` (under extend_lock) and `Put` are what lies between two of these.
  `Return` lets the id go and `AddAgain` is the server's second call. A dump reads one user, finishes one
  holder, renames or deletes one file at a step; a file whose last line could not be flushed by close() is renamed like
  the others, without that line or with a part of it (`Closed`). `FetchableHashTable` is the table alone: `UserBindDump` has of it
  what its theorem says, that the users that stay are all read.

History variables (`booked`, `dumped`, `accepted`, `begun`, `billed`, `unheard`, `told`, `arrived`, `loaded`,
`touched`, `late`, `faults`, `since`, `stray`, ...) record what happened; guards read them only as bounds.

## 3. What the runs check

| Run | Instance | Shows |
|---|---|---|
| `ledger` | 5 days, amounts -1 and 2, statistics of up to two days and a carried sum, delay 1 day, at most 3 days late, a largest amount of 3 | *RunningTotals*: amount_before of a day is the total of the days before; *RestartKeepsBooks*: save then load is the identity on reachable holders; *FailedAddChangesNothing*: the catch block takes back everything; *ImplementsDayLedger*: refinement of `DayLedger` |
| `container` | 2 accounts, 4 campaigns and ccgs; three concurrent charges above the budgets; a charge, a refund and a forced charge over midnight of two time zones; 2 configurations; statistics of all levels or none at any time | *BooksWithinBudget* whatever the interleaving; *AccountPaysForDelivery*; *RepliesAddUp*; *ChargesStayWithinLimits* with the limits the call began with; *CheckAgreesWithConfirm*; *FreshDaysSurviveStatistics*; *RevertFindsEntry* |
| `server` | one bid that is confirmed in part, statistics, 2 dumps, 1 restart | *StopLosesNothing*; *RestartRestoresDump*: or, after a death between the renames of a dump, that the server begins empty with the dump in the copy beside its storage |
| `pool` | 2 servers, 2 workers, a correction of 3 units, lost replies, two stops and restarts | *AcceptedIsNotLost*, *NotBilledTwice* |
| `state` | 2 servers, a thread that checks and one that confirms, 2 configurations | *UnavailableIsRechecked*, *NoServerOverlooked*; *DeactivatedComesBack*, *DisabledIsRetried* (liveness) |
| `requests` | 2 owners, 3 users at home with one or both, all tracking flags, up to two requests, impressions, clicks, actions and impressions of other users, one notice, one post impression action | *OutcomeIsOrderFree*: what was told depends on the records, not on their order; *BookedAtMostOnce*; *FraudNetsToZero* |
| `profile_map` | 2 keys, 2 clients, 3 writes, levels of one write, merges of two levels, one failed merge, stop, crash among files to be removed, or expiry | *ImplementsStore* (refinement of `ProfileStore`), *OneTransactionPerKey*, *TransactionReadsLast*, *MergeIsScheduled*, *CountersMatchLevels*, *BlockedWriteProceeds*, *StopCompletes* (liveness) |
| `log_loading` | 3 files of one type after a type with more priority, a receiver that remembers one name, 2 threads, a file of two records, one fault or a stop | *ImplementsQueue* (refinement of `FileQueue`), *RecordsOnce*, *FilesAreLoaded* (liveness) |
| `file_transfer` | 2 files, 2 hosts, two tries, with and without a pool; two faults for one file, one for two | *NothingLost*, *ProcessedOnce*, *FilesArrive* (liveness) |
| `bind` | 2 ids, 3 users of which one is on the black list, 2 threads, 3 periods of which one is kept beside the present; or one id and one thread, dumps that may fail or be truncated, and one crash | *OneHome*, *AnswerIsBinding*, *ImplementsDirectory* (refinement of `UserDirectory`), *LoadsWhatWasKnown*: a start that comes up loads a binding the id had since the last complete dump began |
| `pool_stranded`, `requests_moved` | | the findings 1 and 2 of section 4 |

The types of the other modules are part of the invariants proved in section 6; *RequestsTypeOK*, which is checked
and proved, also says that no counter of waiting records wraps.

Bounds, and why they are enough to be interesting. Two servers are the least with a "next" server,
a wrap-around and a remainder of a division. Amounts of 3 units over 2 servers give unequal shares.
`MaxUseCount` 1 makes every call switch servers, `MaxTryCount` 1 lets a check give up. Days: the history
(3 days) is shorter than the calendar (5), so days are settled, carried and dropped. The budgets of the
charged campaigns are less than the sum of the bids under them, and rounding occurs in the shares.
`MaxAmount` 3 makes the addition overflow on the day, on a new day's amount_before, and on a later day.
A writable level is exchanged with each profile written, while a tombstone alone stays in it; two levels are merged, and a third one comes
during the merge. `MaxFiles` 1 with three files makes the receiver drop names and read the directory
again. `bind` counts time in periods of a holder, and takes a day, the period of bad events, for the same; a
binding is kept for one period (`Expire` 1, 4 in the code), so that two periods lie in the container and a third
expires; requests of old users come one period late (`Lag` 1); a byte has three values (`CountSize`), and with `MaxBad` 1
no count passes them. One random number stands for those of all files of a dump. `CHECK_DEADLOCK FALSE` is set where each bid or record comes once, or corrections, writes and
restarts are bounded (`MaxAdds`, `MaxTimers`, `MaxRestarts`, `MaxDumps`, `MaxWrites`), so that the model stops.

Action constraints keep stories apart that do not meet; each is in its MC module with what it excludes.
`container`: `OneStory` (charges of the second account, the calls of campaign 1, the statistics do not mix).
`profile_map`: `FewTransactions` (clients meet while no task is under way, at one key, or at two where one is between the halves of its read), `TransactionsEnd` (after the last
write transactions end first), `WritesTell` (what is removed was there), `OneStory` (a refusing map, a restart, a
failed merge or expired profiles), and `StopFindsNoCall`, which states a precondition (below). `requests`: `FewRecords` (at
most one notice and one post action; with an impression of another user at most one action, with two of them one request,
at most one notice and click and nothing else), and symmetric in the users beside the request's own.
`log_loading`: `StopInterrupts` (a stop finds a file between two records), `OneStory` (a stop or a fault). `file_transfer`:
`TwoMeetAtSender` (the second file comes before the first round, copies go on while the sender rests),
`OneStory` (two files and one fault, or one file and two). `state`: `MCConfirmsBeforeConfig` (confirms begin before
the new configuration only, which is no cut of what must happen: neither step is fair). `bind` chooses at the start
what its clients do (look up, rewrite with cookies, or add during dumps), is symmetric in ids, users and
threads, leaves out of the state (`VIEW`) the history that a story does not use and what of the users in files shows only
after the crash, and ends there.

Preconditions of the properties worth knowing.
* *BooksWithinBudget* is about entities whose limits stay the same, whose bids are charges and which the statistics
  leave alone (`Steady`): a forced bid passes a budget by design, a refund that is given back in part may do so as
  well, and statistics put in the books what they say.
* *RestartRestoresDump* says what the code does after a death between the two renames as well: the next start has empty
  books. That nothing is lost there is *DumpedIsPersistent*, which does not hold (finding 4).
* *OutcomeIsOrderFree*, *BookedAtMostOnce* and *FraudNetsToZero* are about a request that is logged once or has no impressions
  of other users (`OneRequestMoves`), the first one also about one whose other users are all at home where it is
  logged, or none of them (`OwnersMeet`). They are conditions in the properties, on the records that have come; the run has the
  other requests too. What happens to those: findings 6 and 7.
* *FreshDaysSurviveStatistics* is about entities that are in the books: for one that only the statistics know,
  the code computes the end date with the time zone of a neighbour.
* *RevertFindsEntry* is about bids not older than the statistics delay.
* *UnavailableIsRechecked*, *DeactivatedComesBack* and *DisabledIsRetried* except a group that a recheck has passed
  by (`stray`): one that a confirm deactivates before any check under its configuration has left a setter is not
  set available by the recheck (`BillingStateContainer.cpp:289`, 689).
* *OneHome* and *ImplementsDirectory* hold until a crash, *LoadsWhatWasKnown* says what the start after it loads, if
  it comes up (finding 5). It is about the first crash: with a second it does not hold (finding 17).
* *NotBilledTwice* allows what a lost reply hides; *ProcessedOnce* allows one more arrival for each copy that was
  made after the commit file, and bounds those by the failures.
* *TransactionReadsLast* allows an older version only to a read between whose halves a level was put in front of the
  others (`missed`); every other read, in the same interleavings, finds the last write (finding 3).
* *ImplementsStore* says of the start after a crash that found levels to be removed which keys may show what
  (`StartTorn`): those in such a level an older version, or one that had expired; all others what they showed. The
  model ends there (finding 8).
* *StopCompletes* and *ImplementsStore* hold under `StopFindsNoCall` (finding 11), as the
  comment "trust that all operations to storage finished" (`LevelProfileMap.tpp:566`) says.
* *RecordsOnce* promises "once" without a fault; with one it promises that no record is skipped.
* *HolderListed* (proved, checked by no run) and the queue are about files with unique names, which the loggers make.

Every property has a mutant in the module it is about (operators with a suffix, such as
`FreshDays_UpperBound`): a plausible slip in one mapped definition that makes TLC refute the property.
They are used by no specification.

## 4. Disagreements of code and comments

Shown by a run:

1. `pool_stranded`: `non_empty_servers_.erase(server)` (`BillingProcessor.cpp:1136`, 1361) removes every server with the
   same first request time. A correction shared among servers gives all of them the same time, so a server
   with requests may be listed nowhere until something else lists it.
2. `requests_moved`: `change_request_user_id_` adds the arriving actions to themselves (`RequestInfoContainer.cpp:1850`)
   instead of those that wait in the stub: an action that overtakes the move of its request is never told.

Properties of the modules that the code does not have (each quotes what it is taken from). No run has them; TLC refutes
them within seconds when they take the place of the properties of the configuration named:

3. *SavedProfileIsFound* (`TransactionProfileMap.cfg` with `RWMax` 3, `MaxUndumped` 6 and without the action constraints): a read that took
   the list of levels before the writable one is exchanged
   (`LevelProfileMap.tpp:588`, 1226-1230) finds an emptied level and a list without the new one: a stored profile is
   absent, or an older one is answered. `FileWriterTest.cpp:1010` reports the like ("not found") as an error, but only
   after the writers have ended. In `profile_map` such reads miss tombstones and find the version before.
4. *DumpedIsPersistent* (`BillingServer.cfg`): between the two renames of a dump (`BillingContainer.cpp:2936-2937`) there is no
   storage directory, and the constructor looks for no other (1346-1352): a server that died there begins with empty
   books, and its first dump removes both copies. "dump state to persistent storage" says `BillingContainer.hpp:192`.
5. *EveryStartIsReady* (`UserBindDump.cfg`): a dump of the bindings tests only `bad()` after `close()`
   (`UserBindChunk.cpp:1311-1313`), which a failed flush in close() does not set. The truncated file takes the place of the old
   ones, which are deleted, instead of "can't save to file". If the last line cannot be read, no start is ready until
   somebody removes the file; if it can, a bound user has lost its flags and counters, or a part of the last number.
6. *RequestsAreTakenOnce* (`RequestInfoContainer.cfg`): an operation that comes by a move skips the profile RS_MOVED of its own
   owner (`RequestInfoContainer.cpp:2490`, 2971), and a stub takes its place; when the request is logged again, it is
   told again. The test of doubles (`RequestInfoContainerTest.cpp:1333`), with moves inside one container, expects one.
7. *ClicksAreDelegated* (`RequestInfoContainer.cfg`): an operation for the user a request was moved to, who has handed it on
   to a third one meanwhile, leaves a stub in the place of the profile RS_MOVED, from which nothing leads to the third: a
   later click waits there for ever, while the container "should delegate all operations"
   (`RequestInfoContainerTest.cpp:1224`).

Met while modelling, and in the models, but with no property of their own:

8. `LevelProfileMap.tpp:1599-1603`, 341-367: the files of merged levels are unlinked one by one when the last reference
   drops, long after the merged file is there. A crash meanwhile leaves old levels beside it, and the next start takes them
   for levels like the others: where a newer version was dropped by the merge (a tombstone, an expired profile),
   or the order of equal indexes puts the old level first, what was removed is there again, and what was written is older.
   *ImplementsStore* bounds this to the keys of those levels.
9. `BillingStateContainer.cpp:323` tests the pointer of the result and not its `available`: a confirm ends at the
   first refusal, while the comment at 278-279 says only success or the lack of servers ends it.
10. `BillingProcessor.cpp:1911` and 1045 both add 1 to the server's index: a resent request skips the next server,
   which the comment at 1905 names.
11. `LevelProfileMap.tpp:661`: a writer that waits for room while the map is stopped goes on writing behind
   the last exchange when it wakes; `dump()` then waits for a level that no task will write. Without
   `StopFindsNoCall`, TLC refutes *StopCompletes*, and *ImplementsStore*: a call that writes after the last
   exchange has written what no file gets.
12. `RSyncFileRouter.cpp:139-145`: when rsync finds the file at the host already, the rsync and the post command are
   run once more although the commit file has been touched; the receiver may have taken the first copy
   meanwhile and takes the second one too. `FileReceiver.hpp:52-54` says the commit mode "prevents double
   uploading file by rsync when a connection problem occurred during upload acknowledgment sending". The
   model counts it (`late` of *ProcessedOnce*).
13. `FeedRouteProcessor.hpp:281`: a pool's files that could not be unlinked go into `MoveState::unlink_files`, which
   nobody reads: they are sent again, while the processor without a pool unlinks them first.
14. `FileReceiver::empty()` may answer true while the directory is being read (the mark is cleared first), and
   a directory that cannot be opened is taken as empty.
15. `FetchableHashTable.tpp:75` moves a fetcher by the elements it returns and not by the slots it has read. A dump
   reads with a limit of slots (`UserBindChunk.cpp:1264`): when that many erased slots come in a row, a portion
   returns nothing, the fetcher stands still and the dump does not end. `NextPosition` has it so.
16. `UserBindChunk.cpp:691` counts bad events in a byte and stops at no limit: after 256 on one day the count is 0 and
   the id may be rewritten again. A user that is moved to the present is counted twice for one event, as
   `modify_at_get_` is called again for the new holder (1189). Both are in the model (`Counted`, `Put`).
17. A user that is moved while a dump reads its containers may be written twice or not at all; after a crash an
   id may so be bound and seen, or in two holders. *OneHome* is about a process that has not crashed.
   A later move erases only the newer of two users (`break`, 575 and 1166): the older stays, and when a dump that reads it
   and misses the moved one is followed by a second crash, the next start binds the id to the older again. TLC finds
   that with three periods and the two files that a dump cut off after a rewrite leaves.

## 5. Fairness and refinement

Liveness is stated for four components, under weak fairness only.
* `BillingStateContainer`: each thread's step, the recheck task (scheduled every 100 ms) and the passing of time;
  checks keep coming for a group that can be selected (`WF` on `BeginCheck`, which is disabled while it
  cannot). No fairness is assumed of answers: every server may refuse for ever.
* `TransactionProfileMap`: the tasks of the task runner - dumps, merges (with the unlinking that ends one) and the two waits of `dump()`. Nothing is
  assumed of clients: a writer is woken by the tasks alone.
* `LogLoading`: the loading threads (a loop of `process_file_`), the move of each file that has come (a task that is
  planned again and again) and the call that tells the facade.
* `FileTransfer`: `process()` is called every period; movers, receivers and the commit files' route go on; a host's
  check period ends. Faults are not fair: there are at most `MaxFaults` of them, after which a try succeeds.

`AmountLedger`, `BillingContainer`, `BillingServer`, `RequestPool` and `RequestInfoContainer` state safety only: nobody
promises that a bid comes or is accepted.

Four abstract specifications are implemented, each checked by TLC as a property with a refinement mapping:
`DayLedger` (the carried sum is the first amount_before, the days are the amounts), `ProfileStore` (what a key
shows is what a search of rw and levels finds; durable is what a start would load from the files),
`FileQueue` (waiting is what lies in the intermediate directory, is in no thread's hands and was not left there) and
`UserDirectory` (the user of an id is the one its holder has or, while it is moved, the one a call has in hand;
its last use is the period of that holder or the time of that call). All four are proved to be
implemented for all values of the constants as well (section 6).

## 6. Proofs

All of them hold for every value of the constants, under the assumptions named in the modules
(`DateAssumption`: sets of days have a first and last element, as the keys of a finite map have;
`UnitAssumption`; `NoneAssumption`; `ConfigAssumption`, `BidAssumption`, `StatAssumption`, `LedgerAssumption`: the
types of configurations, bids and statistics, that bids are finitely many and that each falls on a day of the
calendar under every configuration, and that statistics have `prev_day` before all their days - the code asserts
it - and an amount before it only with one; `ConfigNoneAssumption`, `FileAssumption`: no configuration is not one, no file is not one; `DumpAssumption`; the counts of servers are positive; `ProfileUsersAssumption`, `TransactionMapAssumption`: `None` is
no key, client or holder, clients are finitely many; `LevelMapAssumption`: a level is
not larger than what may wait to be dumped, and a merge takes two levels at least; `RequestAssumption`, `ThreadAssumption`: times and amounts are natural
numbers, keys, callers and workers finitely many). TLC evaluates them in the runs.

Billing.
* `Billing_proofs`, first part: `AddAmountAdds` (only the day booked changes, by the amount) and
  `AddAmountKeepsRunningTotals`: `add_amount` keeps the running totals consistent if the day is not
  before a carried sum. The argument splits on whether the day is new, first, last or in the middle.
  `ConfirmAmountKeepsLimits`, `ConfirmAccountAmountKeepsBudget` - what is confirmed keeps to the budgets, and is no more
  than was asked - and `AvailableIsConfirmed`, from lemmas on each limit (`WithinResult`, `CheckPositiveResult`,
  `CheckNegativeResult`).
* The container: `TypeCorrect`; its inductive invariant adds to the type that every date
  that a call in progress or the configuration may book on is a day of the calendar (`CallDates`,
  `ConfigDates`), without which `add_amount` leaves the type. From it `ChargesKeepToLimits`
  (*ChargesStayWithinLimits*: each step by the two theorems on limits), `CheckedIsConfirmed`
  (*CheckAgreesWithConfirm*, by `AvailableIsConfirmed`) and `FreshDaysSurvive` (*FreshDaysSurviveStatistics*: what
  statistics put in the place of a holder has, from the end date on, the days it had).
* `AccountPays` (*AccountPaysForDelivery*) is about the end of a call, and needs to know what every step before it
  may still do: `CallInv` says of each program counter which levels are not confirmed yet, that only what was
  confirmed is given back, and that what a level keeps, or may still get, is no larger a share of the bid than
  the account pays for, up to the rounding of one division (`Fair`). The lemmas are on products of shares
  (`FloorShares`); each cut of an amount is one of them.
* `RevertNeverAborts` (*RevertFindsEntry*) holds under `DaysOpen`: no bid is made for a day that the statistics
  settle, under any configuration with a time offset of that entity. Bids come with the present time, and the
  delay of the statistics is there to keep such days open; without the hypothesis the assertion of the code can
  fail, and it is true of the instance that the run checks. `EntryInv`: all limits in use have known offsets, so
  that the day of a call is open, and what a call has confirmed is in the books.
* `AnswersAddUp` (*RepliesAddUp*): an invariant of sums. `AddsUp` says of each entity and day that is open that what
  the books have is what the statistics and the configuration put there and what the calls have been told so far;
  each step changes one term of it. It holds under `ZonesAgree`: an entity that only the statistics know is settled
  with the time zone of a later entity (`BillingContainer.cpp:2676`), and that zone must not settle more days than
  its own. `ZonesAgree` is an assumption of the run `container`, where TLC evaluates it.
* `BudgetsHold` (*BooksWithinBudget*) has no hypothesis: *Steady* names the entities it is about, those whose
  limits are the same in every configuration, whose bids are charges for open days, and which no statistics
  mention. `PositiveInv`: what such a call confirmed is between nothing and what it asked for, and it gives back no
  more than it has. `SteadyInv`: the limits it works with are those in force, nothing is carried into the books of
  the entity, and each day of them is the sum of what the calls booked there; so no revert of one call can lift
  what the others spent over a budget that was checked before.
* `RunningTotalsHold`: in the container, too, each day starts where the day before ended, for all entities. A holder
  may carry a sum of the days that the statistics no longer tell apart; a bid for a day before those would stand
  before the sum and be left out of it. So the invariant `TotalsInv` says of each entity that nothing is carried or
  that a day is kept which is not after any day its bids may be booked on (`Based`), and the theorem holds under `BidsInHistory`: no bid is for a day before the `prev_day` of the statistics, which is 60 days
  back. The runs `container` and `server` assume it, and TLC evaluates it.
* `SavedIsLoaded`: what `load_amounts_` makes of the lines that `save_amounts_` wrote is the holder, if its running
  totals add up. The load is a recursive function over sets of days; it exists and is what `Booked` says in
  closed form (each day starts with the sum of the days before), which a least set of days could not break.
* The server: `StoppedIsDumped` (*StopLosesNothing*) and `RestartHolds` (*RestartRestoresDump*), under `BidsInHistory`, and
  wherever the server dies. `ServerInv` takes the container's invariant along, says which files of the
  directory being written are there at each step of a dump and what they hold (they need not be of one moment),
  that the storage is always a directory written to its end, or none has been yet, or a process has died between the
  renames and the copy `.bak` is what the storage was, and that a dump that
  was begun after calls and tasks had ended writes what the books still are. `SavedIsLoaded` closes the circle.
* One holder with overflows: `RunningTotalsOfHolder` (*RunningTotals*), `HolderIsRestored` (*RestartKeepsBooks*),
  `OverflowIsReverted` (*FailedAddChangesNothing*) and `LedgerIsImplemented` (*ImplementsDayLedger*), under `OverflowStores`.
  For the catch block: the entries it walks back over are just those that were added to, the failing one
  with them. For the refinement: booking changes the amount of one day and moves nothing into the carried sum,
  as no bid comes for a day before a carried sum (`LedgerInv`), and what the statistics put in the place of the old
  days ends before the first day they do not settle.
* The corrections (`RequestPool_proofs`): `AcceptedIsKept` (*AcceptedIsNotLost*) and `BilledOnce` (*NotBilledTwice*), for any number of
  servers, callers and workers. `Conserved` makes the two inductive: it counts what a caller has shared out so far of
  the request it adds (`Given`, the shares of the servers before the one it is at), which must be there although
  nobody was told yet, and what is still to come (`Coming`), which must not be there yet. `Flow` reduces each step of a
  worker or of the delaying task to what leaves the process and what is booked. The other half is about operators:
  merging, marking, sharing out and sending again keep the amounts (`MergeAdds`, `ResendKeeps`, `SharesAdd`,
  `AddToServerAdds`), and what is loaded from a file is what was saved (`SaveIs`, `LoadAdds`), through two nested folds.
* The laws of sums that these rest on (`SumOfZeros`, `SumRemove`, `SumChange`) and the existence and uniqueness of a fold
  (`FoldExists`, `FoldUnique`) are in `Sums_proofs`. Both are the library's recursive functions on finite sets; the laws
  are proved by looking at a smallest set that breaks them, as the induction theorems of the library cannot be used.
* `BillingStateContainer_proofs`: `TypeCorrect`, whose invariant adds that a check that calls has tries left;
  `GivenUpOnlyWithoutServers` (*NoServerOverlooked*), which rests on a lemma on remainders: the
  servers at distance 1 to n after the active one are all the servers; `UnavailableGroupIsRechecked`
  (*UnavailableIsRechecked*) for all threads and configurations, whose invariant adds that no call of a future
  configuration exists and that its groups are available (`FutureInv`); and `CheckedGroupIsRechecked`: with checks only and one
  configuration no recheck passes a group by, since whoever plans or carries out one has the setter.

Requests.
* `RequestInfoManager_proofs`, for any owners, users, homes, tracking flags and numbers of records:
  `RequestsKeepTypes` (*RequestsTypeOK*) and `StagesAreOrdered`, with the same invariant, `Typed`. It says
  of each profile, in a store or carried by an operation, that it has its stages in order (`WellFormed`): the
  counters of what waits are taken down only by the step that found them positive, and a profile that leaves
  (RS_MOVED) leaves without its impression, which is why a move cannot take a booked impression along.
* `BookedAtMostOnceHolds` (*BookedAtMostOnce*) and `FraudNetsToZeroHolds` (*FraudNetsToZero*). Neither is inductive: what
  was told says nothing of who may tell it next. `BooksInv` names who: either nothing is booked and no owner
  has an active profile (`Unbooked`), or exactly one owner has one, and its flags are what was told (`BookedAt`), or no
  owner has one and exactly one operation "change" carries the request, counted once in the bag (`UnderWay`). Each
  operation on a profile either keeps who that is and tells what the profile gets (`Steady`), books a request
  nobody has, or hands it on, or takes it up. A request without impressions of other users never
  leaves the owner it came to (`Here`), so that its second record finds it booked.
  Both are about states with `OneRequestMoves`: a request with impressions of other users has had one request
  record. When it has had more, a stub may stand where the profile RS_MOVED was (finding 6), and they fail. Nothing
  is assumed of the records that come: as a state with `OneRequestMoves` is reached through such states only
  (`OneRequestBefore`), the invariant is `OneRequestMoves => BooksInv` beside `Typed` (`OrderInv`). The values of *FraudNetsToZero* follow, as a rolled back profile is
  active and counts for nothing. `OwnerAssumption` and `ProfileAssumption` (what is not there is no profile, post
  impression actions are finitely many) are all that is asked of the constants.
* `OutcomeIsOrderFreeHolds` (*OutcomeIsOrderFree*), in states with `OneRequestMoves` and `OwnersMeet`: all users of a request are at
  home with the owner its records come to, or none but its own is. With two users the latter holds by itself; with
  three it may not, and the property fails (finding 7). `SheetInv` has both conditions in front, like `OrderInv`. The proof is an account of every record that waits. Of a profile and of what was
  told it keeps a sheet (`Sheet`): what has come, what waits, what was told again. Each `process_*_buf_` is a short
  function of the sheet (`NoticeOn`, `ImpressionOn`, ..., by `NoticeSheet` and the like), a move is one on an empty sheet with
  what waits put back (`ChangeSheet`). On the sheet the argument is about stages and sums alone: `InOrder` says that
  nothing waits that need not, `Accounts` that every impression, action and name is told or waits. `PlacesInv` says
  where to look: all that is on its way goes to one owner (`Place`), where the request came or where it left for, and
  nobody else has a profile of it. The inductive part is `Tally`: a notice, an impression and each click that has come is on
  the sheet of that place or in the bag of operations, where an operation "change" stands for all it carries
  (`AddsUp`, with the clicks as a sum over the bag). `RecordAssumption` (a post impression action is not called "click")
  is asked of the constants beside the two above.

Storage.
* `TransactionProfileMap_proofs`: `ExclusiveTransactions` (*OneTransactionPerKey*) for any clients and keys.
  *OneTransactionPerKey* is not inductive: a holder that is forgotten too early could be made again. The
  invariant adds that the map and the references agree (a holder the map has is referred to; whoever
  refers to a holder does so with the key under which the map has it) and that a client whose transaction
  is open, or that is about to unlock, owns the lock. That a new holder can always be found is a
  pigeonhole lemma (`UnusedExists`).
* `LevelsAreMerged` (*MergeIsScheduled*), for any bounds on sizes and counts: two dumped levels 0 have a merge that
  runs, waits, or is about to be asked for. The invariant says that the list is a sequence of levels without repeats
  (a merge puts one in the place of those it took, `Kept` keeps the others in their order), that each task
  works on levels of the list, and that whoever puts the second dumped level into the list asks for the merge, or
  sees under the lock that another does (`Recheck`).
* `CountersHold` (*CountersMatchLevels*), for any keys, clients, sizes and bounds. The counters are kept by differences
  in other tasks than the lists they count, so the invariant (`MapInv`) is about the lists. The levels are in the order
  of `LevelHolderPtrLess`, so that those of index 0 are a prefix of the list (`Levels0Are`), and each level without a file
  has one task that dumps it, which no other level can be taken for (`DumpsInv`). A merge that has written its level
  was made of a block of the list, all of files, which is there still wherever levels were put in front of it since,
  and the place of the merged level by that order is the place of the block (`Merging`, `MergedList`): this needs that
  what is merged fits into the indexes before the next level, which is what `Gap` leaves room for (`PickedIs`,
  `MergedLevelIs`, by the sums of areas and the doubling of capacities). So the difference that `CountMerged` adds is
  the one the swap made (`ReplacedLevels0`).
* `StoreImplemented` (*ImplementsStore*): the map refines `ProfileStore`, for any keys, clients, sizes and bounds, under
  `StopFindsNoCall`, which is what the comment at `LevelProfileMap.tpp:566` trusts in. `StoreInv` is what the order of
  the levels is for: of two places in the list the one in front has the newer version of every key they share, and
  the writable level has the newest (`NewestFirst`); a level whose files are written and not swapped in yet agrees
  with them, but for what has expired (`Agrees`); and a stop goes by its steps (`StatusInv`): once no call is left nothing
  is in the writable level, and once `undumped_size_` is 0 - here `CountsInv` of `MapInv` is needed - every level has
  its files, so that what a stop leaves to load is what was shown. Each step is then a step of the store: a write is
  `Write`; writing files, swapping them in and putting a merged level in the place of its block is `Persist`
  (`RewritesPersist`: no key shows another version than before, and what a crash would leave of it is no older); taking
  the writable level is no step at all. `DurableWithin` says why: a search that skips some levels of such a list
  finds the same version or an older one. A level to be removed holds versions that are no newer than what its
  keys show (`RemovedIsOlder`), so a start among such levels is `StartTorn`.
* `TransactionsReadLast` (*TransactionReadsLast*), for all interleavings, also of a write between the halves of a read.
  `ReadsInv` is about both halves: who has taken the lists has an open transaction, and what the search
  of those lists will find is what the key shows now, whatever was dumped and merged since - or an older version, if
  a level was put in front in between and the writable level searched is not the one of then (`missed`). That nobody else writes
  the key is `OpenExcludes`, the lemma behind `ExclusiveTransactions`.

Log files.
* `LogLoading_proofs`: `RecordsOnceHolds` (*RecordsOnce*), `ListedHolds` (*HolderListed*) and `QueueImplemented`
  (*ImplementsQueue*). The hard part of the invariant is that a receiver with bounded memory always gives the
  eldest file although it has not all names: `Covered` says of each file that waits that it is in memory, or not
  before the eldest name that is not, or still unread by the thread that reads the directory - which is one
  thread, with the lock of the holder (`ScanInv`, `Apart`). `LoadedInv` relates the lines a thread has given on, the
  number in the name of the file and what was loaded; `ListedInv` says that who unlists a receiver does so while it
  has nothing (`Spent`), or its new top is on its way.
* `FileTransfer` (`RequestInfoManager_proofs`, last part): `NothingLostHolds` (*NothingLost*) and `ProcessedOnceHolds` (*ProcessedOnce*). `SafeInv` says what
  each commit file, and each program counter of a mover, promises of a copy. `OnceInv` counts, for each file,
  what was processed, the hosts whose receiver has it and those where a committed copy waits (as cardinalities):
  together no more than one and the late copies. `LateInv` gives each mover the copies it may still make
  without a failure (`ToCome`), and pays two for a failure.

Bindings.
* `FetchIsComplete` (the end of `UserBindDump_proofs`) - a fetch that has ended has found every key that stayed in the table
  - for any portion and limit: a key that is due and was not found lies at the position or after it
  (`DueIsAhead`), as the position moves by no more than the slots read.
* `UserBindDump_proofs`: `OneHomeHolds` (*OneHome*), `AnswersAreBindings` (*AnswerIsBinding*) and `DirectoryImplemented`
  (*ImplementsDirectory*), until a crash. Their invariant is about what a call has in hand: the id it has locked is in no
  holder while it is moved, the holder it has taken is in use or has expired (`MovingCall`), what it is to answer is
  what it will store (`Settled`), and what it answers lies in a holder that is not older than its request, unless
  that has expired (`Answered`). For the refinement each step is shown to be a step of the directory or none.
* `FirstStartLoadsWhatWasKnown` (*LoadsWhatWasKnown*) assumes `MaxCrashes <= 1` and `DumpAssumption` (numbers of files
  are naturals). Its invariant `LoadInv` adds `KnownInv` to the one above: what a file holds, and what the dump that runs has
  still to read, was known since the dump of that file began (`Values`); an id that was not moved is still to be
  read or already in the files (`Keeps`); the files of the old and the new dump are told apart by their numbers (`FilesInv`).
  What a step of a call does to the bound users is stated once (`Placed`, `NextPlaces`): a user that comes into a holder has
  the user id the directory shows, and one leaves its holder only with a move or when it is forgotten.
  For the loader, the n-th holder is the n-th period in order (`RankOrders`), so the user found is the one of the newest
  file that has the id. A file of which a line was cut has the same user id in it or cannot be read; in the latter case the
  start is not ready, and nothing is bound.

Only model-checked, and why:
* liveness (*BlockedWriteProceeds*, *StopCompletes*, *FilesAreLoaded*, *FilesArrive*, *DeactivatedComesBack*, *DisabledIsRetried*):
  the prover has no fairness.
Every invariant and every other action property that a passing run checks is proved.

The findings are counterexamples of TLC, or were met while modelling.

## 7. What is abstracted or not modelled

Billing.
* Rates: of `ccg_rate_amounts` only a counter of impressions is kept; CTR goals, free budgets, their
  optimisation and files are left out, so check_available_bid has no goal to reach.
* Overflow is modelled on one holder (`AmountLedger`), not in the container.
  `RevenueDecimal` is a library outside the repository; whether its `+=` stores before it throws is a
  constant (`OverflowStores`), TRUE in the run - the value under which add_amount's rollback is right.
* `REPLACE_PORTION_SIZE_`: statistics replace one level under one lock (100 entities per lock in the code).
* Crashes of RequestInfoManager and its periodic dump: only the orderly stop is modelled.
* `RequestPool` has one number for the four amounts of a request and one hour; one call that walks
  several servers is one step.
* `BillingStateContainer` has one group; others share only locks. Times are "recent" and "old".
* Retries of callers after an exception of `add` or of a billing call in CampaignManager.

Requests.
* Custom actions (with sums and order ids), the revenue a notice or impression converts, times and
  expiry, an exception of a processor after the profile was saved.
* What is told of a request that moved and is logged again, or that moved on to a third user, is in the model but no
  property says what it should be beyond the findings 6 and 7. Post impression actions
  that wait in a stub overtaken by a move, and a duplicate impression by which a request moves, are lost
  by the code; the run has no more than one of each.

Storage.
* The bytes of index and data files; a crash between the renames of one dump or merge; corrupted levels (which
  the constructor skips); what a map does after a start among levels to be removed (finding 8), where two levels may
  have the same index and sub_index; the periodic DumpRWLevelTask; copy_keys and sizes. With `max_levels0_` = 1 writers
  wait for ever, as a merge needs two levels; the model assumes more. The priority of get_transaction is used
  for its precondition and not handed on to the transaction.
* `ExpireProfileMap`, `ChunkedExpireProfileMap` and the older PlainStorage under them.

Log files.
* The fetch types "new" and "commited" of feed routes with `revert` (a reverted name that is gone blocks its
  route), FetchRouteProcessor, hash and number routing, FeedRouteGroupProcessor, FileThreadProcessor (its
  `ProcessJob::work() throw()` lets Interrupted out). Equal names: `fetch_file_` throws; in `FileTransfer` this is
  the guard of `HandleCommit`.
* The order in which active objects are deactivated is the library's: both orders are possible.
* The order of files of several types is best effort in the code too (the key of a receiver may be stale).
* A crash of a receiver's host is in `FileTransfer` a commit file that is not deleted.

Bindings.
* Bind requests (`BindRequestChunk`), operation files, the load of files of another configuration (whose ids are
  redistributed among chunks), `ignore_bad_event`, sources other than one, the portions of a chunk (they share
  nothing). In the model the locks of ids are exact; in the code ids share them by their hash.
* `UserBindDump` reads users one at a time; that a table's fetch may not end (finding 15) is not in it.

Elsewhere, read but not modelled: `resolve_partition_` never resets `resolve_in_progress_` on success, so a partition is
resolved once (`UserInfoOperationDistributor.cpp:188-197`, the same in UserBindOperationDistributor); `match` there begins with
`res = false` and combines by `&=`; UserInfoManagerController does not read the chunks of a server again once its
cached `ready` is true. UserBindController requires the answer AS_ALIVE in a check and AS_READY in the first
look, and what it calls "schedule sources reinitialization" plans the checks only
(`UserBindControllerImpl.cpp:435-510`). A reply that comes after a confirm's refusal, a request for a server that was
refused, statistics of entities nobody knows and a refund given back in part are in the models and have no
property: nothing in the code says what should hold there.

The other components of section 1 are not modelled: selection of ads, formatting, parsing, statistics and
tools are pure functions or input and output; what they would add is size, not interaction.

## 8. Plan

Done: the billing path, then request matching, profile storage, log files and the binding of users, each with
proofs or refinements where sections 5 and 6 name them.

Next modules: `ChunkSessions` (controller, servers and clients never serve a chunk from two servers);
`OperationFiles` (RequestOperationSaver and UserOperationSaver with their loaders); `UserFraudProtection` (what it rolls back of the
requests it was told); `ExpireProfileMap`. Composition: `RequestInfoContainer` over `LogLoading`, so that a repeated record is
a repeated file's; its corrections feed `RequestPool`, whose calls are the bids of `BillingContainer`.

Running: `tlc -config X.cfg M` for a run of `PROJECT.json`, `tlapm M_proofs.tla` for the proofs.
