# Verification of fedssh

fedssh lets the users of an identity federation log in to SSH servers. A user
visits a web page behind the federation's single sign-on; the page stores the
user's public key and the end of the session in a directory. A patched sshd asks
the directory for the key of the user who is logging in, and uses it as if it were
a line of `authorized_keys`. This directory holds a TLA+ model of that path, the
TLC runs that check it on small instances, and proofs that TLAPS checks for every
value of the constants. It also models the parts of sshd that decide on, and carry,
the resulting session: authentication in two processes, the daemon, and channels; and
the first key server, which the directory replaced.

## 1. Inventory

| Part | Code | State | Operations | Hard behaviour |
|---|---|---|---|---|
| Key directory | external LDAP server, `ldap/schemas` | entry per account: key, timeout | search, add, modify, delete | written and read concurrently; answers get lost |
| Login page | `ssh/index.php`, `ssh/delete.php`, `ssh/ssh_backend.php` | PHP session, request locals | login, close | search and write are two round trips; failures; clock read before the write |
| Key lookup | `openssh/auth2-pubkey.c`, `openssh/ssh_fed.c` | one temporary file per user, stack arrays | `user_key_allowed`, `get_rsa_key_ldap` | connections of one user share the file; the grace alarm ends a process anywhere; uninitialised arrays |
| Timeout test | `check_timeout` in `openssh/ssh_fed.c` | none | one function | numbers compared as text; `int` clock |
| Authentication | `openssh/auth2*.c` | method, failures, key options | service and userauth requests | limits, query followed by signature, keys that change meanwhile |
| Monitor | `openssh/monitor.c`, `monitor_wrap.c` | permitted requests, allowed key | one handler per request | requests of an arbitrary child in any order; two processes with a verdict each |
| Daemon | `openssh/sshd.c` | startup pipes, alarm | accept, fork, restart, key regeneration | signals anywhere in the loop, failing forks, MaxStartups |
| Channels | `openssh/nchan.c`, `channels.c` | input and output state, windows | messages, EOF, close, windows | crossing closes, exhausted windows, a command that dies with output pending |
| RSA key server | `servidor_de_RSA.py`, `db.sql`, `get_rsa_key` in `ssh_fed.c` | table of keys, timers | `USR`, `XIT`, expiry | threads, day wrap of the expiry test |
| Key file scripts | `webservice/*.sh`, `webservice/index.php` | `authorized_keys` | add, delete | two scripts on one file |
| Account provisioning | `ssh/useradd/*.php` | accounts | request an account | several machines, partial failure |

How they interact: the login page writes the directory, sshd reads it; both read the
same clock (their own machine's, assumed synchronised). Nothing else connects them,
so the module `KeyDirectory` is the interface between the two halves, and
`FederatedLogin` puts them together. Inside sshd the
monitor calls `user_key_allowed`; `Monitor` sees of it only a set of keys that may
change at any moment (`authorized`), which covers whatever `FedKeyLookup` lets through.
The daemon forks the processes that `UserAuth` describes and sees of them only that
they authenticate or die; a channel exists only after authentication.

## 2. Modules

| Module | Contents |
|---|---|
| `KeyDirectory` | the directory and the clock; `DirSpec`, the abstract specification of what an observer of the directory may see |
| `LoginPortal` | the login page: concurrent requests, LDAP round trips and failures |
| `FedKeyLookup` | `user_key_allowed` and `get_rsa_key_ldap` in any number of sshd processes |
| `FederatedLogin` | the composition of the two: the page writes the directory that the lookup reads |
| `CheckTimeout` | `check_timeout` on characters and bounded integers |
| `Monitor` | the privileged process of a connection, with an arbitrary child |
| `UserAuth` | the unprivileged child and its client, over `Monitor`; `ImplementsMonitor` is the refinement |
| `Daemon` | the accept loop of sshd and its signal handlers |
| `Channels` | both ends of one channel |
| `BytePipes` | the abstract specification of a channel: three byte pipes; `PipesSpec` in `Channels` is the refinement |
| `RsaKeyServer` | the first key server, its timers, connections and client |
| `MCLoginPortal`, `MCFedKeyLookup`, `MCFederatedLogin`, `MCCheckTimeout`, `MCUserAuth`, `MCChannels` | values of the constants for TLC |
| `PortalProofs` | theorems about the directory and the login page |
| `FederatedLoginProofs` | theorems about the key lookup and about the composition |
| `MonitorProofs` | theorems about the monitor with an arbitrary child |
| `UserAuthProofs`, `LockstepProofs` | theorems about the pair of processes: the refinement, the invariant `Lockstep` and the steps of the child; the steps of the monitor and what follows |
| `DaemonProofs` | theorems about the accept loop |
| `ChannelEndProofs`, `ChannelsProofs` | theorems about channels: the lemmas on queues and on what each function does to one end; the actions, the invariant `ChannelInv` and what follows |

Definitions with a suffix (`Unlink_IfRefused`, `DirStore_Long`, ...) are mutants: the
definition that follows them with a plausible mistake in it. No specification uses
them; they show that the properties can fail.

### KeyDirectory

`dir` maps an account to its entry, `now` is the clock, and the history variable
`granted` collects every session ever stored. `DirStore(u, k, t)` stores text `k` with
the end of a session that began at `t`; `DirNext` allows any `t` up to `now`, because
`modify` and `add` read the clock before they write. `FedKeyLookup` takes `DirNext` as
its environment, so it sees every directory the login page can produce. `DirDelete` is
there because `delete.php` asks for it: the abstract directory loses entries, and the
lookup has to cope with that, although no deletion of this page reaches the server
(`portal_delete`).

### LoginPortal

A request goes through the places of `page`:

| `page` | Code |
|---|---|
| `new` | not arrived yet |
| `search` | `doit`, before `ldap_search` (`ssh_backend.php:146-156`) |
| `modify`, `add` | the function was chosen, the clock not read (`:22`, `:43`) |
| `ldap_modify`, `ldap_add` | before the write (`:29`, `:61`) |
| `show` | the rest of `index.php`, which reads the key to show |
| `delete` | `delete.php`, before `ldap_delete` |
| `done`, `closed`, `died` | the script ended, after `index.php`, after `delete.php`, or in `or die` |

`session_start()` locks the PHP session until the script ends: `SessionFree` lets a
request in only when no other request of its browser is active. `OpenPage` is the
head shared by both pages; a request without an identity provider keeps the user of
the old session, as in the code, where the redirection does not stop the script.
With `Faulty`, connections and searches may fail, writes may be lost, and the answer
to a write that was performed may be lost. Account names are sequences of tokens, so
that `get_remote_user` can be modelled by what it does to a name and a domain; it
keeps the domain only up to its first dot, so identities of organisations whose
domains begin alike share an account, and the runs use identities that do not.
`code` is the result of `anadir_usuario`; `began` and `failed` (the requests one of whose
LDAP calls failed) are history.

### FedKeyLookup

Each process of `Procs` is the privileged process of one connection, for one user. A
call goes through `ldap` (search sent), `attr` (the attribute loop), `append`,
`verify` and `unlink`, and back to `idle`. `exists` and `content` are the temporary
file of each user. `tmp_file` is the stream of a process: `linked` while its file
still has a name, `orphan` once someone has unlinked it, `null` when `fopen` failed.
Lines appended to an orphan are seen by no one. A line records who wrote it, when
that call began and when the timeout test let the key through; matching only looks at
its text.

`rsa_key`, `rsa_key2` and `timeout` are never initialised in the code. `Residue` says
what they may hold: zeros, other bytes (`Malformed`: comparing either way with the clock,
and assumed to be no text that `key_read` takes for a key), or what the same array held
in the previous call. That other bytes never happen to be a key is the assumption behind
`KeyProvenance`. The directory may list the attributes in any order of `AttrOrders`. A
failed LDAP call returns -1, which the caller ignores, so the call goes on with the array
as it is. When `ldap_result` itself fails, the code goes on to count the entries of a
message that was never assigned; `LdapFails` lets that find none or end the process.

`GraceAlarm` is the login grace alarm, which may end a process in any state;
`Leave` is the end of authentication, after which the alarm is off. The user's own
files are the constant `LocalKeys`; homes that do not exist or fail the StrictModes
test are the constants `Homes` and `SecureHomes`.

### FederatedLogin

A step is a step of the page, with the lookup unchanged, or a step of sshd (`Server`),
with the page unchanged; `Server` is `LookupNext` without its abstract directory. The
two machines' clocks are one variable here too.

### CheckTimeout

The clock becomes an `int` of `IntBits` bits (`ToInt`), is printed (`Decimal`), and is
compared by `strcmp` (`StrLess`) with what follows the last colon of the attribute
(`AfterLastColon`, a fold over its characters). `FedKeyLookup` compares numbers; this
module shows where that is what the code does.

### Monitor

`mstate` is the part of the monitor's life: `preauth` (the loop of
`monitor_child_preauth`), `keystate` (`mm_get_keystate`), `postauth`, `gone`. `permit`
holds the requests with `MON_PERMIT` in the current dispatch table. There is an action
for each handler of protocol 2, `Unexpected` for a request that is not permitted, and
`grace_alarm_handler`. `reqs` and `answers` are the two directions of the socket pair.
`ChildStep` lets the child send any well-formed request and read or ignore any answer:
what the monitor guarantees holds whatever the child does. A malformed request ends
the monitor in the code as an unexpected one does. Signatures are records of what was
signed by which key (`key_verify` is external). The history variables `granted` and
`found` record how the user got in and what `user_key_allowed` last found.

### UserAuth

`pc` is where the child waits: for a packet (`service`, `idle`), for the answer to one
of its questions (`Waiting`), or nothing (`try`, `export`). `authserv` is not answered,
so up to two requests are in the socket. `ctxt` is the child's `Authctxt`, `forced` its
copy of "there is a forced command", which it sets from the monitor's answer and
clears by its own rules (`auth_clear_options`); `userauth_finish` ends a request.
A client may send any packet of `Packets` at any time. After the hand-over `Rekey` and
`mm_terminate` stand for the user's process.

### Daemon

`loop` cuts a round of `server_accept_loop` at the places where a signal may get in:
`top` (before `received_sighup` is tested), `enter` (before `select`), `select`
(blocked), `awake`, `accept`. Signal handlers set flags and, in `select`, end the wait.
`startup_pipes` and `startups` are the code's; a pipe is closed when its child is
authenticated or dead. `drop_connection` keeps the integer formula of the code and lets
the random number be the smallest or the largest. A restart forgets the slots; the
history variable `mine` holds the children of the present daemon.

### Channels

`ch[e]` is the `Channel` of end `e` with the fields `nchan.c` and `channels.c` use, each
buffer as a number of units. A handler is an operator from a channel to a channel;
what it sends is collected in `tx` and put on `net` by `Store`; `err` records that a
branch for states "that cannot happen" logged an error. `Receive` is the dispatch of a
packet, `Poll` is `channel_output_poll`, `Select` is a round of
`channel_prepare_select`, `select` and `channel_after_select` with arbitrary results of
the system calls, `Reap` is `session_close_by_pid`. `taken` and `given` count what was
read from the source and written to the sink of the streams `in`, `out` and `err`.

### RsaKeyServer

`main` is the main thread, `timer` and `sweep` the chain of `threading.Timer`s and the
call of `timeout_check` that runs, `conn` the thread of each connection. A row holds
its age as the code computes it (`delta.seconds / 60`, which starts again every day)
and whether it really is too old. The stream of a connection is cut by `recv` anywhere,
also inside a name. `Limit + 1 < Day` is assumed: with a longer limit `delta > t` never
becomes true and no session would end.

## 3. What is checked

Properties and the hazards they are about:

* `OkCoversRequest`: a page that reports success stored the key it was given, for its
  user, with a timeout counted from after its arrival, whatever ran in between.
* `GrantedWasRequested`: nothing is stored that no request brought.
* `DirSpec` as a property of `LoginPortal`: refinement, with the identity mapping. It says
  that what is stored is an acceptable text with a deadline counted from a clock value of
  the past; it allows entries to go away.
* `RefusedOnlyByRace`: the page says -2 only when one of its own LDAP calls failed or when
  another browser stored a session for the same account.
* `EarlierOnlyIfOvertaken`: a write brings the end of a session forward only when another
  browser has stored its own since this request read the clock.
* `DeleteClosesSession`: what the page says of closing a session.
* `PagesEnd`: every page ends.
* `KeyProvenance`: an accepted key was held by the directory for that very user.
* `LinesHaveLiveWriter`: a key is left in the temporary file only by a dead process.
* `OpenSessionFound`: while a session is open its key is found, in whatever order the
  attributes come and whatever the arrays held.
* `FoundKeyIsAccepted`: a found key works while nobody unlinks the file.
* `AcceptedWhileOpen`: no key works whose session was over when the call began.
* `KeyWasBrought`: from end to end, a key that sshd accepts from the directory was
  brought to the page by a request for that account.
* `CallsEnd`: a call ends even if the directory never answers.
* `OpenUntilDeadline`: `check_timeout` is the comparison of numbers, for clocks and deadlines
  of one length and within the range of `int`.
* `GrantEarned`: whatever the child asks, the user who gets in named that user first, and
  gave the account's password or a signature on this session by a key that was the user's
  when last looked up; and `PermitRootLogin` allows it.
* `IdentityFixed`: no request, and no rekeying, changes the session id or the user.
* `TriesLimited`: no more attempts fail than `MaxAuthTries`.
* `NeverUnexpected`: sshd's own child never asks what the monitor does not permit at the
  moment it reads it.
* `Agreement`: the two processes, each with its own checks and copies, reach one verdict.
* `AllowedDuringRequest`: a key opens a session only if it was the user's at some time
  since the signed request came; the answer to an earlier query is not enough.
* `AuthEnds`: the grace time ends every connection that is not authenticated.
* `StartupsCounted`, `SlotsReturn`: the counter of unauthenticated connections counts
  them, and their slots come back.
* `UsedKeyAges`: a server key in use has an alarm running or remembered.
* `SighupSeen`: a daemon that keeps waking up acts on a SIGHUP.
* `InStep`: no packet is rejected, and no branch for impossible states is taken, at
  either end of a channel, for protocol 2 and 1.5.
* `NothingForFreed`: a channel number is free for reuse the moment it is freed.
* `WindowKept`: window, grants and data in flight, and buffers add up.
* `StatusBeforeClose`: the client learns the exit status before the channel closes.
* `PipesSpec`: refinement, the end of a stream reaches its sink after the last unit.
* `ChannelEnds`, `EndsAfterRefusal`: channels are freed at both ends.
* `AllAnswered`: every name received is looked up, in order, before the thread ends.
* `RemovedWhenOver`, `OldSessionsGo`: the sweep removes old sessions, all of them, and no
  others (but for one that is renewed between its `select` and its `delete`).
* `ServerEnds`: after the shutdown no timer or thread keeps the process alive.

| Run | Instance | Result |
|---|---|---|
| `portal` | 3 requests, 2 browsers, a user and the unset user, failures | passes, 765,781 states |
| `login` | page and lookup: 2 requests, 2 browsers, failures, a user and the unset user (an account with an insecure home and local keys), 1 connection, arbitrary arrays, a directory that need not answer | passes, 307,676 states |
| `lookup` | 2 processes with 2 calls each, 2 users (one without a home), arrays that hold arbitrary bytes or the previous contents | passes, 1,399,081 states |
| `timeout` | clocks 10 to 69, session of 30, three prefixes | passes, 10,890 states |
| `auth` | 3 users (root, one without account), 2 keys, 5 signatures, all methods, the second failure ends the connection | passes, 907,776 states |
| `daemon` | 3 clients that may come back, 1 socket, MaxStartups 1:30:2, protocol 1 on | passes, 251,657 states |
| `channels` | session, forwarding, forwarding over 1.5; windows of 2 units, 3 units of output | passes, 119,933 states |
| `keyserver` | 1 user, 1 connection, 2 messages, a day of 3 minutes, one failing sweep | passes, 151,427 states |
| `portal_delete` | `DeleteClosesSession` | violated |
| `lookup_expired` | `AcceptedWhileOpen` with one connection | violated |
| `auth_tries` | `TriesLimited` with `MaxAuthTries` 1 | violated |
| `channel_stalls` | `EndsAfterRefusal` | violated |

### What the violated runs show

* **Close** (`portal_delete`): `delete` computes `$dn` and passes `$uid` to
  `ldap_delete`, so the entry stays until it expires.
* **Expired session** (`lookup_expired`): `get_rsa_key_ldap` calls `check_timeout` after
  every attribute, with a `timeout` that is not initialised until its attribute has been
  read. When the key comes first, as slapd lists it, and the bytes in the array compare as
  a later time, the key is copied to `rsa_key`, and it stays there when the timeout that
  comes next has passed. `implementacion.tex:142-144` has the function return an empty
  string in that case.
* **Attempts** (`auth_tries`): `failures` is compared with `MaxAuthTries` before it is
  incremented, and with `>`, so the connection ends at failure `MaxAuthTries + 2`;
  `sshd_config.5` calls it the maximum number of attempts.
* **Lost window** (`channel_stalls`): when the client's standard output refuses a write,
  `chan_shutdown_write` throws away what was buffered without counting it in
  `local_consumed`. The comment at `channels.c:2017-2022` explains why data that are
  dropped must be counted; data that arrive later are, those in the buffer are not. If
  they were the whole window, sshd can never send the rest of the output, hence neither
  EOF nor close, and the channel stays open on both sides until the connection ends.

Other behaviour that the models show and no run is about: with two browsers both first
visits may search before either adds, and the second page then reports a failure (this is
the race that `RefusedOnlyByRace` leaves room for); a request may read the clock, be
overtaken by one of another browser that extends the session, and write its older deadline
over it (`EarlierOnlyIfOvertaken`); a call reads every line of the temporary file, so also
those of other connections of the user and of processes that died before `unlink`, without
looking at their deadlines again (`LinesHaveLiveWriter` says whose lines these can be);
past the range of `int` the clock prints with a minus sign and no session ends; a SIGHUP
that comes between the test of its flag and `select` waits for the next connection or
signal, and `SighupSeen` makes no claim about a loop that does not wake up again; a
restart forgets unauthenticated children, which then count no more towards `MaxStartups`,
and a SIGTERM that arrived together with the SIGHUP; the sweep of the first key server
deletes a row by name, also one renewed since it read the table, which `RemovedWhenOver`
leaves out.

### Bounds

`MaxTime`, `MaxCalls` and `LastTime` bound the clock and the calls of a process; the
sets of requests, processes, users and keys are small. `SessionTime` is 1. In `portal` and
`lookup_expired` the clock runs to 1, which is enough for a session to be opened and to
expire, and for a clock value to be stale when it is used. In `lookup` and `login` the
clock stands still, which leaves room for two calls of each connection, failures and
arbitrary arrays; no session expires in these two runs, and their properties hold for
clocks that run by the theorems of section 4. Two requests are enough for the races of
`doit`; three are needed for one write to be overtaken while an entry exists. Two processes
show one connection unlinking, or adding to, the file another one is using, and two calls
of a process let an array hold the key of the previous call (in `login`, with one call, it
holds bytes that are no key). The runs list the attributes as slapd does, the key first;
the theorems hold for every order.
`CheckTimeout` scales ten-digit clocks to two digits and 32 bits to 8; its clocks, 10 to
69, neither gain a digit nor leave the range of `int`.

In `auth`, `MaxAuthTries` is 0 (1 in `auth_tries`), so that the limit is reached at the second failure and
a query, a failure and a success still fit into one connection; the signatures include
one made for another session. `PermitRootLogin` is `forced-commands-only`, the value
whose verdict depends on the state both processes keep about the key. In `channels`
(`Window`, `MaxPacket`, `Volume`, `MaxIO`) the output is more than a window, so that the
window is exhausted and given back while the two ends close; what one call transfers is
a unit. With windows of two units a window is given back when half of it is consumed; the
other condition of `channel_check_window`, three packets, is not reached. In `daemon` three clients compete for two slots, and a client that is gone may
return, so that runs are unbounded. In `keyserver` (`Day`, `MaxFails`, `MaxSent`) a day is
long enough for a missed session to look young again, and two messages for two commands
in one segment. Its session limit is shorter than a day, as `RsaKeyServer` assumes.

Runs use symmetry (in processes, requests, browsers and keys) only where no liveness
property is checked; `DirSpec` and `EarlierOnlyIfOvertaken`, in `portal`, are properties of
single steps.
Deadlock is not checked: requests, processes and channels end, and the clock is bounded,
so stopping is normal.

### Fairness

* `PortalSpec`: weak fairness of `Step(r)`. A PHP process that runs is scheduled, and
  each LDAP call returns with an answer or an error (with `Faulty`, either). A server
  that keeps a connection open and never answers is excluded here: the code sets no
  time limit, so `PagesEnd` would not hold.
* `LookupSpec`: weak fairness of the steps a process takes by itself and of the grace
  alarm. No fairness is assumed of `LdapSearch` and `LdapFails`, as `ldap_result` is
  called without a time limit. The alarm is armed unless `LoginGraceTime` is 0 or sshd
  runs in debug mode (`sshd.c:1765-1767`); `CallsEnd` is about servers where it is.
* `LoginSpec`: the fairness of both.
* `UserAuth`: the two processes are scheduled, and the alarm strikes in the end, so
  `AuthEnds` too presumes `LoginGraceTime` > 0; nothing is assumed of the client.
* `Daemon`: the loop runs, alarms strike, and a child authenticates or dies (its grace
  time ends). No signal and no connection need ever come, which is why `SighupSeen` is
  conditional. `KeyRegenerationInterval` is taken to be positive: with 0 the key of
  protocol 1 is never regenerated (`sshd_config.5:433`), and `UsedKeyAges` is not meant.
* `Channels`: packets are handled and loops go round; the programs at the two ends sooner
  or later end, and read or refuse what they are sent. A program that does neither may
  block its channel for ever, by design.
* `RsaKeyServer`: threads run and the clock goes on; a silent connection is ended by
  `settimeout(60)`.

## 4. What is proved

The theorems hold for all sets of requests, browsers, users, keys, processes, session
ids, connections, listeners, options, windows, packet sizes and volumes of data. They
assume `DirAssumption`, `PortalAssumption`, `LookupAssumption`, `MonitorAssumption`,
`UserAuthAssumption`, `DaemonAssumption` and `ChannelAssumption`, each of which TLC
evaluates in the runs of the modules that extend the one declaring it.

The directory and the login page:

* `DirSafety`: `DirSpec => [](DirTypeOK /\ SessionBound)`. `SessionBound` is inductive
  together with the types.
* `PortalSafety`: `PortalSpec => [](PortalTypeOK /\ OkCoversRequest)`. The invariant
  `PortalInv` adds `RequestInv`: a request that is to write holds an acceptable text,
  its clock value is not older than its arrival, and code 1 is only seen after the
  write. Without it, a request could enter `ldap_add` with any `hoy`.
* `PortalImplementsDirectory`: `PortalSpec => DirSpec`. Every action either leaves the
  directory alone or is a `DirStore` whose `t` is at most `now`, which is what
  `RequestInv` knows of `hoy`.
* `PortalSessionBound`: from the two theorems above.
* `PortalRequested`: `PortalSpec => []GrantedWasRequested`. Only the two writes add to
  `granted` (`NewIsRequested`), and what a request brought does not change once its
  write is over (`SettledStays`): its user is copied when it arrives, so a later request
  of the same browser cannot change it.
* `PortalTypes`: `PortalSpec => []PortalTypeOK`.
* `PortalSessionLock`: PHP's lock on a session keeps two requests of one browser from
  being under way together, for any number of browsers and requests.
* `PortalRefusedOnlyByRace`: `PortalSpec => []RefusedOnlyByRace`. The invariant `RaceInv`
  follows a request from its search to its write. A request that is to modify has an entry,
  since no step of the page takes one away (`EntriesStay`). A request that is to add finds
  none, unless its search failed or a request of another browser has stored one since
  (`Raced`): one of the same browser would have been under way with it, against the lock. Once
  a request is raced it stays so (`RacedStays`), because a stored request keeps its account
  and its key.
* `PortalEarlierOnlyIfOvertaken`: `PortalSpec => EarlierOnlyIfOvertaken`. Every entry was
  stored by a request, with that request's clock value (`PortalRequested`). `TurnInv` says
  that a request of a browser begins after the earlier ones of that browser read the clock,
  so a write that is behind the entry it replaces is behind a request of another browser.

The key lookup and the composition:

* `LookupSafety`: `LookupSpec => [](LookupTypeOK /\ KeyProvenance /\ LinesHaveLiveWriter)`.
  `LookupInv` follows a key on its way: what is in `entry`, `rsa_key2`, `rsa_key` and
  the file is either no key or one the directory held for the process's user
  (`ProcTraced`, `FileTraced`); an entry is there while its attributes are visited
  (`LoopInv`); and an open named stream has a file (`StreamInv`), without which an
  appended line could appear in a file that does not exist. `LookupTypes` and
  `LookupLinesLive` state the other two conjuncts by themselves.
* `LookupAccepts`: `LookupSpec => []FoundKeyIsAccepted`. `AppendedInv` says that a process
  about to read the file it opened, which nobody has unlinked since, finds its own line
  there. Other processes of the user append to the file, read it and die in between;
  `OthersKeep` says that all they can take away from a process is the name of its file.
* `LookupFindsOpen`: `LookupSpec => []OpenSessionFound`. `VisitedInv` says, of every order in
  which the attributes may come, that an attribute which is no longer in the list to be
  visited has been copied: `timeout` is the entry's, or `rsa_key2` is. In the last round both
  are, so while the deadline is ahead that round copies the entry's key to `rsa_key`,
  whatever the rounds before it copied. There is no theorem for the other direction: an expired session may be
  found, as `lookup_expired` shows.
* `LoginBrought`: `LoginSpec => []KeyWasBrought`, for every `Residue`. The steps of sshd leave the directory alone (`ServerReads`), so the page's invariants hold
  in the composition; a step of the page is a `DirNext` step (the refinement), so the
  lookup's invariants do too. The key of an accepted line leads to a stored session
  (`KeyProvenance`) and from there to a request (`GrantedWasRequested`).

Authentication:

* `MonitorEarned`: `MonitorSpec => []GrantEarned`. The inductive invariant says that a
  key in `key_blob` was found for the user (or is trusted for the client that is kept
  with it), that a name is there only for a valid account, that each phase lets only its
  own requests through (`Phases`: no key export before the verdict, no lookup after it),
  and that a signature was over a session id that is set (`Bound`). It holds for every sequence of requests, those no sshd sends
  included.
* `MonitorKeepsIdentity`: `MonitorSpec => IdentityFixed`; `pwnam` finds `attempt` set, and
  `sign` the session id. `MonitorTypes`: `MonitorSpec => []MonitorTypeOK`.
* `PairImplementsMonitor`: `Spec => ImplementsMonitor`. Every step of the child sends at
  most one request and reads at most one answer; `AsksWell` says that what it works on
  is a packet whose fields make every request it may send well formed. By itself it says
  little; it carries what is proved of the monitor over to the pair.
* `PairEarned`: `Spec => []GrantEarned`, from `PairImplementsMonitor` and `MonitorEarned`.
* `PairTriesBounded`: `Spec => [](ctxt.failures <= MaxAuthTries + 2)`, the limit that the code
  keeps where `TriesLimited` fails.
* `PairLockstep`: `Spec => []Lockstep`, from which follow `PairNeverUnexpected`,
  `PairAgrees`, `PairAllowedInTime`, `PairKeepsIdentity` and `PairTypes` (`NeverUnexpected`,
  `Agreement`, `AllowedDuringRequest`, `IdentityFixed` and `TypeOK`). None of the five is
  inductive: whether the monitor expects the next request depends on what the child has
  seen of the answers to the earlier ones. `Lockstep` has one clause for each place of the
  child (`Conversation`). It says which question is in the queue or which answer is on its
  way, what the monitor permits, who the user is in both processes, and whether the
  monitor has reached its verdict. `authserv` has no answer, so up to two requests may be
  queued: `Served` says that the methods are permitted, or will be once it is taken.
  `Judged` says that an answer the child has not read yet already decides for both, which
  is why their separate checks on root, forced commands and the account give one verdict.
  `AtVerify` says that the key of the request was among the user's keys at some moment of
  that request (`held`), whatever an earlier query found. `UserAuthProofs` has the steps of
  the child, `LockstepProofs` those of the monitor.

The daemon:

* `DaemonInvariant`: `Spec => []DaemonInv`, with `DaemonTypes`, `DaemonCounts`
  (`StartupsCounted`) and `DaemonReplacesKeys` (`UsedKeyAges`). `StartupsCounted` needs
  that only forked connections have a slot (`SlotsForked`) and that a pipe `select`
  reported is still readable when the loop closes it (`ReportStands`): the counter goes
  down once for each reported slot. `UsedKeyAges` needs that a key given to a child is
  marked as used (`KeyInv`).
* `DaemonBound`: there are never more unauthenticated connections of one incarnation of
  sshd than `MaxStartups`, from the count and the number of slots.

Channels:

* `ChannelInvariant`: `Spec => []ChannelInv`, from which follow `ChannelInStep`,
  `ChannelNothingForFreed` and `ChannelStatusBeforeClose` (`InStep`, `NothingForFreed` and
  `StatusBeforeClose`). None of the three is inductive: whether a packet is welcome depends
  on what was sent before it and is still on its way. `ChannelInv` therefore relates each
  queue, of any length, to the states of the half-channels at its two ends (`Dir`). In
  protocol 2 (`Dir20`) a close is the last packet of its queue and its sender has
  `close_sent`; an end that has got it has an empty queue before it; and no stderr follows
  the end of the file. In protocol 1.5 (`Dir15`) an ieof is followed by nothing but an
  oclose, each is sent once, and the states say which of the two are sent and which are
  received. `Answered` says that the confirmation comes first and once. A channel is freed
  when both halves are closed and, in protocol 2, both closes were exchanged, so its queue
  is empty. `Command` ties the session to its command: the guard `detach` stays at "wait"
  until the command has been waited for, which keeps `close_sent` away until the status is
  in the queue before it.
* The proof goes by functions. `Turn` is the invariant as one end sees it in the middle of
  a handler, with the packets the handler has collected so far. There is a lemma for each
  function of `nchan.c` and each step of the loops of `channels.c` (`ReadTurn`,
  `WriteTurn`, `StderrTurn`, `WindowTurn`, `CollectTurn`, `PollTurn`, `HandleTurn`, ...);
  a handler is their composition. `OpenStep` then carries the clauses that are about the
  pair over an action of an open end.

Only model-checked:

* `PagesEnd`, `CallsEnd`, `AuthEnds`, `SlotsReturn`, `SighupSeen`, `ChannelEnds`,
  `OldSessionsGo` and `ServerEnds` are liveness properties and need fairness.
* `OpenUntilDeadline` is about a recursive function on digits, and `WindowKept` and
  `AllAnswered` are about sums and orders over queues of any length; they need induction
  over data. The type invariant of `Channels` bounds its windows and rests on `WindowKept`.
* `PipesSpec` compares what was read from a source with what was written to its sink; the
  difference is the sum of the data in the buffers and in a queue of any length, so it needs
  induction over data too.
* `DeleteClosesSession`, `AcceptedWhileOpen`, `TriesLimited` and `EndsAfterRefusal` do not hold.
* The properties of the first key server have no proof yet.

## 5. What is not modelled

* Cryptography, key parsing, sockets and packet formats; the key exchange but for what it
  asks of the monitor; the packet layer, which is taken to deliver in order.
* Protocol 1, but for its channels (1.5) and its server key in the daemon; keyboard-
  interactive, PAM, GSSAPI, BSD auth and S/Key, which are options of the build.
* Terminals, X11, agent and dynamic forwarding; several channels at a time (channels share
  no state but the table of numbers, which `NothingForFreed` is about).
* The upstream clients, PAM trial programs, and the unmodified copy of OpenSSH.
* The scripts `webservice/*.sh`, which nothing calls, and `ssh/useradd`, a page with one
  remote command and no state.
* The contents of the user's own key files are a constant. Memory safety of the
  fixed-size arrays is outside the model: texts are assumed to fit. The size of the
  descriptor table is not modelled.
* A second interrupt during the shutdown of the first key server, and a sweep that takes
  longer than a minute.

OpenSSH is a large program; what is mapped is what this project changed, what decides
who gets in, and what is concurrent. The rest is file transfer, key tools, algorithms and
portability code.
