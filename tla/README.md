# A formal model of PuRestJson

PuRestJson is a library of Pure Data objects for web services: `[rest]` and
`[oauth]` send HTTP requests, `[json-encode]`, `[json-decode]` and `[urlparams]`
build and take apart what is sent. This directory holds TLA+ models of its code
in `src/src`, the TLC runs that check them on small instances, and proofs of
theorems about them for all instances, checked by TLAPS.

## The system

| part | source | state | operations |
|---|---|---|---|
| HTTP request machinery | `inc/ctw.c` | `struct _ctw`: the byte `locked`, the thread, two curl handles, the strings of the request, its options, the mode, `exit_thread` | start a thread for a request, run libcurl, write what arrives to memory, a file or the outlet, report, cancel, free |
| `[rest]` | `rest.c` | the same and the login data of CouchDB | commands (GET, PUT, ...), settings, `mode`, `init` (with login), `cancel` |
| `[oauth]` | `oauth.c` | the same and keys, tokens, the signing method, an RSA key | commands, `method`, `init`, `cancel` |
| key-value store | `inc/kvp.c` | a uthash table of pairs, each with a value or a linked list of values | add, add to array, free |
| `[json-encode]` | `json-encode.c` | a store | `add`, `array`, `clear`, bang, `read`, `write` |
| `[urlparams]` | `urlparams.c` | a store without arrays | `add`, `clear`, bang |
| `[json-decode]` | `json-decode.c` | none | output of one JSON value as lists |
| strings, lists of strings | `inc/string.c`, `inc/strlist.c` | none | create, free, remove backslashes |

**How the parts interact.** `rest.c` and `oauth.c` include `ctw.c`, and their
handlers write the fields of `struct _ctw` before they start a detached worker
thread that reads them. Pd calls handlers while it holds `sys_lock`. A worker
takes `sys_lock` to send something out of an outlet, and what the patch has
connected there runs inside that call, on the worker's thread: it may send
messages back to the same object. libcurl calls `ctw_write_mem_cb` on the worker.
`json-encode.c` and `urlparams.c` include `kvp.c`, the first with `ARRAY` defined.

**What is hard.** Everything that concerns a request is shared by Pd's thread and
by one worker or more without any lock but `locked` and `sys_lock`, and `locked`
is given up before the result is reported; a thread is cancelled asynchronously
(on Windows: by a flag it polls); the object is deleted under a running thread;
libcurl fails, or waits for ever. In the store: pointers into lists that are
freed while other messages go on. What can go wrong is listed, at its line, under
`hazards` in `PROJECT.json`.

**What makes the parts correct.**

- machinery: one request at a time owns the shared fields; it works with its own
  body, options and handles; it reports its own outcome and its data once; it
  ends when it is cancelled or times out; it gives back the lock, `sys_lock` and
  its handles on every path;
- store: it behaves as an ordered map from keys to values and arrays, and frees
  what it no longer holds, once;
- `[rest]`: the cookie and the base URL belong to the last `init`; a login is
  reported whatever becomes of it;
- `[oauth]`: no request without complete credentials; key and method agree;
- JSON: what is written can be read again; `[json-decode]` outputs every member.

## The modules

| module | what it is |
|---|---|
| `Ctw` | the machinery and the handlers of `[rest]` that drive it |
| `CtwProperties` | what should hold of it |
| `CtwProofs` | theorems about it: for any patch, and for one that waits for the thread of a request to end |
| `Rest` | `[rest]` with base URL, login and cookie: `Ctw` with a second way through it |
| `RestProperties`, `RestProofs` | what should hold of it, and theorems about it |
| `OAuth` | `[oauth]` with account, signing method and RSA key: `Ctw` under another object |
| `OAuthProperties`, `OAuthProofs` | what should hold of it, and theorems about it |
| `Strings` | `string_remove_backslashes` and `rest_extract_token`, character by character, and the `strtok` they share, with properties |
| `StringsProofs` | theorems about both |
| `Store` | what the key-value store promises |
| `Kvp`, `KvpProofs` | the store as it lies in memory, its properties and the mapping to `Store`; theorems about it |
| `Json` | JSON values and their texts, the numbers of C and Pd |
| `JsonEncode` | `[json-encode]`: `Kvp` filled by messages and files, and printed |
| `JsonDecode` | `[json-decode]`: the events a JSON text is turned into |
| `JsonProperties` | what should hold of the two, and of the one feeding the other |
| `JsonProofs` | theorems about the two: the store is that of `Kvp`, and what is in it or in a file is encoded and decoded as it should be |
| `UrlParams` | `[urlparams]`: `Kvp` without arrays, and its encoding of bytes, with properties |
| `UrlProofs` | theorems about it |
| `SequenceLemmas` | what the proofs need of numbers and sequences: induction, recursion, concatenation |
| `MCCtw`, `MCRest`, `MCOAuth`, `MCStrings`, `MCKvp`, `MCJson`, `MCUrl` | values of the constants for TLC |

Definitions whose names begin with `Bug` are mutants: they are no part of the
specifications. `PROJECT.json` pairs each with a property, and TLC finds that
property violated when the mutant takes the place of the definition after it.
`map` in the same file gives the lines each definition stands for.

### Ctw

A worker is a member of `Workers`; `pc[w]` follows `ctw_exec` through its
steps, one for every access to a shared field that another thread could come
between:

    unborn -> created -> easy -> prepare -> perform <-> callback, mode, stream,
      streaming, error, reporting -> finished -> (last_error, last_reporting ->)
      leaving -> performed -> output -> report -> data -> status -> dispose -> dispose_multi -> ended

with `aborted` for a cancelled thread and `exiting` for the Windows way there.
`locked`, `mode`, `clearCb`, `exitThread` and `thread` are the fields of those
names (`thread` is `common->thread`). `easyHandle` and `multiHandle` say *whose*
handles the two pointer fields hold, `easy` and `multi` what has become of the
handles each worker created: this is how a worker that uses another's handle, or
one that was cleaned up, shows. `parameters` says whose command wrote the body,
and `parametersLen` whether it is still allocated: `string_free` frees the text and
leaves the pointer, so a worker's name with `parametersLen = FALSE` is freed memory.
`req[w].body` is the one a request sends; it is `Unset` when there was no memory to copy
it for an upload, because `ctw_prepare_put` then returns before it sets `CURLOPT_READDATA`
(`ctw.c:317`). What libcurl and `ctw_read_mem_cb` make of that is undefined: `UploadOwned` and `OwnBody` say nothing about it.
`settings` is the set of options that are set in the object; `req[w].asked` is
the set when the command was issued, `req[w].used` the one it was prepared with.
`sysLock` is the holder of `sys_lock`. A message handler is one step, except
`cancel` and the deletion of the object: they are split where a worker that
does not hold `sys_lock` can come between (`handler`). A handler may run when nobody
holds `sys_lock` or when the worker that holds it is inside an outlet call.

libcurl is its contract: inside `curl_multi_perform` a chunk arrives, the
response completes with a status, the transfer fails, or the timeout expires;
the write callback returning another size than it was given ends the transfer
with an error.

Left out: contents of bodies and headers (a chunk is its number, an option is
set or not), header lists, the upload callback, a login (it is in `Rest`),
`[oauth]`'s signature (it is in `OAuth`). The final empty
symbol that streaming mode sends before its bang carries no chunk and is not counted.

Bounds: one worker per accepted command, so two workers are two successive
requests of one object, which is what every hazard of this code takes: what one
request leaves to the next, and what the report of one does to the other.
`MaxChunks` bounds the body; two chunks are enough for a body that is split by
a change of mode and for its order. `Messages`, `Options` and `Faults` say what the
patch sends and what may fail in a run. `Delays` restricts the patch: it sends a command
only when the last thread has ended (not merely when the object accepts one).

Fairness: a handler that has begun goes on; so does a worker that is not waiting
for the network; a timer that has expired stays so until libcurl looks. Strong
fairness is assumed of taking `sys_lock`, because Pd gives it up in every cycle of its
scheduler and hands it on, and of returning from an outlet, because the patch does not
loop for ever. Nothing is assumed of the server: it may never answer.

### Rest

`Rest` extends `Ctw` and composes its actions: a command also copies the base URL
(`RestCommand`), preparing a request also sets the cookie (`RestPrepare`), the
deletion also frees what `[rest]` holds (`RestFrees`), and the rest is unchanged
(`Shared`, `Message`). What is new:

- `InitUrl`, `InitLogin`: `init` frees the options, the body, the base URL and the cookie
  (`Forget`), then sets a new base URL. With four arguments it starts a
  thread, as a command does. `baseUrl` names the server the pointer leads to, and
  `baseUrlLen` tells whether its text is allocated: an empty `init` leaves the one without
  the other, and the next command reads freed text (`NoFreedUrl`, below).
- `InitStuck`: an argument of `init` that is no symbol. `ctw_set_param` takes `sys_lock` to
  say so, but a handler runs under it already, and the lock is not recursive: the handler
  never returns (`HandlersReturn`, in the tables below; no run claims it).
- the login thread, `rest_get_auth_token`: `pc` goes `authorise -> created`, then through
  the steps of `Ctw`, then `performed -> auth -> auth_bang -> auth_token -> dispose`,
  where `dispose` and what follows are again those of `Ctw`. It unlocks the object
  (`LoginCleanup`) before it reads the result (`ReadAuth`), reports success
  (`AuthBang`), and stores the cookie (`StoreToken`), in this order.
- the line of the answer with the cookie: libcurl hands it to the same callback as
  the body (`ReceiveHeader`), which keeps it in blocking mode, sends it out
  in streaming mode, and refuses it when the object is being deleted.

`visit[w]` says for each worker whether it logs in, to which server it goes, which
login's cookie it sends, and what became of the header. A cookie is the worker
whose login brought it. `session` is history: the login of the last `init`.

Left out: how the cookie is cut out of the header (it is in `Strings`); the other headers
of an answer (they take the same way and are not read); the reentrance of the patch while
the bang of a login, which is sent without `sys_lock`, is being served.

Bounds: two workers are a login and what comes after it (a request, or another login); two
servers let a cookie reach the wrong one. `MaxChunks = 0` leaves the body of an
answer to the runs of `Ctw`: the login does not read it.

Fairness (`RestFairSpec`) is that of `Ctw`, with the steps of a login: a worker that does not
wait for the network goes on, one that waits for `sys_lock` gets it in the end, a
timer that has expired is noticed, a handler that has begun goes on. The header of an
answer, like its body, may never come.

### OAuth

`OAuth` composes the same actions of `Ctw` under another object. There is no login; in its place
`oauth_command` signs the request on Pd's thread, and the signed texts (`complete_url`,
`parameters`) wait in the object until the worker prepares the request. `Signature` is
the record of what liboauth is given; `signature` is the one the texts in the object were made
with, `sent` the one that reached libcurl. `string_free` again frees texts and leaves pointers:
`baseUrl` and `rsaKey` say which text a pointer leads to, `baseUrlLen` and
`rsaKeyLen` whether it is still there, and `Freed` in a signature is freed text.

- `InitAccount`, `InitNothing`: an `init` with three or five arguments, and one without any
  or with a wrong number, which frees the URL and keeps everything else.
- `Method`, `MethodRSA`, `MethodFails`: `oauth_method` frees the RSA key before it looks at
  its arguments. `KeyText` puts the words of a key together again, as `oauth_set_rsa_key`
  does, with newlines where PEM has them.
- `OAuthCommand`, `OAuthPrepare`, `OAuthFrees`: the command, its preparation, the deletion.

`account` and `chosen` are history: what the last `init` and the last `method` message asked
for, and `asked` is what they were when the last command was issued.

Left out: what a signature is; arguments of `init` that are no symbols (as `InitStuck` in `Rest`).

Bounds: two accounts and two workers, so that a second request can be issued with a new account
while the first is being reported; one RSA key of eight words, with two lines of
`-----` and two lines of data.

### Strings

Both functions work on a copy of their text that `strtok` cuts by writing NUL where a
delimiter was, and continue from `position`, the one static variable in which `strtok` keeps its
place. Each call of `strtok` is a step, because the two functions run on two threads:
`string_remove_backslashes` on Pd's, `rest_extract_token` on the worker of a login, which holds
no lock. `Token` and `Cut` are `strtok`; a text is a sequence of characters, with
the name of the header and a word as one character each. `Serial` says that a thread begins
only when no other is at it: with `Serial = FALSE` every property of the run is violated (below).

Bounds: all texts of up to four characters out of backslash, comma and a letter; answers with lines
before and after the cookie, with two cookies, without one, and empty.

### Kvp

`data` is the hash table in the order `HASH_ITER` visits it, `pair` the
`struct _kvp` of each key, `memory` the `struct _v` at each address, and
`allocated` the addresses in use. `kvp_val_create` gets any address that is not
in use, also one that has just been freed; a write through a pointer that was
left behind reaches whatever lies there. Strings and numbers are not told
apart, and memory does not run out (`Nodes` bounds the run: an
`add` needs one free address more than there are values). `Arrays` chooses between
the build of `[json-encode]` and that of `[urlparams]`. `Mixes` says whether the
patch sends `array` for a key that holds a single value.

`Store` is an ordered map from keys to a value or a sequence of values. `Entry`, the
mapping, is what a bang reads: the value of the pair, or the list from its first
value to its end.

### Json, JsonEncode, JsonDecode

json-c parses and prints; a text is modelled as the value it is the JSON of (`Json(v)`), a word,
nothing, or something in braces that is not JSON. What is kept is what happens on the way:

- numbers: an integer is clamped to `int` (`Clamped`); a `t_float` holds every whole number up to `Exact`,
  and above it those that are multiples of a spacing that doubles with every power of two (`Spacing`, `Rounded`); a JSON double becomes a
  `t_float` and, if that is whole, an `int` (`ToFloat`); a `t_float` outside `int` is converted to
  whatever the platform gives (`Cast`). Numbers that are not whole are multiples of `1 / Unit`.
  The run scales `IntMax` down to 7 and `Exact` to 4, with `Unit = 2`;
- nesting: json-c reads up to `Depth` arrays and objects inside one another (`Nests`). The build
  has 31, because json-c reads 32 levels with the values in the innermost one; the run has 3;
- backslashes: `[json-decode]` parses a text only after `string_remove_backslashes`, and so does `[json-encode]` with a stored
  text in braces (`json-decode.c:199`, `246`, `json-encode.c:92`; a file is parsed as it is).
  In JSON a backslash begins an escape, and the function keeps a single one; where JSON escapes a backslash there are
  two in a row, of which it keeps one. The text is another then, or not JSON at all. `Cleaned` is the function:
  the constant `Merged` says what becomes of a text that it changes (`Altered`), `Escaped` and `Backslashed`
  which words JSON has to escape and which of them have a backslash. `Strings` has the function character by
  character. The run has a word that ends in a backslash: in `["path\\",4]` the quote that ends the string is escaped when the backslashes are merged,
  and json-c reads no JSON.

Left out: text after the end of a JSON value, which json-c ignores, an empty array or object in the innermost level, which it still reads, and JSON that is not written
as json-c writes it (blanks between members, escapes of other characters).

`JsonEncode` extends `Kvp`: `add` and `array` are its actions on the values that `kvp_val_create`
makes (`Kept`). A `read` clears the store and then adds member after member (`BeginRead`, `Load`),
each addition a step, as each is a step of `Kvp`. A `write` puts the text of a bang
(`Encoded`) into `file`. Bounds: three addresses, that is two values and one being replaced; files with a string that ends in a
backslash and a number that is not whole, with an array, null and a whole double as members, with an array inside an
array, and with an array that `string_remove_backslashes` makes unreadable; `write` may
replace any of them with what the store holds. `JsonAssumption` says that `Values` are what a `struct _v` holds (`IsStored`), that the members of the
objects in `Files` have keys of the store, no two the same, and that their arrays are sequences (`WellFormed`),
which is what json-c makes of any text. A read whose members are outside `Values`
is left out: text in an array nests one level deeper with every write and read.

`JsonDecode` has no state: `Decoded(t)` is the sequence of events at the outlets for text `t`. `jdec_output` and
`jdec_output_array` call each other for what is nested in arrays; here `Output` is a function on
the nested values (`Nested`), defined by what it is for the members of an array. `JsonProperties` connects
the outlet of the one object with the inlet of the other. Left out: how a message that is a list is
put together as one text.

### UrlParams

Keys and values are sequences of bytes here, `Char` gives each the sign the C compiler gives it, and
`EncodeByte` shifts and masks that. `Output` and `OutputLen` are the text of a bang and
the size of its buffer, which the code computes in two passes over the store. `isalnum`
of a negative `char` is taken as false, which holds for glibc. The run has 51 values
of five bytes, which together hold every byte from 1 to 255, and the empty one; one key holds the two separators;
two addresses are one value and the one that replaces it.

## The runs

| run | module, configuration | states | what it shows |
|---|---|---|---|
| `ctw_reports` | `MCCtw`, `CtwReports.cfg` | 7.2 million | POSIX; a patch that waits for the last thread, and sends PUTs, cancels, modes, settings, `init` and deletes; threads, libcurl, memory and servers fail. A PUT uploads its own body, or one that a cancelled request left (`UploadOwned`, if there was memory for the copy); a worker uses handles that exist (`HandlesLive`), and one that is not cancelled gives them back (`HandlesReclaimed`), and `sys_lock` too (`SysLockReturned`), reports its own outcome (`EveryRequestReports`) and its data once and in order although the mode changes meanwhile (`DataDelivered`) |
| `ctw_windows` | `MCCtw`, `CtwWindows.cfg` | 155 thousand | Windows; same patch, with cancels and timeouts: the lock is right although the cleanup handler runs twice (`LockHeld`), no thread dies inside `sys_lock` (`SysLockHeld`), and a cancel ends the request (`CancelEnds`) |
| `rest_lock` | `MCRest`, `RestLock.cfg` | 4.4 million | Any patch: commands, logins, cancels, mode, settings, deletion, also while a result is still being reported; `pthread_create`, `curl_easy_init`, `fopen` and connections fail. The lock is held exactly while a thread works on a request or a login (`LockHeld`), by one thread (`LockGuardsRequest`), which uses its own handles while libcurl runs (`OwnTransfer`) and the options it was issued with (`SettingsFrozen`) |
| `rest_liveness` | `MCRest`, `RestLiveness.cfg` | 47 thousand | A server that may stay silent for ever, also to a login: a cancelled request ends (`CancelEnds`), and so does a request or a login with a timeout (`TimeoutEnds`) |
| `rest_login` | `MCRest`, `RestLogin.cfg` | 1.1 million | A patch that waits for the last thread, with logins, changes of base URL, cancels, changes of mode, deletion, failing threads, libcurl, network, memory and servers: a cookie goes only to the server that gave it (`CookieOfServer`), and, once the login was reported, with every request until the next `init` (`CookieIncluded`); the login posts its own credentials (`OwnBody`) and gives back its handles on every path (`HandlesReclaimed`) |
| `oauth_sign` | `MCOAuth`, `OAuthSign.cfg` | 1.8 million | Any patch: `init`, `method`, commands, cancels, deletion, also while a result is still being reported; threads fail. What libcurl sends was signed with the account, the method and the key that were set when the command was issued, the key as PEM has it (`SignedAsAsked`), and it is the command's own body (`OwnBody`) |
| `json_store` | `MCJson`, `JsonStore.cfg` | 171 thousand | Through `add`, `array`, `clear`, `read` and `write`, the lists in memory implement `Store` (`StoreImplemented`), and every value in use belongs to one key (`MemoryOwned`). A JSON object the store can represent (`Plain`) is encoded again as it was read, and nothing else is (`ReadBack`); `[json-decode]` shows what was added, if no backslash is escaped, no number is too large and no other text is in braces (`DecodeShowsStore`), and ends each value of a series that is still JSON without its backslashes with a bang (`DecodeSeries`) |
| `urlparams` | `MCUrl`, `UrlParams.cfg` | 23 thousand | Over all bytes, a server decodes what was added (`ServerReadsStore`), and the output fits its buffer (`BufferFits`) |
| `strings` | `MCStrings`, `Strings.cfg` | 52 thousand | Without concurrent use: backslashes before commas go, all others stay (`TameTextsCleaned`), within the buffer (`CleanedFits`); the cookie is found among other lines (`CookieFound`) |
| `ctw_delete` | `MCCtw`, `CtwDelete.cfg` | violation | finding: the thread runs on with the object freed |
| `rest_cookie` | `MCRest`, `RestCookie.cfg` | violation | finding: a request sent by the bang of a login goes without the cookie |
| `kvp_array` | `MCKvp`, `KvpArray.cfg` | violation | finding: a value added to an array after a single value was replaced is lost |

`CtwReports.cfg`, `RestLock.cfg` and `RestLogin.cfg` turn deadlock checking off: in streaming mode a cancel may end the
worker while it holds `sys_lock`, and then Pd stops, and `InitStuck` stops it in `RestLogin.cfg` (both
are in the tables below). In the other runs the model never stops: `Idle` (in `Strings`, `Done`) is
the state in which everything is over.

Why the conditions: `ctw_reports` and `rest_login` have a patch that waits for the last thread, because the
tables and the findings show that the properties fail otherwise. What remains is the claim for a
patch that keeps to this rule: a command or an `init` while the last thread is still running, and what an older
worker then does to a new request, is not part of these two runs but of `rest_lock` and `oauth_sign`, whose properties hold
then too. `strings` is serial, `json_store` does not mix `add` and
`array` for one key, and `rest_liveness` has no `init` with a number, for the same reason.

### Other disagreements with the documentation

TLC finds these too. Each line gives the property and the constants that differ from the
ones named above it.

The machinery: properties of `CtwProperties`; two workers, `MaxChunks = 1`, `MCGet`, no
options, no faults, POSIX, `Delays = TRUE`, specification `Spec`, or `FairSpec` for `~>`:

| property | constants | what happens |
|---|---|---|
| `HandlesLive` | `Delays = FALSE` | After the object was unlocked the old worker reads the handle fields again; a command accepted meanwhile has overwritten them, and the old worker cleans up the handles of the running request (`ctw.c:525`); `Changelog.txt:164`: "Fixed cross-thread access to rest object" |
| `OwnBody` | `Messages = {"cancel"}`, `MCPut` | A cancelled request leaves its body, which is all that `UploadOwned` allows for: a PUT without data then uploads it (`ctw.c:307`, `rest.c:289`); `rest-help.pd:376`: "DATA is the upload data for PUT or post data for POST" |
| `CancelHitsThread` | `Messages = {"cancel"}` | A second cancel calls `pthread_cancel` for a detached thread that has ended (`ctw.c:611`) |
| `OneRequestAtATime` | `Delays = FALSE` | A command is accepted while the last request is being reported (`ctw.c:541`, `565-566`); `rest-help.pd:266`: "While one request is processed, the object is blocked." |
| `CancelReclaims` | `Messages = {"cancel"}` | A cancelled thread leaves its curl handles, strings, file and memory (`ctw.c:257-268`) |
| `CompleteResponseIsOutput`, under `FairSpec` | `Messages = {"cancel"}` | A cancel after the end of the transfer, in the last `curl_multi_poll`, drops the response; `rest-help.pd:264`: "If data has been returned already, but is not output, [...] outputting the data will still be completed." |
| `SysLockHeld` | `Messages = {"cancel", "mode"}` | A cancel sent from the data outlet in streaming mode ends the worker inside `sys_lock` (`ctw.c:200-204`) |
| `ModeChangeHarmless` | `Messages = {"mode"}` | `mode` is read twice in `ctw_write_mem_cb`: a change in between makes the transfer fail; `rest-help.pd:295`: "You can set the mode even during running requests." |
| `OnlyCancelledAbort` | `Messages = {"cancel"}`, `Windows = TRUE` | `exit_thread` set too late ends the next request, which nobody cancelled (`ctw.c:615`) |
| `LockHeld` | `Messages = {"cancel"}`, `Windows = TRUE`, `Delays = FALSE` | The handler that runs a second time opens the object while a new request runs (`ctw.c:427`, `463`) |
| `OwnBody` | all combinations of GET, PUT and POST with and without data | A POST without data hands libcurl the freed text of an earlier command (`ctw.c:329`) |
| `TimeoutEnds`, under `FairSpec` | `Messages = {"settings"}`, `Options = {"timeout"}`, `Faults = {"multi"}` | Without a multi handle every call fails, `running` stays 1 and the thread never ends (`ctw.c:456`, `549`) |

`[rest]`: properties of `RestProperties`; as above, with two servers, `Inits = {"login"}` and `RestSpec`:

| property | constants | what happens |
|---|---|---|
| `CookieOfServer` | `Delays = FALSE`, `Inits = {"url", "login"}` | An `init` between the unlocking of a login and the storing of its cookie leaves that cookie to the new server (`rest.c:136`, `200`); `rest-help.pd:65`, "as long as the base url does not change" |
| `LoginReported` | `Faults = {"server"}` | A login that the server refuses is not reported (`rest.c:133`) |
| `CookieKept` | `Messages = {"mode"}` | In streaming mode the header with the cookie goes to the data outlet; the login is reported, and there is no cookie (`rest.c:197`) |
| `NoFreedUrl` | `Inits = {"empty", "url"}` | After an empty `init` a command puts the freed base URL before its own (`rest.c:285`); `rest-help.pd:229`: "An empty init message will clean a previous set base url." |
| `HandlersReturn` (`RestLiveness.cfg`; TLC reports a deadlock) | `Inits = {"number"}` | The handler of an `init` with a number waits for the `sys_lock` it runs under, and Pd stops (`ctw.c:243`) |

`[oauth]`: properties of `OAuthProperties`; `OAuthSign.cfg`:

| property | constants | what happens |
|---|---|---|
| `SignedAsAsked` | `Inits = {"client", "token"}` | An `init` without tokens keeps those of the last account, and signs with them (`oauth.c:111`); `rest-help.pd:43` calls them optional |
| `UninitialisedIsSilent` | `Inits = {"token", "wrong"}` | After an `init` that names no account the pointer to the freed URL still counts as one (`oauth.c:217`); `Changelog.txt:51`: "[oauth]: unitialised object does not request data" |
| `NoFreedText` | `Inits = {"token"}`, `Methods = {"RSA", "invalid"}` | A `method` message that is refused has freed the key and kept the method: the next request is signed with freed text (`oauth.c:289`) |

Strings: properties of `Strings`; `Strings.cfg`:

| property | constants | what happens |
|---|---|---|
| `BackslashesRemoved` | as in the file | A backslash at the beginning, at the end or before another one is lost (`string.c:74`); `string.c:81`: "We keep the backslash" |
| `TameTextsCleaned`, `CleanedFits`, `CookieFound` | `Serial = FALSE` | Pd's thread goes on in the header of a login, or the login in a text of Pd (`string.c:78`, `rest.c:119`) |
| `CookieWithoutEnd` | `Headers <- MCBare` | A cookie without attributes keeps the carriage return of its line (`rest.c:106`) |
| `CookieSaved` | `Headers <- MCLower` | A header named `set-cookie`, as HTTP/2 has it, is not found (`rest.c:103`); `rest-help.pd:65`: "the cookie will be saved" |

JSON: properties of `JsonProperties`; `JsonStore.cfg`:

| property | constants | what happens |
|---|---|---|
| `WrittenIsReadBack` | `Sent <- MCWords`, `Values <- MCMoreValues` | A member of an array is read back as the text of its JSON, with quotes (`json-encode.c:135`); `json-help.pd:166`, `167` |
| `BracesKept` | `Sent <- MCBraces`, `Values <- MCMoreValues` | A text in braces that is not JSON is output as null (`json-encode.c:89`) |
| `FailedReadHarmless` | as in the file | A file with JSON that is no object clears the store before it is refused (`json-encode.c:163`) |
| `BackslashKept` | `Sent <- MCWords`, `Values <- MCMoreValues` | A text with a backslash is encoded with two, which `string_remove_backslashes` merges before `[json-decode]` parses: there comes an error, or another text (`json-decode.c:199`, `string.c:74`) |
| `NumberKept` | `Sent <- MCLarge`, `Values <- MCMoreValues` | A number outside `int` is output as another one (`kvp.c:95`) |

## The proofs

TLC checks the runs above for one small choice of constants, the theorems hold for every one:
any number of workers, servers, chunks, keys, values or addresses. They rest on the assumptions named
in the modules (`NamesAssumption`, `InputsAssumption`, `KvpAssumption`, ...: which names are
distinct, which inputs the constants list), which TLC evaluates on each run, and on the conditions in
their statements. These conditions are those of the runs, and where the code needs one, a table or a finding above
shows what happens without it:

| condition | meaning | why |
|---|---|---|
| `~Windows` | the build for POSIX | on Windows the cleanup handler runs twice (`LockHeld` in the table) |
| `Delays` | the patch sends no command or `init` while a thread has not ended | `HandlesLive`, `CookieOfServer`, `rest_cookie` |
| `"number" \notin Inits` | `init` gets symbols | `InitStuck` has locked the object when it stops, and no thread works for it |
| `DataSent` | every PUT and POST has data | `OwnBody` |
| `OneKindOfInit` | accounts are named always with tokens, or never | `SignedAsAsked` |
| `KeysAsPem` | `KeyText` of the words of a key is its PEM text | what `KeyText` does to a given key is computed by TLC |
| `Arrays`, `~Arrays` | the build of `[json-encode]`, of `[urlparams]` | two theorems, one for each |
| `~Mixes` | no key is sent with both `add` and `array` | `kvp_array` |
| `Serial` | `strtok` serves one thread at a time | `CleanedFits`, `CookieFound`, `TameTextsCleaned` in the table |

The theorems about JSON have no condition but `Arrays` and `~Mixes`: which values, texts and files they speak of is part of the
properties (`Plain`; `Lasts`, `Nests` and `Doubled` in `DecodeShowsStore`), and `BracesKept`, `BackslashKept` and
`NumberKept` show why.

### The machinery: CtwProofs

- `TypeCorrect`, for both platforms. The type invariant is not inductive alone: a cancel puts `thread` into
  `cancelled`, and it has to be a worker. `ThreadKnown` says that whoever signals has a thread to signal.
- `LockHeldAlways`, `MutualExclusion`, `TransfersOwnHandles`, `OptionsFrozen`, from `LockInv`, which joins
  them with what they need of each other: the lock is held only if some worker is in its request;
  at most one is; the handle fields are its own from the moment it created them; its `asked` is
  the object's `settings` until it has prepared its request. Only `Command` makes a worker enter its
  request, and it tests the lock; only the worker itself leaves it, by unlocking or by being
  aborted; and the reporting phase of an older worker writes none of the fields `LockInv` speaks of.
- `UploadsOwnData`, from `UploadInv`: a body that is allocated belongs to the request that holds the lock,
  or to a cancelled one. So the unlock of the last request must have freed what it wrote.
- `WorkersReturnSysLock`, without any condition, and `WindowsKeepsSysLock`, from `SysInv`: `sys_lock` is held by a
  worker exactly in the steps `Holding`, unless that worker was cancelled there.
- With `Delays` (the second half of the module): `OneThread`, that all workers but one are over at any time, comes first. It makes the
  fields of the object the fields of that one worker, on both platforms, which gives
  `LockHeldWithDelays`, and `RequestInv`: at each step of `ctw_exec`, which handles exist and
  whose they are (`HandlesOf`), whether the outcome of the transfer is known and read
  (`ResultOf`), and whether the report is the one expected (`ReportOf`). From it follow
  `HandlesStayLive`, `HandlesAreReclaimed` and `RequestsReport`.
- `DataIsDelivered` needs in addition `DataOf`: at each step, the chunks that were received are those
  that were streamed and those in memory, the first before the second and each in order
  (`Divided`), less the one in the hands of the callback. A change of mode between two chunks
  moves the line between the two and nothing else.

### `[rest]`: RestProofs

The proofs take each shared step from `CtwProofs`, and prove what `Rest` adds to it.

- `RestTypeCorrect`, `RestLockHeld`, `RestMutualExclusion`, `RestTransfersOwnHandles`, `RestOptionsFrozen`:
  the login is a second way into the phase that `LockInv` speaks of, and it too tests the lock. In
  `RestLockInv` a handler that is stuck is an exception: nothing happens after it but what other threads still do.
- `RestSendsOwnBody`, from `BodyInv`: as long as a worker is in its request, the text is its own and allocated, or it has none to send.
- `CookiesGoHome`, from `CookieInv`: a worker that is not over goes to the present `baseUrl`; a cookie
  that is kept comes from there; and one that was sent went where it came from.
- `LoginsReclaimHandles`, from `HandlesInv` as above, with the steps of a login.
- `CookiesGoAlong`, an action property: when a request is prepared after a login was reported, its
  cookie goes along. `LoginInv`: a login that is not over is that of the last `init`; and once it is
  reported, the cookie is kept or its thread is still one step before that, which with `Delays` is no time to prepare a request.

### `[oauth]`: OAuthProofs

- `OAuthRunsCtw`: `OAuth` implements `Ctw`, step by step. So all that is proved of `Ctw` is true of it.
- `OAuthSendsOwnBody`, from `TextInv`: the signed texts in the object are those of the request that holds the lock.
- `OAuthSignsAsAsked`, from `TextInv` and `CredentialInv`: the pointers of the object agree with the last `init` and `method`
  that were in order, for as long as they are the last; so what is signed when a command comes is what was asked for.

### Induction: SequenceLemmas

Lists, texts and buffers are as long as they like, so what is said of them needs induction, which the theorems of
the library cannot give here: they take an operator as a parameter, and no installed prover instantiates one.
`Smallest` proves that a set of naturals that is not empty has a least member, from the well-founded inclusion of
sets; `ByInduction` is induction for a *set* of numbers; `Iteration` proves that recursion along `0 .. n` defines a
function. From these come the `FlattenSeq...` lemmas (what concatenation gives, how long it is, what one sequence more
appends, and that a function may be applied before or after it).

### The store: KvpProofs

- `KvpTypeCorrect`: types, and agreement of table and pairs, for both builds.
- Without `ARRAY`, `UrlparamsOwnsMemory` and `UrlparamsImplementsStore`, from `OwnInv`: every address in use is the value
  of exactly one key. A step changes `memory` at a free address only, so what is read of the
  other keys stays as it is.
- With `ARRAY`, `JsonEncodeOwnsMemory`, `JsonEncodeImplementsStore` and `ArraysGrow`, from `ListInv`. `Chain(mem, s)` says that
  the addresses `s` are a list in memory: each points to the next, none occurs twice, and the last points to `NULL`.
  `ListInv` says that each key has one, that it begins at `value` and, for an array, ends at `last`, and that the lists of two
  keys share no address. The part about `last` is what `kvp_replace_value` breaks if `add` and `array` are mixed.
  `ListOfChain`, by induction along the list: following it finds its addresses.

### `[json-encode]` and `[json-decode]`: JsonProofs

- `JsonEncodeRunsStore`: every behaviour of `JsonEncode` is one of `Kvp`, also in the middle of a read; so
  `JsonTypeCorrect`, `ReadsOwnMemory` and `ReadsImplementStore`. It needs `FileInv`: the file, also one that
  `[json-encode]` wrote itself, is well formed, and what a read still has to add are keys and values the store takes.
- `ReadsBack`, from `ReadInv`: while a plain object is read, the store holds exactly its first `j` members, in their
  order, and what is left to add are the others (`Loads`). `PlainHoldable` is why this can be said: each member of a
  plain object makes one addition, is kept as it is sent, and is encoded as what it was. The step of a read is the refinement
  to `Store`: an addition appends one key and changes no other entry. As in the model, a read is one whose values are among `Values`.
- `DecoderShowsStore`: if what the keys are meant to be (`Meaning`) nests no deeper than json-c reads and escapes no backslash, neither does
  any value in it (`InnerNests`, `InnerDoubled`), so each stored text in braces comes through `string_remove_backslashes` and is
  encoded as what it is meant to be (`JsonIsMeant`), each value is shown as the atom that was added (`AtomOfMeant`), and a bang makes one object,
  which is decoded member by member.
- `SeriesDecoded`, for values nested to any `Depth`. The functions `Output` and `Leaves` exist because what they say of a value asks
  only for the level below, and there are finitely many levels: iterated `Depth + 1` times they are fixed
  (`RecursionDefines`). From the deepest level up, what is output for a value is what is output for the values in it that are no arrays, one
  after another (`LeavesAreOutput`); each of those ends with its bang or error and has no other (`LeafEventsOf`);
  so along the sequence every end is where `Ends` counts it (`LeavesEnd`).

### `[urlparams]`: UrlProofs

- `UrlparamsRunsStore`, as for `JsonEncode`; and `QueryFitsBuffer`: at most three characters for each byte, so the sizes
  that the first pass of a bang adds up are enough for what its second pass writes.
- `QueryIsRead`, for keys and values of any length and any bytes. `ByteReads`: what is made of one byte decodes to it and
  holds no separator, for the 255 of them by arithmetic on the sign, the shift and the mask. `EncodedReads` extends that to texts: decoding goes on from
  where one byte ended as long as none of the last two characters is a percent sign (`Complete`). `SplitRun`
  and `SplitCut`: a server splits at the separators and nowhere else.

### Strings: StringsProofs

- `CleanedTextFits`, from `CleanInv`: while a text is being cleaned, `strtok` has gone over at least two characters more than were
  copied, the backslash that was cut and the next one, or it has come to the end of the text. So the
  backslash that is put back always has a place.
- `TameTextIsCleaned`, from `UnmaskInv`: what has been copied is the text up to the place of `strtok` without the backslashes
  before commas (`UnmaskedTo`), and behind that place the text is untouched. In a tame text no backslash is the last character or
  follows another, so each segment that `strtok` returns begins right behind the last cut.
- `CookieIsFound`, from `CookieInv`: between two calls, `strtok` is at the beginning of a line with no `Set-Cookie` line before it and nothing
  cut behind it; in the line that it found, only the end has been cut. What the two further calls return is then the cookie of the *first* such line.

### Model-checked only

Liveness (`CancelEnds`, `TimeoutEnds`): it needs fairness and `ENABLED`, which are out of the prover's reach.
Every invariant, action property and refinement of the runs that expect no violation is also a theorem, under the conditions above.

## Plan

1. `Ctw`, `Kvp` with `Store`, `Rest`: done.
2. `OAuth`, `Strings`, `JsonEncode`, `JsonDecode`, `UrlParams`, liveness of `Rest`: done.
3. Proofs of the safety properties above: done. What is proved under `~Windows` (mutual exclusion, options, bodies) could be
   stated for Windows with `Delays`, where `OneThread` holds as well.
4. `Headers`, `CurlGlobal`: the header list that is passed by value and never freed, and
   `curl_global_cleanup` with several objects.

## Not modelled

`purest_json.c` (registers classes), the build scripts, the manual and the test patches have no
state. libcurl, json-c, liboauth and Pd appear as their contracts. The contents of header lists
(`strlist.c`) and the upload callback only copy bytes on one thread. The global state of libcurl
takes several objects, and the model has one.
