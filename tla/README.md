# TLA+ models of ouistiti's authentication engine

This directory holds TLA+ models of `src/src/mod_auth.c` (the authentication
module), `src/src/main.c` (the process life: module registration, server
loading, init.d scripts, signals, the run loop and the owner change) and
`src/src/mod_filestorage.c` (the PUT/POST/DELETE file connector). They are
checked with TLC. `PROJECT.json` lists every component, run, mutant,
finding and hazard, and maps each definition to the source lines it
translates.

## 1. Inventory

### Components and their state

| Component | Source | State it keeps | Operations |
|---|---|---|---|
| Engine (`_mod_auth_t`) | `mod_auth.c` 198-327 | config, the authn and authz backends, hash, `type` | `mod_auth_create` (srandom, backend selection, TOKEN flag clearing, protect default), `mod_auth_destroy` |
| Session binder (`_mod_auth_ctx_t`) | `mod_auth.c` 329-360 | per connection: `info` (identity: user, group, home, type, token), `authenticate` | `_mod_auth_getctx` on accept (registers the connectors, calls the scheme's `setup`), `_mod_auth_freectx` on close |
| Home connector | `mod_auth.c` 362-395 | none (reads the session identity) | redirect 301 to `<home>/` unless websocket or uri already under home |
| Auth connector | `mod_auth.c` 411-719 | none of its own; writes `ctx->info`, the session, the response | bound pass-through, logout header, credential extraction (header, cookie, X-Auth-Token), `check`, identity build, token generation + `join`, transport (headers or cookies), privilege transition, protect/unprotect decision, challenge (scheme, 403 AJAX, login redirect 302 / login page 200, 401) |
| Token issuer | `mod_auth.c` 397-409, 202 | the process's `random()` stream | `authz_generatetoken` |
| Privilege transition | `mod_auth.c` 553-571, `main.c` 89-115, 614 | process real/effective/saved uid and gid | `seteuid(getuid())`, `setegid(pw_gid)`, `seteuid(pw_uid)`; `auth_setowner` at start |
| File storage connector | `mod_filestorage.c` | per connection: `path_info`, `filepath`, `fd` | PUT (mkdir for a trailing '/', open, chunk writes, close), POST, DELETE, name check |
| Server bootstrap | `main.c` | module registry, servers, `run` flag | option parsing, init.d scripts, loading servers and modules, owner change, run loop, destroy |
| Credential-scheme backends | not in this repository | Digest nonces | `create`, `check`, `challenge`, `setup` (spec.md 4.1) |
| Identity-store backends | not in this repository | users, tokens with expiry (persistent for sqlite) | `create`, `group`, `home`, `join`, `destroy` (spec.md 4.2) |
| HTTP server library | not in this repository | connections, connector chain, sessions | runs the connectors of a client in order; clients run in one loop, in threads, or in forked children |

### How they interact

Every request of a connection runs the connector chain: the home connector
(when `AUTHZ_HOME_E`), then the authn connector, then the modules that serve
content (static files, file storage, ...). A connector returning `EREJECT`
lets the chain continue; `ESUCCESS` ends it with the response it wrote. The
authn connector reads and writes the per-connection `ctx->info`, calls the
shared backends, and after a successful check with `AUTHZ_UNIX_E` changes
the effective uid and gid of the whole process. That last step makes the
connections interact: the credentials are process state, shared by every
client the process serves, and the file storage connector creates and
deletes files with them.

### What is hard

* Interleaving of clients. The httpserver library runs clients in one
  loop, in threads or in forked children. With one loop or threads, every
  client shares the credentials that the last check set. With threads, the
  three-step transition passes through euid 0 while others run.
* Crash and restart. The identity store (sqlite) keeps tokens across
  restarts. The token stream is seeded with the start second.
* Ordering inside the chain. The logout header is tested after the bound
  shortcut. The login-page decision is overwritten.
* Chunked request bodies (file storage PUT): open, several writes, close,
  spread over calls of the connector.

### What makes each component correct

* Auth connector: a protected uri is served only with an identity; an
  identity is bound once and never replaced while the connection lives;
  a logout request is re-verified; the login page is passed on.
* Privilege transition: a request is never served as root; a bound
  request is served with its own account's uid and gid, and a request
  without identity with the daemon account's.
* Token issuer and store: a live token resolves to the user it was issued
  to.
* Home connector: it never redirects a request that is under home, and
  never redirects the location it redirected to.
* File storage: a connection writes only into the file its own request
  names, however the connections interleave; a completed PUT leaves the
  file equal to the body; a response reports OK only when the operation
  took effect.

## 2. Modules

| Module | Models |
|---|---|
| `PosixCreds` | process credentials, the POSIX rules under which `seteuid`/`setegid` succeed, `auth_setowner` of `main.c` |
| `AuthConnector` | the engine at run time: process start (`Boot`), crash, connections (`mod_auth_getctx`, `mod_auth_freectx`), the home connector, the authn connector split into its outcomes, the three privilege steps, token issuance and the identity store |
| `AuthAbstract` | the promise of spec.md 3 and 4.4: per connection, an identity bound at most once until close; admission only for public uris or with an identity |
| `AuthRefinement` | the refinement mapping from `AuthConnector` to `AuthAbstract` |
| `FileStorage` | `filestorage_connector` and `filestorage_checkname` over a document root of entries and inodes, each operation taking the euid of the serving process |
| `HomePath` | the home test of `_home_connector` on character sequences: `strncmp` as the recursive `StrnEqual`, the redirect condition, the `Location` the client follows |
| `AuthEngine` | `mod_auth_create` and `mod_auth_destroy` as operators: from one configuration (configuration present, backend table entries, `join`, `AUTHZ_TOKEN_E`, backend `create()` results) to the engine left behind and the allocations not yet released |
| `AuthModule` | one server's `mod_auth` slot under a loader that passes a configuration: `Create` (`mod_auth_create`), `Destroy` (`mod_auth_destroy` from `main_destroy`) |
| `ServerLifecycle` | `main.c`: `main`'s start-up and its early returns (`-K`, `chdir`, no configuration, `-C`, `daemonize`), `ouistiti_registermodule`, `ouistiti_loadservers`/`_loadserver`/`_setmodules`/`_loadmodule` with the `-s` selection and `MAX_MODULES` slots, the signal dispositions, `handler`, `main_run`, `main_destroy`; the `auth` module's `create()` is `AuthEngine`'s `mod_auth_create` with the NULL configuration `main.c` passes |
| `InitScripts` | `main_initat`: the recursive walk of the init.d tree, as the sequence of scripts it starts |
| `MC_AuthConnector`, `MC_FileStorage`, `MC_AuthModule`, `MC_ServerLifecycle`, `MC_InitScripts` | constant values for TLC |

### State and actions of `AuthConnector`

* `stage[c]` is where connection `c` is in the chain: `closed`, `idle`,
  `home`, `authn`, `priv1..priv3` (the three calls of the transition),
  `content` (the chain continues to the serving modules) or `done` (an auth
  connector wrote the response).
* `info[c]` is `ctx->info`; `req[c]` and `resp[c]` the request and the
  part of the response the auth connectors write (status, location, emitted
  user and token).
* `creds[p]` are the credentials of process `p`: `"server"`, or in fork
  mode a child per connection. `prng[p]` is the `random()` state as (seed,
  draws taken): `authz_generatetoken` yields exactly that pair, so two
  tokens are equal iff they come from the same seed and draw index.
* `store` is the identity store's token table (persistent across crashes);
  `issuedTo` is a history variable: the user each token value was first
  issued to.
* Actions: `Boot` (main: module creation seeds `random()` with the clock,
  then `auth_setowner`), `Crash`, `Tick`, `mod_auth_getctx`,
  `mod_auth_freectx`, `Arrive` (a request with fields from small sets),
  `home_connector_redirect`/`_pass`, `authn_connector_bound`/`_accept`/
  `_public`/`_challenge`, `authn_seteuid_real`, `authn_setegid_user`,
  `authn_seteuid_user`, `Serve`, `Reply`.
* The privilege transition is three actions because with threads other
  clients run between the three system calls. In `single` mode `Arrive`
  waits until no other client is in its chain, which makes each chain
  atomic, as in the library's single loop.
* Data are abstracted: uris are short character sequences (the home test
  is about characters), credentials are records (valid for a user, wrong
  password, other scheme, token), the clock counts seconds.

### State and actions of `FileStorage`

* `fsstage[c]`: `idle`, `call` (the server will call the connector again,
  after `EINCOMPLETE` or for a new request), `done` (`ESUCCESS`), `next`
  (`EREJECT`). `fsreq[c]` is the request (method, path_info, body as a
  sequence of chunks); `path_info[c]` and `fd[c]` are the fields of
  `static_file_connector_t`; `sent[c]` is how many chunks
  `httpmessage_content` has returned; `off[c]` the file offset.
* `dirent` maps file names to inodes and `inode` holds each inode's data
  and owner, so that an unlinked file kept open by a PUT still receives its
  writes, as on POSIX. `dirs` are the directories made by PUT.
* `fsres[c]` is the result the reply reports; `effect[c]` is a history
  variable: whether the operation changed the document root.
* Actions: one per branch of `filestorage_connector`: `fs_reject`,
  `filestorage_checkname`, `filestorage_mkdir`, `filestorage_open`,
  `filestorage_open_failed`, `filestorage_write`, `filestorage_close`,
  `filestorage_post`, `filestorage_delete`; `FsArrive` and `FsReply` stand
  for the static-file module and the server around it (not in this
  repository). `open` succeeds for root or the file's owner (mode 0644) and
  creates files owned by the caller's euid.
* `httpmessage_content`'s `rest` is external; the constant
  `RestIncludesChunk` says whether it counts the chunk just returned.

### `HomePath`, `AuthEngine`, `InitScripts`

* `HomePath`: `home` is `info->home` (a leading `/` and up to `MaxLen`
  characters), `uri` the request's uri without its leading `/`. `StrnEqual`
  is `strncmp(...) == 0` with the NUL at the end of each sequence.
  `FollowRedirect` is the client requesting the 301's location;
  `NewRequest` any other request. `followed` is a history variable.
* `AuthEngine` has no state of its own. An `EngineConfig` is one
  configuration the tables and the configuration file can give; an engine
  is the record `mod_auth_create` leaves: whether it returned an object,
  the TOKEN flag of `mod->authz->type` (copied from the configuration at
  line 211, before the check), `authz->generatetoken`, whether the store
  has `join`, and `live`, the allocations not yet released (`mod`, `authz`,
  `authn`, the two backend contexts). `TokenSetup` and
  `FailedAuthnCleanup` are the two decisions of `mod_auth_create` the
  properties are about. A NULL result keeps only what was not freed, so
  that failed engines that differ in nothing observable are one state.
* `AuthModule` is the harness for one slot: `cfg` is chosen in `AInit`
  from `Configs`; `Create` is `ouistiti_loadmodule`'s call of `create()`;
  `Destroy` is `main_destroy` reaching the slot, only if `create()`
  returned an object. `main.c` itself never passes mod_auth a
  configuration (mod_auth has no `configure()`, and `ouistiti_loadserver`
  passes `configure` NULL at line 354), so in this repository's build
  `mod_auth_create` returns NULL at line 205. `mod_auth.c` and `main.c`
  come from different versions of the program: `AuthModule`, and
  `AuthConnector`, check the engine as a loader with a configuration
  would run it.
* `InitScripts`: the init.d tree (depth two, names from `NameOrder` in
  `alphasort` order, `DotNames` hidden; `ScanDir` lists `.` and `..`
  first, as `scandirat` does) is chosen in `Init` and never
  changes; `main_initat` is the recursive operator, `Started` its result.
  `Reachable` and `Ascending` are reference definitions.

### State and actions of `ServerLifecycle`

* `sphase` follows `main`: `args` (options parsed), `register` (the
  module loader calls `ouistiti_registermodule`), `config`, `initd`,
  `load` (the loop of `ouistiti_loadservers`, index `nexti`), `signals`,
  `run`, `destroy`, `exit`, or `killed` (a signal with its default
  action). `exitcode` is the value `main` returns.
* The start-up steps `main_kill` (`-K`), `main_chdir`, `main_config`
  (configuration not found, `-C`) and `main_daemonize` (`main_initat`,
  then the `-D` parent's return) each take one branch of `main`. Each bit
  of `mode` is tested once, by the step that takes its branch, so the
  bits are chosen there and not kept as state. `serverid` (`-s`) is read
  by every turn of the loading loop and is a variable, chosen in `SInit`.
* `gmods` is `g_modules` (pushed at the head); `servers` the server list
  (pushed at the head); `slots[s]` the objects of `server->modules[]` in
  slot order, `NULL` marking an unused slot; `live` the module objects
  created and not destroyed; `disp` each signal's disposition; `run` the
  static flag; `stopBy` a history variable: what ended the run.
* Each module's `create()` may fail (`ok` is chosen per module and server);
  `httpserver_create` may fail. The `auth` module's `create()` is
  `mod_auth_create(LoadConfig)`: `LoadConfig` has no configuration, as
  `ouistiti_loadmodule` finds none for mod_auth, so that create always
  fails and its slot is reused by the next module.
* `Signal(g)` models a signal from the environment at any time; `SIGPIPE`
  only while clients are served (in the run loop, with a server).

## 3. Runs

Runs named `auth_*` and those about tokens and the euid use
`MC_AuthConnector`; `fs_*` use `MC_FileStorage`; `home_*` use `HomePath`;
`engine_*` use `MC_AuthModule`; `server_*` use `MC_ServerLifecycle`.

| Run | Cfg | Expect | What it shows |
|---|---|---|---|
| auth_core | `MC_core.cfg` | pass | 2 connections, 2 users, all flags on, single loop, crashes: `TypeOK`, `NoServeAsRoot`, and the chain implements `AuthAbstract` (`AuthAbstractSpec`: identity bound at most once per connection, protected uris only with it) |
| stale_euid | `MC_stale_euid.cfg` | violation | single loop: c1 binds u1, then c2's anonymous request for an unprotected page runs as u1 (and, longer, c1's next request runs as u2 after c2 bound u2) |
| thread_root | `MC_thread_root.cfg` | violation | threads: c2 is served while c1's transition holds euid 0 |
| logout_header | `MC_logout.cfg` | violation | a WWW-Authenticate request on a bound connection is served on the cached identity (`mod_auth.c:652`, spec 4.4 step 2) |
| token_restart | `MC_token_restart.cfg` | violation | crash and restart in the same second: u1's live token is rebound to u2 |
| fs_core | `MC_fs.cfg` | pass | 2 connections, PUT/POST/DELETE on an own file, a foreign file, a dot name and a directory, interleaved (a DELETE while the other connection's PUT holds the file, the name re-created, the inode reused): `FsTypeOK`, `OpenFileIsNamed` (a connection's descriptor is the file its request names, or an unlinked one), `UploadTerminates` |
| fs_truncate | `MC_fs_PutStoresBody.cfg` | violation | an empty PUT on a two-chunk file is answered OK and the file keeps its content |
| home_loop | `MC_home.cfg` | pass | every home and uri over `{a, b, /}` up to length 2: the redirect location is never redirected again (`NoRedirectLoop`) |
| home_segment | `MC_home_segment.cfg` | violation | home `/a`, uri `aa`: passed on although it is not under `/a/` |
| server_core | `MC_server.cfg` | pass | every start-up path; 5 modules (one deprecated, and mod_auth failing), 2 of 3 server slots configured, with and without `-s 2`, `MAX_MODULES = 2`, failing creates (mod_auth's always), signals and server errors: `STypeOK`, `NoModuleLeak`, `StopsOnRequest` |
| server_sigpipe | `MC_server_sigpipe.cfg` | violation | a client's `SIGPIPE` reaches the quit handler and stops the server |
| engine_token | `MC_engine_token.cfg` | violation | `AUTHZ_TOKEN_E` with a store without `join`: the engine keeps the flag in `mod->authz->type` and has no `generatetoken` (`mod_auth.c:232`), which line 524 calls on the first successful check |

### Further reproductions

The project keeps twelve runs. These cfgs state further disagreements the
models reach, and one further check; each was run with TLC and ends as
described. They are kept for the reader to re-run:
`tlc -config <cfg> <module>`.

| Cfg | Module | Property | What TLC shows |
|---|---|---|---|
| `MC_token_fork.cfg` | `MC_AuthConnector` | `TokenRoundTrip` | two forked children issue the same first token to u1 and u2 (`random()` state copied by fork, `mod_auth.c:404`) |
| `MC_login_page.cfg` | `MC_AuthConnector` | `LoginPagePassThrough` | the login page gets an empty 200 (`ret` overwritten at `mod_auth.c:633`) |
| `MC_token_expiry.cfg` | `MC_AuthConnector` | `EmittedTokenLive` | a bound connection re-emits its token after the store expired it (`mod_auth.c:652`) |
| `MC_fs_OkMeansEffect.cfg` | `MC_FileStorage` | `OkMeansEffect` | a DELETE of a missing name is answered OK (`unlink() > 0`, `mod_filestorage.c:196`) |
| `MC_initd.cfg` | `MC_InitScripts` | `EveryScriptOnce` | holds: over all 27,000 trees of depth 2, each reachable executable is started exactly once |
| `MC_engine_leak.cfg` | `MC_AuthModule` | `NoLeak` | a slot whose auth configuration names an authn type missing from `authn_rules`: `mod_auth_create` returns NULL without destroying the authz context, and the slot is never destroyed (`mod_auth.c:298`) |
| `MC_initd_order.cfg` | `MC_InitScripts` | `ScriptsInOrder` | `while (n--)` starts the `alphasort`ed scripts from the last (`main.c:176`) |
| `MC_fork_rights.cfg` | `MC_AuthConnector` | `ServedWithOwnRights` | holds in fork mode, where each client has its own credentials |

### Bounds

Two connections and two users are the least that lets one client
see what another did; `MaxDraws = 1` token per process and `MaxClock = 1`
second suffice for a same-second restart and for expiry (`Expire` is 1 or
2 seconds). The uri set has a page under u1's home, a protected page, an
unprotected page and, for the redirect flow, the login page. Requests
choose every combination of header, cookie, token, logout, websocket and
AJAX values listed in the cfg.

File storage bounds: the document root starts with `f` (two chunks, owned
by the daemon, uid 33) and `g` (owned by uid 1001, so `open` fails); names
also include `.h` and `d/`; bodies have 0 or 1 chunk (enough for a body
shorter than the file); `MaxInodes = 2` makes a creation fail once a
deleted file is still open elsewhere or `f` and a new file exist.

`HomePath`: with the alphabet `{a, b, /}` and length 2, the homes include
`/`, `/a`, `/a/` and `/ab`, and the uris include the home itself, a longer
name (`aa`) and a path below it (`a/`): the cases the test can get wrong.
`ServerLifecycle`: with `MAX_MODULES = 2` and three modules whose create() can succeed,
a server runs out of slots, and a failed `create()` between two good ones
tests the slot reuse that `main_destroy`'s walk depends on; `-s 2`
selects the second configured slot, and each start-up branch is taken
(with `-K`, `-C` or `-D` one at a time: `-K` returns before `-C` is
tested and `-C` before `-D`, so a combination behaves as one of them).
`AuthModule`: the 64 (or all 128) configurations. `InitScripts`:
every tree of depth two over two visible names and one hidden name, which
includes directories mixing scripts, plain files and subdirectories.

### Fairness

`FsSpec` assumes weak fairness of `filestorage_connector` for
each connection: the server calls a connector again for a request it
returned `EINCOMPLETE` for as long as the request is pending, and the body
is finite and fully delivered (clients are not assumed to keep sending,
so `FsArrive` has no fairness). `SSpec` assumes weak fairness of the
steps `main` takes itself (`MainStep`): main is one thread that is never
blocked for good; signals and a failing server loop have no fairness.
The other modules check safety only. The `server_core` cfg says
`CHECK_DEADLOCK FALSE`: the process ends (returns from `main` or is
killed), so its last state has no successor.

### Mutants

Each property of a passing run has a mutant in `PROJECT.json`: a plausible
slip in the mapped code (missing final `seteuid`,
`ctx->info` not cleared on free, token drawn one late; in file
storage: `fd` kept after close, `-1` kept after a failed open, a chunk
written but not consumed; `strncmp` over one byte too many, a location
keeping its leading `/`; the `MAX_MODULES` test lost, the free slot searched by `ops`,
the run loop ignoring `run`) that TLC must find violating it.

## 4. Findings

See `PROJECT.json` "findings": the shared effective uid (stale across
connections, so that even an anonymous client gets the rights of the last
user who logged in, and root during the transition under threads), tokens
repeated after a same-second restart, the logout header ignored on a
bound connection, PUT without `O_TRUNC` keeping the
old tail of a longer file, the home test accepting any uri that extends
the home's characters (`/home/alice` admits `/home/alicex`), and `SIGPIPE`
installed with the quit handler (`sigaction(SIGPIPE, &action, ...)` where
`unaction` was meant), so any client closing early stops the server, and an engine with token
transport but no token generator when the store cannot `join`. The
further reproductions above add: tokens repeated in forked children, the
overwritten login-page result, expired tokens
re-emitted, failed `unlink`/`mkdir` reported OK, the authz context leaked
by `mod_auth_create`, and init.d scripts started in descending order.

The TOKEN check: spec 2 and 7 say a flag incompatible with the identity
store (`AUTHZ_TOKEN_E` without `join`) is rejected at construction.
`mod_auth_create` (`mod_auth.c:229-235`) instead clears the flag only in
`config->authz_type`, after line 211 copied it into `mod->authz->type`,
and leaves `generatetoken` unset; the connectors test `mod->authz->type`
(444, 522), so the first successful check calls `generatetoken` through
NULL (524). `engine_token` shows the engine in that state.

## 5. Not modelled, and why

* The credential-scheme and identity-store backends are not in this
  repository: `check` follows the contract of spec.md 4.1 (a valid
  credential proves its user; a token resolves through the store while
  unexpired); `challenge` is the constant `SchemeChallenges`; `join`
  overwrites the token's entry. The HEAD method substitution of line 508 is
  not observable because the modelled `check` ignores the method.
* `group()` and the `X-Remote-Group`/`X-Remote-Home` headers carry no
  behaviour any property is about.
* `utils_searchexp` (protect/unprotect/redirect matching) is external: the
  patterns are given as the sets of uris they match.
* File storage: `write()` failures and short writes, descriptor numbers
  (the `fd > 0` test on a descriptor 0), path building and the empty
  `path_info` read at line 89 are left out; the static-file module that
  sets `path_info` and frees the connector state is not in this
  repository (`FsArrive`, `FsReply`).
* `main.c`: `display_help`, `display_configuration` and `-V` only print;
  `-P` only sets the default port; the configuration loader and
  `daemonize()` are not in this repository (their results are choices of
  `main_config` and `main_daemonize`). `main_initat` is modelled by
  `InitScripts` and is one step of `ServerLifecycle`: composing the init.d
  tree into the server's state would multiply the two state spaces. The scripts started by `main_exec` run concurrently with the
  server (no `wait`); their effects are outside the program. That `run` is
  not `volatile sig_atomic_t` is a compiler matter TLC cannot express: the
  model lets the loop see the handler's store.
* `mod_auth_create`'s hash selection only picks a digest name.
* What the map leaves out is declarations, includes and logging macros,
  the backend tables of `mod_auth.c` (138-197: which backends the build
  has; the models take whether an entry exists as part of the auth
  configuration, since modelling build flags and type indexes would
  multiply the server's state space without a new behaviour), the
  `display_*` printers, and the accessors `ouistiti_httpserver`,
  `ouistiti_modules` and `ouistiti_issecure`, which nothing in this
  repository calls. (`ouistiti_issecure` returns
  `!!strcmp(secure, "true")`, that is 1 when the server is not secure; a
  caller outside the repository would get the opposite of the name.)

## 6. Plan

Done: `AuthConnector` + `PosixCreds` + `AuthAbstract`/`AuthRefinement`;
`FileStorage` with interleaved connections (`OpenFileIsNamed`);
`HomePath`; `AuthEngine` composed into `ServerLifecycle` as the `auth`
module; `main`'s start-up; `InitScripts`; token expiry while bound;
anonymous requests under another user's euid.

Left, and why:

1. `AuthFileStorage` (the owner of a file a bound user's PUT creates) is
   the product of two state spaces of 300-500 thousand states each. What
   it would show is already fixed at the point the file is written:
   `FileStorage` creates files with the euid it is given, and
   `ServedWithOwnRights` shows which euid that is when the request
   reaches the serving modules.
2. The mixed content two PUTs of one name leave has no intended outcome
   in the code to check against.
