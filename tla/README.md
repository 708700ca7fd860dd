# SafeKey Manager in TLA+

SafeKey Manager is a zero-knowledge password manager: a single-page browser
client that derives a key from the master password and encrypts every entry, and
a Spring Boot server that keeps accounts and ciphertext in PostgreSQL. This
directory holds its formal model: TLA+ modules translated from the source, TLC
configurations that check them on small instances, and TLAPS proofs of the
properties that matter most for instances of every size.

Paths below are relative to the repository. `SERVER` stands for
`password-manager-backend/src/main/java/com/safekeymanager`, `JS` for
`password-manager-frontend/js`.

## Inventory

| Component | State it keeps | Operations | What is hard about it |
|---|---|---|---|
| Rate limiter, `SERVER/security/RateLimitFilter.java` | `requestLog`: client address → deque of timestamps | one filter call per request to `/api/auth/**` | the clock is read before the lock of `compute()`, the size of the deque after it, also while its array grows |
| Vault service, `SERVER/service/VaultService.java`, its controller, repository and entity | table `vault_entries` | `getAll`, `create`, `update`, `delete` | a select decides, a later statement writes; no version column; READ COMMITTED |
| Accounts, `SERVER/service/AuthService.java`, its controller, repository and entity | table `users` with a unique email | `register`, `login`, `refresh` | `existsByEmail` and the INSERT are two statements; the KDF salt must never change |
| Tokens and security, `SERVER/security/Jwt*.java`, `SERVER/config/SecurityConfig.java` | none (signed tokens with a type and an expiry) | issue, validate, authenticate | what a client is told when a token has expired |
| Client session, `JS/api.js`, `JS/vault.js`, `JS/app.js` | `sessionStorage` tokens, `_vaultKey`, `_entries`, the active view, the entry form | login, register, load, save, delete, sign-out, reload | every `await` lets another handler run; the page outlives sessions |
| Auth view and vault view, `JS/app.js`, `JS/vault.js`, `JS/api.js` | tabs, error messages, panes, cards, the search box | submit, refresh, load, search, show, delete | both forms may be under way at once; four callers of one `renderGrid`; a load that fails or outlives its session |
| Entry form, `JS/app.js` | the password field, its meter, hiding timers | open, type, show, Generate | one form element for all entries; timers that nothing cancels |
| Inactivity timers, `JS/app.js` | three timers, the warning and its countdown | activity, warning, countdown, sign-out | timers of one session that survive into the next; `confirm()` stops them all |
| Clipboard, `JS/vault.js`, `JS/app.js` | the system clipboard | copy, clear after 30 s | overlapping timers, failures that are swallowed |
| Browser cryptography, `JS/crypto.js` | none | deriveKey, encrypt, decrypt | pages that derive a key alone must agree |
| Generator and strength meter, `JS/generator.js` | none | generate, strength | every chosen class must occur; a fair shuffle; thresholds |
| Server cryptography, `SERVER/service/CryptoService.java` | none | generateSalt; encrypt and decrypt, which only tests call | |
| Markup, styles, deployment | none | | configuration only |

How they interact. The client talks to the server with `fetch`: the auth
endpoints pass the rate limiter and reach `AuthService`, the vault endpoints pass
the JWT filter and reach `VaultService`. A login answers with a token pair and the
KDF salt; the client derives the key from the password and that salt, and from
then on the pair (key, tokens) must belong to one account, because the server
files an entry under the owner of the token and nobody but the holder of the key
can read it. The two services share the table of users, which no code deletes
from. Inside the page the three modules share the entry form, the tokens and the
decrypted entries; the inactivity timer calls the same `performLogout` as the
button.

What makes each component correct:

- rate limiter: what it lets through per window, when it may refuse, that it
  always answers;
- vault service: nobody reads or changes another user's entry, acknowledged
  deletes are final, every call is atomic, no call waits for ever;
- accounts: one account per email, one salt per account for ever, only the
  password of the registration that won logs in;
- client session: key and tokens agree, what is written can be read by its
  owner, plaintext does not outlive a session, the grid shows the vault,
  handlers end;
- pages and accounts together: every page of an account reads what any page of
  it typed, and no page of another account does, also when a save that outlived
  its session was filed under that other account;
- auth view and vault view: every failure is shown, and what is shown is what is
  in memory;
- entry form: the meter rates what is in the field, a generated password does not
  stay visible;
- inactivity: no timer outlives its session, an idle session ends in time and
  only after a warning;
- clipboard: a copied text goes, in time unless its own clear failed;
- generator: every chosen class occurs, all orders are equally likely.

The hazards, each with its line and the property that would catch it, are in
`PROJECT.json`. Some of them the code does not avoid. There the model has the step,
the properties except what it does, and the hazard's note says so: a save that
takes its token after its session has ended (vault.js:259), a load that is rendered
after it (vault.js:51), the tokens of a crossing refresh (api.js:84), a request whose
connection broke (api.js:47), the form that stays filled (app.js:125), a Delete beside a
load (vault.js:220), a save that fails after its commit (vault.js:272), the panes after a
failed load (vault.js:65), an error in a view that is not shown (app.js:122), a
login whose password is wrong (api.js:53), and a password hidden too soon by an
earlier timer (app.js:346). For these the properties say that nothing *else* goes
wrong; that the listed step goes wrong is not reported by a run.

## Modules

| Module | What it is |
|---|---|
| `RateLimiter` | the filter, one step per access to shared state |
| `RateLimiterProofs` | inductive invariant and theorems |
| `VaultApi` | abstract specification of the vault endpoints: atomic calls on a map |
| `VaultStore` | the vault service, one step per SQL statement; refines `VaultApi` |
| `VaultStoreProofs` | inductive invariant, safety theorems, the refinement |
| `Accounts` | register, login, refresh, one step per SQL statement |
| `SharedVault` | `Accounts` with the pages that derive keys from its answers (crypto.js) |
| `SharedVaultProofs` | inductive invariant and theorems about `Accounts`, and on top of them those about `SharedVault` |
| `ClientSession` | the handlers of api.js, vault.js and app.js in one tab, await by await |
| `ClientSessionProofs` | three inductive invariants and theorems |
| `AuthForms`, `VaultGrid` | what the auth view and the vault view show |
| `Page` | the two composed: sign-in, its load, sign-out |
| `Strength`, `EntryForm` | the strength meter; the password field that uses it |
| `PageProofs` | inductive invariants and theorems about `Page` and `EntryForm` |
| `Inactivity`, `InactivityProofs` | the timers of a session; invariant and theorems |
| `Clipboard`, `ClipboardProofs` | copies and their clears; invariant and theorems |
| `Generator`, `GeneratorProofs` | `generate`, turn by turn of its loops; invariant and theorems |
| `MC*` | the instances for TLC: symmetry sets |

`SharedVault` extends `Accounts`, so its run checks both and its proofs contain
those about `Accounts`. `EntryForm` has names of its own for its specification
(`FormInit`, `FormNext`, `FormSpec`), so that it can stand beside `Page` in `PageProofs`.

Definitions that end a comment with `Mutant:` are faulty variants of the
definition below them. They are used by no action; substituting one for the
original makes TLC report the property it is meant for.

### RateLimiter

A request is a servlet thread. `Arrive` resolves the address and reads the clock
(lines 56-57); `EnterCompute`, `PollFirst`, `AddLast` and `Grow` are the lambda under the
lock of the address (60-68); `ReadTail`, `ReadHead` and `ReadLength` are the three field
reads of `ArrayDeque.size()` outside the lock (71), in any order; `Decide` answers 429
or calls the chain. What a deque holds is an append-only `log` without its first
`polled` entries, so a polled entry can still be named in a property. How it holds
it is the circular array of the JDK: `tail`, `head` and `length`. `addLast` moves `tail`, and
when that meets `head` the array is full and is replaced by a longer one (`Jump`);
until it is, a reader without the lock sees the fields of an empty deque. `Capacity`
is the length of a new array (17 in JDK 17), so with refused requests logged too it
takes 17 of one address in a window to get there.

### VaultApi and VaultStore

`VaultApi` says what a client may rely on: each call takes effect at one instant.
`VaultStore` is the code on PostgreSQL at READ COMMITTED: `Find` is the select of
`findByIdAndUserId`, `Reselect` the second select of the derived delete, `Flush` the
write that waits for the row lock, `FlushStale` the write that affects no row
(Hibernate raises, `handleGeneric` answers 500), `Commit*` the end of the
transaction. `Insert` takes the id before the commit, as `IDENTITY` does, and a
crash leaves a gap. Content is named by the request that wrote it. The refinement
mapping reads `store` off the committed rows and a request's `stage` off its `pc`
and `status`; a crash and a lost answer are stutters of the abstract
specification, which never promises that an answer comes. That specification
shows one thing a reader might not expect: an update whose entry is deleted
under it is answered with 500, not 404, while a delete in the same place says
204 or 500 (`AlreadyDeleted`).

### Accounts

`Free` and `Insert` are the two statements of `register`. `inserting` is the unique
index on `users.email` seen by open transactions: an INSERT waits for another
of the same email and then succeeds or fails (`Duplicate`, answered 500). A salt is
named by the request that generated it and a BCrypt hash by the password it
matches. `Refresh` needs a token, which a client has only from an earlier answer.

### ClientSession

The state is that of the page: `tokens` (sessionStorage), `key` (`_vaultKey`),
`entries` (`_entries`), `view`, `modal` (the entry form, which also keeps its
content while hidden), and for each running handler a `task` with its local
variables and the `await` it is at. One action runs from one `await` to the next.
The server is the vault API as the page sees it: a request takes effect at one
instant and its answer may be lost (`Break`), a request whose connection broke may
take effect after its handler has returned (`Forsake`: it keeps its slot, and is
no longer `live`), an expired or missing token is answered with 403 (`Deny`). The
tab may have been used before (`Before`): then tokens are left in it and an entry
of theirs is stored. A submit button is disabled while its handler runs
(at most one live save), a Delete button is not (several slots). `PerformLogout`
stops no handler and does not close the entry form; `ReloadPage` drops the page
but neither `sessionStorage` nor a request on its way.

The history variables `late`, `crossed` and `disturbed` mark the known weak
points of the code so that the properties can say precisely what holds outside
them: `late` marks loads, saves and forms that outlived the session they belong
to; `crossed` marks a session whose tokens were exchanged by the answer of a
refresh that a registration had started before; `disturbed` marks that since the
last undisturbed load handlers overlapped or one failed.

### SharedVault

A session is named by the login request that began it, and a tab has one
`sessionStorage` for all its sessions. `StoreTokens` and `OpenVault` are `performLogin`
before and after the await of `deriveKey`, which may throw (`DerivationFails`: the tokens
stay). `DeriveKey` makes the key from the password typed and the salt sent, and nothing
else makes two pages agree. `Encrypt` puts an IV in front of what AES-GCM made, leaves the
empty text empty, and `Decrypt` fails on any other key or IV. A save takes the key
first (`Encrypted`, vault.js:259), waits for WebCrypto, and takes the token only when it is
sent (`Create`, `Update`; api.js:39): `Bearer` is whoever the tab's tokens belong to by
then. In between the session may sign out, another may begin in the tab, and the
late answer of a refresh may bring back the tokens of an earlier one (`Refreshed`,
which the model allows at any time, although the code does it only after a 401). So a
field can be filed under one account (`owner`) that was typed and encrypted in another
(`by`), and an account can have a row that none of its pages can read. The properties
hold in spite of that: `ReadableEverywhere` says that a field is readable to every page
of the account it was typed in, and, as long as no session has ended, to that of its
owner; `UnreadableElsewhere` that no page of another account reads it, the one it
was filed under included.

### AuthForms, VaultGrid and Page

`AuthForms` has the two forms with their tabs, checks, messages and disabled
buttons, and the part of `request()` behind them: the first 401 starts a refresh
if there is a refresh token, the second is thrown with the server's message, and
without one every 401 is `SESSION_EXPIRED` (`SessionExpired`). A refresh answers for the token it
was sent with (`captured`) and stores what it gets whatever has become of the tokens
meanwhile (`Refreshed`); a login stores its tokens (`StoreTokens`), derives the key, which
may fail with them in place (`DerivationFails`), and then shows the vault (`LoggedIn`).
`VaultGrid` has the
panes (spinner, empty, grid), the cards with the listeners of their buttons, the
search box, and everything that ends in `renderGrid`: a load, a Delete that is
answered, a search. Neither has a next-state relation of its own: `Page` composes
them. They meet in `performLogin`, whose handler returns only when the vault is
loaded or has failed to, and in `performLogout`; `FormsStep` and `GridStep` are
what happens in one of them alone. `VaultViewCleared` is about the vault view after a
sign-out: its cards, revealed passwords and entries. It does not speak of the entry
form, which `performLogout` (app.js:125-131) leaves as it was, with a decrypted or
generated password in its field if it held one.

### Strength and EntryForm

A password is its length, the classes of its characters, and whether an obvious
pattern is in it: what `strength` tests. `EntryForm` is the field of the entry
form: opening the form resets or fills it without an input event, so the meter is
set by hand; the eye button and Generate change its type; `Hide` is the callback of
Generate's timer, which nothing cancels.

### Inactivity

A timer is the second at which it is due, or `Off`. `Reset` is `resetInactivity`,
`Stop` is `stopInactivityTracking`; a timer fires within `MaxLate` of being due, which is
a bound on the clock (`Tick`) and not a guarantee of order. `ClickDelete` opens
`confirm()`, which stops the event loop: no timer fires and time goes on, until
`CloseDialog`, whose click then counts as activity. The README's "Auto-logout after 5
min + 60s countdown warning" (README.md:104) does not hold with the dialog open:
however late it is answered, the session goes on. `IdleBound` therefore excepts it.

### Clipboard

Each copy is a handler with its own timer: `Click`, `Write` or `WriteRefused`, `Copied`,
and then `TimerFires` and `Clear` or `ClearRefused`. A write is refused in a page
without focus, and the code swallows that (`failed` remembers it); a reload loses
the timers. So "Clipboard auto-cleared after 30 seconds" (README.md:105) fails
when the user has gone to another window to paste, and the toast of vault.js:194,
"copied — clears in 30s", is wrong for a second copy, which the timer of the first
takes away earlier. The properties state what holds besides.

### Generator

A character is named by its group, a random number is a choice below its modulus.
`Place` is a turn of the loop that takes one character of each chosen group, `Fill`
of the loop that takes any, `Shuffle` a turn of the Fisher-Yates loop. `Clamp` is the
range of lengths, whose limits (8 and 64 in the code) are constants.
`Outcome` is the order that a series of choices in the shuffle makes, and
`ShuffleFair` counts the choices that lead to each order.

## Runs

One run per question. The type invariants that are proved for every instance are
left to the proofs.

| Run | Instance | What it shows |
|---|---|---|
| `RateLimiterSafety` | 3 requests, 1 address, limit 1, window 0, clock to 1, an array of 3 | `WindowBound`: of the requests that arrive and are decided inside one window at most the limit pass, provided that fewer than a new array has slots were logged around each of them; `RejectionJustified`: a refusal within a window of the arrival had more than the limit logged around it; `Answered`: nobody waits or prunes for ever |
| `RateLimiterDocumented` | 3 requests, 1 address, limit 1, window 2 | **violated**: `DocumentedLimit`, the limit as the comment at line 26 states it |
| `VaultStoreSafety` | 2 users, 3 requests, 1 id, 1 crash | `OwnerOnly`, `AcknowledgedDelete`, `Implements` (`VaultApi`), `DeletedForGood`, `Answered` |
| `SharedVaultSafety` | 4 requests, 2 emails, 2 passwords, any crashes, 2 tabs, 1 field, 1 save at a time | of `Accounts`: `SaltAgreement`, `RegisteredOnce`, `PasswordOfWinner`, `AccountsStay`, `NobodyStuck`; of the pages: `ReadableEverywhere`, `UnreadableElsewhere` |
| `ClientSessionSafety` | 2 accounts, 1 save, 1 Delete handler, 1 sign-out or reload | `KeyMatchesTokens`, `RowsReadable`, `PlaintextBelongs`, `ViewFresh` |
| `ClientSessionSaves` | 1 account, 2 saves, 2 slots, a tab used before or not | `HandlersEnd`, `NewestKept` |
| `ClientSessionRefresh` | 1 account, 1 save, 1 delete | **violated**: `RefreshOnExpiry`, the refresh that api.js:35 announces |
| `PageSafety` | 1 entry, the load of the login and one after a save | `TypeOK`, `FailureShown`, `GridShowsEntries`, `OnePane`, `VaultViewCleared`, `SpinnerStops` (the spinner goes, and the login button is enabled again) |
| `EntryFormSafety` | lengths 0, 7, 8, 15, 16, 20, timer 3 s | `FormTypeOK`, `MeterFresh`, `RatingSound`, `HiddenAgain` |
| `InactivitySafety` | timeout 4 s, warning 3 s before, timers 1 s late | `TimersOfSession`, `IdleBound`, `CountdownHonest`, `FairlyWarned`, `IdleSessionEnds` |
| `ClipboardSafety` | 2 copies, clear after 3 s, timers 1 s late | `ClearedInTime`, `EventuallyCleared` |
| `GeneratorSafety` | lengths 4 and 5, every choice of groups | `EveryGroupOccurs`, `ShuffleFair` |

Two disagreements between documentation and code are recorded as findings:

- The limiter is not atomic. A request takes its timestamp before the lock and
  reads the size after it; when a later request has polled the entries of the
  first one's window in between, both pass although only one may. And a reader that
  comes while the array is full and not yet replaced reads size 0. `WindowBound` is
  what is left: it needs the requests to be *decided* in the window as well, and
  fewer than `Capacity` requests, refused ones included, to have been logged from the
  window before their arrival to their decision. Beyond that the code has no bound.
- An expired access token is not refreshed. `SecurityConfig` names no
  authentication entry point, so Spring answers 403, and `request()` refreshes on
  401 only. The one place where the refresh code runs is a refused login or
  registration with tokens left from before a reload.

Others came up while modelling and show in an exception that a property makes: the
two of the sections on `Inactivity` and `Clipboard`; a login with a wrong password
ends without a word, because its 401 is taken for an expired session and the login
handler returns on that (app.js:236; `FailureShown` excepts it, although
SETUP_AND_RUN.md:494 shows the server's message "Invalid email or password"); and
a search without a match is answered with the pane "Your vault is empty"
(index.html:166; `OnePane` says only that nothing matches).

### Bounds and why they are enough

- Rate limiter: two requests race and a third prunes, or fills the array of 3
  slots, so that its growth is met by readers in every order; with limit 1 every
  comparison is at its edge. With window 0 one tick of the clock makes an entry
  expired, and one at the cutoff is still in; `RateLimiterDocumented` has a longer window
  and the array of the JDK, so its violation does not come from the growth. The two
  safety properties are also proved, for all sizes (`RejectionJustified` for a limit
  below `Capacity`; the code's are 5 and 17).
- Vault: each race in the code is one between two requests on one entry, set up by
  a third that created it; no transaction touches two rows. The safety properties
  and the refinement are proved for all sizes, so the instance is there for
  `Answered` and the mutants.
- Accounts and pages: two registrations and two logins, of one email or of two;
  refreshes in place of any of them. Both passwords let the loser of a race differ
  from the winner; one field is enough, since pages never compare fields, and
  one save at a time, since saves meet only in the field they replace; the empty text,
  which is stored as it is, is left to the proofs. Two tabs are needed for two
  sessions to be open at once, and one tab is used again for a save to outlive its
  session there. The server may crash at any time and any number of times. All
  properties are also proved, for all sizes.
- Client: two accounts in one tab with one change of session and a save, a Delete
  and a reload or sign-out at every await: enough for a handler of the first
  person to meet the form, the tokens or the key of the second. Two saves meet in
  an instance of their own, where an entry is stored already: both may edit it, and
  one may be left behind by its broken connection. The five safety properties
  are also proved, for all numbers of accounts, handlers, saves and sessions.
- Page: one entry, since loads, deletes and searches treat entries alike and what
  can go wrong is a card that is there or not; two loads overlap, one of them that
  of an earlier session. The five safety properties are also proved, for all
  entries and loads.
- Entry form: every length at a threshold of the meter and beside it is one that
  changes a point; the timer is longer than it takes to close and open the form.
  The three safety properties are also proved, for all lengths and delays.
- Timers: the limits are the smallest at which the warning, the countdown and the
  sign-out are apart and late timers change places. Proved for all values.
- Generator: all four groups fill the shorter length, and the longer has one
  more; both properties are also proved, for any lengths.

`CHECK_DEADLOCK` is on in every run. Where all requests are answered the modules
have an explicit `Done` step, so that any other stop would be reported; elsewhere
the user can always do something, or the server crash, and what must not wait for
ever is said by a property (`NobodyStuck`, `HandlersEnd`, `SpinnerStops`).

### Fairness

- `RateLimiter`, `VaultStore`: weak fairness of the steps of each request once it
  has started. A servlet thread is scheduled, and the lock of a
  `ConcurrentHashMap` bin or of a row is granted once it stays free. Weak fairness
  is enough because whoever holds a lock lets go of it without waiting, and the
  requests are finite. Arrivals, crashes, lost answers and the clock are not fair.
- `Accounts`: none. That a waiting registration can go on is the invariant
  `NobodyStuck`: an INSERT waits only for one that is about to commit.
- `ClientSession`, `Page`: weak fairness of each handler's and each load's steps.
  The browser's event loop runs every resolved promise, and a `fetch` ends with an
  answer or with the connection. What users do, and the timer, is not fair. The
  code sets no timeout on a `fetch`; `HandlersEnd` and `SpinnerStops` therefore rest on
  the connection to break in the end.
- `Inactivity`, `Clipboard`, `EntryForm`: weak fairness of time and of the callbacks
  that are due. A browser may fire a timer late, within `MaxLate`, but fires it;
  `EntryForm` has no such bound.

## Proofs

All theorems hold for every value of the constants that satisfies the named
assumptions (numbers are naturals, a warning comes within its timeout, a length
has room for all groups; `None`, `Absent` and the like are not members of the sets
they stand beside). Each follows the same argument: an inductive
invariant `IInv`, one lemma per action that it is preserved, and then that it
implies the property.

`RateLimiterProofs`. `WindowBound` is not inductive: it speaks of requests already
decided. The invariant adds that timestamps never exceed the clock (`TimesInv`), that
one thread per address is inside the lambda (`LockInv`), that each logged request
sits at its `pos` in `log` and its logging time lies between its arrival and its
decision (`LogInv`), that whatever has been polled was older than a window for the
one that polled it (`PolledInv`), where the unlocked reads fell in the history of the
deque (`ReadInv`), and what that says of the entries the property counts (`CountedInv`,
`DecisionInv`). None of this says what number a reader gets. That is the second part,
`DequeInvariant`: the three fields give the number of entries at every instant but
between the append that fills an array and its growth (`DequeInv`), and for a request
with fewer than `Capacity` logged around it, and not later than a window, no growth
comes between its reads, so that `SizeOf` gives the entries from the head it saw
to the tail it saw (`ArrayInv`, `ExactInv`). `LimitHolds` then takes, of the admitted requests in a
window, the one logged last: it counted all others, since none of them could have
been polled yet, and was admitted with at most the limit. A request that is crowded is
outside the statement, because for it the statement is false of the code.
`RefusalsJustified` needs no such precondition, only a limit that fits a new array: a
request that is crowded had more than the limit around it anyway. `PruningRunsOut` is
about the loop: while a request is in the lambda its address is its own, and each of
its steps, the growth included, leaves less to do.

`VaultStoreProofs`. The invariant relates transactions to the tables: a flushed
write holds its lock on a row that exists (`LockInv`), ids taken by open INSERTs are
fresh and distinct (`KeyInv`), past its select a transaction works on an entry first
created for its caller (`FoundInv`), content was written by the owner of its row
(`ContentInv`), statuses exist from the end of a transaction on (`StatusInv`), and
acknowledged deletes name entries that existed and are gone (`DeletedInv`). From it:
`OwnershipHolds`, `DeletesHold`, `NoResurrection` (an action property), and
`StoreImplementsApi`: each commit and each answer maps to one action of `VaultApi`,
every other step to a stutter. A lock is held only by a transaction that has nothing
but its commit to do (`HolderInv`), so no write waits for one that waits
(`NoCycleOfWaiters`); and every step brings its request nearer to its end
(`StepsRunOut`).

`SharedVaultProofs`, on `Accounts`. The invariant says that an uncommitted INSERT occupies the index
of its email and no row of that email exists (`IndexInv`), that a 201 carries the
request's own salt (`StatusInv`), that a row was made by the registration its salt
names (`WinnerInv`), and that logged-in requests gave the password of the row
(`LoggedInInv`), and that whoever is in the unique index is about to commit
(`HolderInv`). From it: `SaltsAgree`, `OneWinner` (two 201 for an email have the
same salt, hence are the same request), `WinnersPassword`, `WaitersGoOn` and
`AccountsKept`.

`SharedVaultProofs`, on `SharedVault`. The steps of `Accounts` inside the composition
preserve its invariant by the lemmas above. On top of it: a tab's tokens are of a login
that was granted (`TabsInv`), every session has the key of its account (`KeysInv`, from
`SaltAgreement` and the password of the row), a tab shows one session at a time
(`OneSession`), and what a save carries (`SavesInv`) and every field (`RowsInv`) was encrypted
with the key of the account it was typed in (`SealedFor`), whatever the owner it was
filed under; where the two differ, some session is over. An account never
changes, so that survives every step. Two accounts have different salts, because a
salt names the registration and that its email. From it: `VaultReadable`,
`VaultPrivate`, and `AccountsUnaffected`, that the composition implements `Accounts`.

`InactivityProofs`. `WarningInv` relates the two timers, which one `Reset` sets
together, to the last input and the clock; `CountdownInv` relates the number shown to
the time at which the warning came, in spite of late ticks, from both sides: each tick
may add its own lateness to what is shown too much (`Drift`). From it: `NoTimerLeftOver`,
`IdleTimeBounded`, `CountdownIsHonest`, and the action property `WarnedInTime`.

`ClipboardProofs`. A copy that has written is followed by its timer within the time
its three steps may take (`Prompt`), and whatever is in the clipboard has its
clear on its way or failed (`OnItsWay`). From it: `CopiesCleared`.

`GeneratorProofs`. The loops have filled the positions below `i`, each from a chosen
group and one from each (`WrittenInv`); exchanging two positions keeps that
(`ShuffledInv`). From it: `GroupsOccur`, for all lengths. `ShuffleIsFair` is about the
whole of step 3: every order of the characters comes from exactly one sequence of
choices. A turn puts a character where it stays (`TraceSettles`), so two sequences of
choices that make one order chose alike in the first turn, hence before the second,
and so on (`OneWay`); and as no turn loses a character (`TracePermutes`), the one an
order needs next is among those not yet placed (`SomeWay`). The induction over the
turns, which the provers do not do by themselves, is the least-element principle on
sets of naturals (`LeastNatural`, `Downwards`, `Upwards`), and the recursive function of
`Outcome` is shown to have its value by the same induction (`OutcomeOfTrace`).

`PageProofs`. The two views are proved about apart and combined in `NextInv`. A form
that waits has forgotten its last submission, and one that does not shows what
became of it (`SubmissionInv`). In the vault view every card has exactly one
listener per button (`CardsInv`); the empty pane and the grid exclude each other, the
spinner spins only for a load, and neither pane is missing unless a load has failed
(`PanesInv`); a load that runs after a sign-out was begun before it (`SessionsInv`), which
is why what it renders is marked. The views agree on who is signed in and on the
load of the login (`ViewsInv`). From it: `FailuresShown`, `CardsAreEntries`,
`OnePaneVisible`, `SpinnerHasLoad`, `ClearsVaultView`. For `EntryForm` the invariant
remembers that a generated value is still in the field (`FormInv`) and that what is
shown has its timer (`HidingDue`); the ratings are arithmetic on the
number of lengths and classes (`GeneratedRating`, `StrongIsLong`).

`ClientSessionProofs`. The three properties about who a thing belongs to are proved
together. An id, once known to the page or used by the server, belongs to one
account for good (`BelongsTo`): only the save that was to create it could use it
again, and no two saves create one id (`UniqueInv`). So a form that edits holds,
at worst, the text of the owner of the entry it would replace (`Holds`), and the
server refuses it under any other token. A login works in the auth view until it
opens the vault (`LoginFits`), so nothing it does meets a key of before; a load that
was decrypted and is not late was decrypted with the present key, which is none in
the auth view (`LoadFits`); a save that is not late has the key of the session and,
once sent, of its token (`SaveFits`). A sign-out or a reload makes all that runs
late, and that is what makes the three go through. From it: `KeysMatch`,
`SavedRowsReadable`, `PlaintextStaysHome`. `GridFresh` needs a second invariant on
top: undisturbed, at most one handler runs (`AloneInv`), and where it is says what
the grid will be (`Steady`). `OlderNeverWins` needs a third: a save that its page waits
for is the last one submitted (`NewestInv`). `HandlersNeverTurnBack` counts the steps
that each await leaves a handler at most.

Only model-checked: the liveness properties, as the prover reasons about neither
fairness nor ENABLED. What they rest on is proved where a cycle is the danger: no
one waits in a circle (`NoCycleOfWaiters`, `WaitersGoOn`) and no one goes round in one
(`StepsRunOut`, `PruningRunsOut`, `HandlersNeverTurnBack`), nor is the end ever left
to nobody (`SpinnerHasLoad`, `HidingStaysDue`). Every invariant and every action
property of the runs is stated by a theorem. No module declares a RECURSIVE
operator.

## Abstractions and what is not modelled

- Content of entries, passwords, tokens, salts and keys are names; what is kept
  is whose they are and which request made them. Cryptography is modelled by its
  contract: decryption succeeds under the key (and the IV) that encrypted and fails
  under any other. PBKDF2, AES-GCM and Base64 are the browser's.
- The lifetimes of tokens: a token may be refused at any time, and a refresh token
  accepted or refused. That the JWT filter looks at the signature and the type of a
  token is used in `Accounts` and `ClientSession`; signing and parsing are jjwt's.
- The requests of other devices to the same vault appear in `VaultStore`, not in
  `ClientSession`: there the page is alone, except for its own requests that it has
  given up. The code has no version column and no push, so the page promises
  nothing about them.
- The repeated request after a successful refresh is refused again (`Refreshed`):
  the login or the registration that got the 401 is the same.
- Toasts (app.js:33-55), the markup of a card and the escaping in it, icons, styles.
- Server cryptography: `CryptoService.encrypt` and `decrypt` are called by tests only;
  `generateSalt` is a fresh value in `Accounts`.
- Random numbers: the generator's are free choices, so the bias of `% array.length`
  for a modulus that does not divide 2^32 is left out.
- CORS, security headers, validation messages, the deployment files.
- A restart of the server in `RateLimiter`. The writes of `grow()` are one step: readers
  take their three reads in any order, so they see no more of several.

## Plan

Modelled, checked and proved: the two services and the rate limiter of the
server, the pages' keys, and of the browser the session, its timers, the
clipboard, the generator, the auth view, the vault view and the entry form. What
is left, in this order:

1. `Tokens`: lifetimes and types of access and refresh tokens against the clock,
   composed with the 401 and 403 paths of api.js.
2. `ClientSession` on top of `VaultApi` in place of its own server actions, with a
   second device that changes the same vault.
