# phygital-token: specifications and proofs

TLA+ specifications of the phygital-token system: a Solana program that binds a physical
accessory (an NFC chip with a passkey) to an owner, the web app through which accessories are
opened and claimed, and the client code around both. TLC model-checks them on small instances,
TLAPS proves theorems about the program, the server, the client's screens and the interface
between client and program for every instance.

Paths below are relative to `src/`; "program" is `programs/phygital-token/src`, "app" is
`app/src`, "sdk" is `packages/js/phygital-token/src`.

## Inventory

| Component | State | Operations | Meets | What is hard | What makes it correct |
| --- | --- | --- | --- | --- | --- |
| Role registry (program) | `AdminConfig`: admin, issuer, minter | `create_config`, `set_admin`, `set_issuer`, `set_minter` | every admin instruction reads it | long sequences of role changes, roles not assigned yet | no key ever has two roles; no step hands over two |
| Tokens (program) | one `PhygitalToken` account per passkey: owner, mint, last sign count, type | `initialize`, `assign_mint`, `close`, `remove_owner`, `set_owner`, `verify` | taps, SlotHashes, the registry | assertions late, reordered, submitted twice; accounts closed and issued again; addresses that forget a key's parity | a tap counts once and only for what was tapped; the newest transfer tap names the owner; locked tokens stay |
| SlotHashes lookup (program) | none; reads a sysvar | `fetch_slot_hash` | `set_owner`, `verify` | the bounds of the search, the unused tail of the sysvar | it answers as a lookup in the window |
| Introspection, precompile layout, client data (program) | none | offsets, JSON scan | `verify_webauthn_assertion` | boundaries and overflow in untrusted bytes | it reads what the precompile verified |
| Auth challenges (app server) | D1 table `auth_challenges` | issue, consume | tap resume, owner login | racing consumers, the clock read before the await | consumed once, never when expired, only for its purpose |
| Tap admission (app server) | D1 tables of counters and of identifiers | landing of a signed URL, resume by passkey | NFC chips, the RPC, sessions | concurrent requests, failures between awaits, a stale cache | one tap admits one browser, for the accessory tapped |
| Sessions and owner login (app server) | three signed cookies in the browser | tap, login, log out, open owned accessory | challenges, the chain | responses applied in any order, ownership that changes between check and use | the claim page needs a tap; a page opens for a tap or an owner |
| Claim screen (app client) | React state of `LinkScreen`, the transaction sent | refresh, tap, approve, poll | wallet, sdk, chain | wallets switched and timers firing between awaits, transactions that land late | it signs for the wallet tapped, and says what is so |
| In-app browser (app client) | the host of a frame, questions on the screen, approvals in local storage | connect, sign, hello, reload | the framed app, the wallet, the person | renders that lag behind state, requests of a stopped host, wallets switched under a question | the site learns and signs only what was agreed to; no question is lost |
| Wallet transfers (app client) | React state of `SendSheet`, the holdings read, the transaction sent | choose, type, max, review, send | wallet, chain | fees, rent and maxima at their boundaries; plans that outlive a sheet or a wallet; wallets that alter what they sign; unknown outcomes | what is offered can be sent, and what is sent is what was shown |
| Tap screen (app client) | React state of `TapScreen`, its timer, requests and taps under way | prepare, refresh, resume, leave | challenges, tap admission | a timer that sees the first render's state; challenges that age under the button, are late or fail to come | one tap at a time, over a challenge that is still good; the person can always go on |
| Accessory page, release (app client) | React state | open, release | sessions | repeated submission | as the claim screen |
| Client SDK | none | challenges, key recovery, precompile instruction, queries | program, app | byte offsets summed on one side and read on the other; two candidates for a public key; an array that is appended to | the program finds the tap that was made |
| Generated SDK code | none | builders, parsers, codecs, events, errors, account readers | program, app | order, rights and layout agree with the Rust source through nothing but bytes, at any deployment | what is asked for is what runs, and what is read back is what happened |
| Project pages, apps, media, icons; holdings; user interface | caches | fetch, validate, show | | none that ownership depends on | |

How they meet: the accessory's chip makes a signed URL (tap admission) or a passkey assertion
(tap admission, claim screen). Admission sets `browse_unlock`, which opens the accessory's page
and its claim page. The claim screen has the accessory sign a challenge that names token,
recipient and a recent slot hash, has the wallet approve a transaction with it, and the program
checks and records it. Owners log in by a wallet signature over a challenge of the same table
and open what the chain says they own. Apps opened from an accessory run in a frame and reach
the wallet through the in-app browser's host.

## Modules

| Module | Models | State and actions |
| --- | --- | --- |
| `AdminConfig` | program `state/admin_config.rs`, `instructions/admin/*` | `adminConfig`; one action per instruction |
| `PhygitalToken` (extends `AdminConfig`) | program `state/phygital_token.rs`, `instructions/token/*`, `webauthn/{challenge,mod}.rs` | accounts by address, slot and SlotHashes, each accessory's sign count, all taps ever made; one action per instruction, one for a tap, one for a slot |
| `Ownership` | the promise of the token instructions | deeds, how often each accessory was tapped, wishes that have not lapsed; a deed follows its accessory's wishes forwards only; `PhygitalToken` implements it (accounts are deeds, sign counts their order, recent transfer taps the wishes) |
| `SlotHashLookup` | the promise of `fetch_slot_hash` | answers in one step |
| `SlotHashSearch` | program `sysvar/slot_hashes.rs` | `left`, `right`, `answer`; one action per turn of the loop; implements `SlotHashLookup` |
| `Challenges` | app `lib/server/challenges.ts` | the rows and the clock; extended by the next two |
| `TapAdmission` | app `lib/server/tap/*`, `lib/server/accessory/resolve.ts`, sdk `utils/metadata.ts` | each request is a small program with a step per await, over the D1 tables and the chain's registry |
| `OwnerSession` | app `lib/server/session/cookies.ts`, `lib/server/accessory/owner-browse.ts`, the routes, `middleware.ts` | the browser's cookies, requests under way with the cookies they carried, responses not yet applied |
| `LinkFlow` | app `components/app/LinkScreen.tsx`, `lib/client/link/flow.ts`, `lib/client/tx.ts` | the screen's state variables and refs, its effect, the approval, transactions sent and landed |
| `TapScreen` | app `components/app/TapScreen.tsx`, `app/api/tap/challenge/route.ts`; of `resume.ts` what the page tells apart | the page's state variables, its requests for challenges and its taps under way; one action per handler and per await, one for the timer |
| `EmbedHost` | app `lib/client/wallet/embed-host.ts`, `components/app/EmbedBrowser.tsx`, `WalletConnect.tsx`, part of `wallet-context.tsx` | the requests of a frame, what the provider knows and what was rendered, the login, the question, the approval stored |
| `WalletTransfer` | app `lib/shared/{amount,wallet-fee,wallet-transfer}.ts` | none: what a transfer costs, the most that can be sent, why not, its instructions, the comparison with what was signed |
| `TransferSheet` (extends `WalletTransfer`) | app `components/app/SendSheet.tsx`, `lib/client/wallet/{send,wallet}.ts`, parts of `wallet-holdings.ts`, `WalletScreen.tsx`, `HoldingsList.tsx` | the sheet's state variables, the holdings read, the review or send under way, transactions sent, the chain's balances; one action per event handler and per await |
| `Wire` | addresses, instructions, data as fields of a width | none: encoding and decoding, bytes at an offset |
| `ClientInterface` | sdk `generated/*`, `utils/metadata.ts`, `utils/lock.ts` | none: builders, parsers, events, errors, accounts, queries |
| `TapClient` (extends `ClientInterface`) | sdk `instructions/{transfer,verify}.ts`, `instructions/internal/secp256r1Verify.ts`, `utils/passkey/*`, `utils/pdas/token.ts` | none: from a tap to instructions |
| `ProgramEntry` | program `instructions/*` (accounts, parameters, events), `state/*`, `error.rs`, `lib.rs` | none: what the program declares, what Anchor checks of it, what each handler writes and emits |
| `Introspection` (extends `ProgramEntry`) | program `webauthn/{secp256r1,mod}.rs`, `sysvar/instructions.rs` | none: how the program finds the tap |
| `ProgramInterface` | a call from client to program and back, with `TapClient` and `Introspection` as instances that share no definition but `Wire`'s | the transaction sent, what comes of it, the accounts of two deployments; asking, failing, refusing, rejecting, accepting |
| `PhygitalTokenProofs` (with the registry's, the slot search's and that `Ownership` is implemented), `TapAdmissionProofs`, `OwnerSessionProofs`, `LinkFlowProofs`, `EmbedHostProofs`, `TapScreenProofs`, `TransferSheetProofs`, `ProgramInterfaceProofs` | | theorems and proofs, one module for each specification they extend |
| `MCPhygitalToken`, `MCTapAdmission`, `MCOwnerSession`, `MCProgramInterface`, `MCTransferSheet` | | instances for TLC: contexts, the address function, symmetry, balances and amounts |

Definitions introduced by "Faulty variant of the next definition" are not part of any
specification: each is that definition with a plausible mistake in it, and shows that a property
notices the mistake. Variables marked history record what happened and influence nothing.

Abstractions, by module:

- `PhygitalToken`: hashes are free constructors and signatures cannot be made for somebody else,
  so the assertions that reach the program are the taps made; anyone may submit any of them at
  any time, any number of times. Account rent, events and the layout of accounts are left out.
- `Challenges`, `TapAdmission`, `OwnerSession`: a D1 statement is atomic; one that throws may
  have been executed. A worker may be gone between any two awaits. Time is a counter; a request
  reads it where the code does. Cookies are what the server wrote.
- `LinkFlow`, `EmbedHost`: an event handler, or what follows an await, is one step.
  In `LinkFlow` the render and the effect it causes belong to the step. In `EmbedHost`, where
  that matters, the render is an action of its own, and continuations of settled promises run
  before any other event. Timers that are set may fire at any time. The phone's own
  capabilities (desktop, a browser without WebAuthn) are left out.
- `TapScreen`: time is counted in periods of its timer (15 s), and a challenge is its two ages
  (since it was issued, since it came), so time has no last moment. A challenge is expired from
  its eighth period on, the last of which it may in fact still live in part. The page stays in
  the foreground: browsers hold back the timers of others.
- `WalletTransfer`, `TransferSheet`: an amount typed is a whole part and a sequence of digits. A
  wallet holds SOL and one token, whose accounts are named by their owners. The chain charges
  fees and rent as the runtime does; `ExtensionRent` is what a token program's extensions add to
  the rent of an account. A wallet may return or send anything of `Altered`. Its
  comparison states what is left without guards as a place for each call expected, in order, with
  guards elsewhere.
- `Wire` and the modules over it: a field is a cell with a width, and a reader that counts other
  widths up to it gets `Garbled`. Discriminators stand as their first byte, which tells them apart.
  Whether a handler accepts (roles, sign counts) is left open in `ProgramEntry`, as it is modelled
  in `PhygitalToken`; the lock, and whatever is wrong with the way to the tap, are decided. The
  precompile runs before any program and is modelled as `secp256r1.rs` describes it: it takes at
  most `MaxSignatures` triples (eight as deployed, three in the run), each a signature over its
  message by its key. The Rust and the TypeScript half are written apart and never refer to each
  other.

`TypeOK` of the app's modules (`ChallengesTypeOK` for the rows) states the shape of their state
for the reader; the runs spend themselves on the other properties. `TypeOK` is proved of every
module with proofs (`TokenTypeCorrect`, `SearchTypeCorrect`, and as a part of `Inv` elsewhere), as
are `RolesHandedOver` and `Halves`: no run repeats them.

## Runs

| Run | Question | Instance and why it is enough |
| --- | --- | --- |
| `token` | does each tap count once, on one token, only as tapped, do locked tokens stay, is ownership what `Ownership` promises, and can any order of role changes give a key two roles? | two accounts, each created twice, the accessory's key and its parity twin, another key, two taps at once (one overtaken by the other), asked for silently or not, three slots with a window of one, so that challenges expire; three keys for the roles and the owners. the caller allows either site or both. The program compares a mint with nothing, so no mint but the unset one is needed; prompts of another type than an assertion are left to the theorems |
| `slot_search` | does the binary search end and answer as the lookup? | every sysvar of up to five entries over seven slot numbers: empty, one, even and odd, with gaps |
| `tap` | do signed URLs and answers to challenges admit once, in time and for the accessory tapped, and is no good URL ever lost? | two requests of either kind, two chips with two URLs each, two challenges for either purpose, one passkey tap over either of them, accounts at two addresses: repeats, overtaking, expiry between awaits, a tap sent for another challenge, an identifier that moves to the other address or is at both |
| `sessions` | do cookies applied in any order open only what was tapped or owned? | one accessory, two wallets, two requests at a time, lifetimes of one and two ticks |
| `link` | does the claim screen sign for the wallet tapped, once, and say what is so? | two wallets, three taps |
| `embed` | does the site learn and sign only what was agreed to, and does each question stay on the screen until it is answered? | three requests, one reload, two wallets: one request pending, one refused as busy, one of the new host |
| `tap_screen` | does the page of an expired session come to offer a tap, over a challenge that is still good, one at a time? | the real lifetimes in periods (eight, replaced after six), two requests and two taps at once: a late answer overtaken by a newer one, a second tap while one is under way |
| `interface` | does every instruction arrive as it was meant, the tap found, and is what the client reads back what happened? | two deployments, two transactions in a row, two wallets, keys and identifiers (one value is both), no array of signatures, an empty one, one with an entry of another length whose signature is bad, one with room for one more, every instruction by every builder (`initialize` with a type and an owner that fit each other: the program refuses the rest), accounts missing, added or of the other deployment, another program before or between |
| `transfer` | can what is offered be sent, is the maximum the most, and is what is sent what was shown, once? | one review sent twice, two wallets (one returns what it signs, one sends it), a stranger; balances on both sides of fee, rent and rent exemption, one of which can pay the total but not the extensions of the account opened; one change by others or switch of wallets at any point |

In `transfer` a fee of two lamports, rents of three and four and one or two decimals keep every
boundary of the arithmetic within a few lamports; nothing in the code depends on the sizes.
Every bound is a constant of its module (`MaxTaps`, `MaxRequests`, ...) or a small set in the
`.cfg`. The search terminates, so `slot_search` also covers liveness. Runs say
`CHECK_DEADLOCK FALSE` where the bounds make the model run out of steps.

Three runs end in a violation: each checks one sentence of a comment or of the screen's own
words against what the code does.

| Run | The sentence | What happens |
| --- | --- | --- |
| `link_unknown` | "Nothing was changed. Try again." | the answer was lost, the transaction lands |
| `embed_shown` | "Only accounts the person approved for this site" | the question follows a switch of wallets, what is remembered does not |
| `transfer_total` | "All the SOL that leaves the wallet." | the recipient's account of a token program with extensions (Token-2022, whose tokens the wallet lists) costs more rent than the constant |

Where a comment says more than the code keeps, the property states what the code does keep:

- `verify.rs` says an assertion "cannot be reused"; closing an account forgets its sign count, so
  `SingleUse` is stated for one life of an account, and `TransferAsTapped` over two.
- `admin_config.rs` says the keys are "always distinct and never the default key"; issuer and
  minter are the default key until they are set, so `RolesSeparate` exempts that key.
- `resolve.ts` says that address and identifier are "immutable after `initialize`"; an account can
  be closed and its identifier issued with another passkey, while the cache is never asked anew.
  `AdmitsTheTapped` asks for the account there is when the session is given, and permits besides
  only, for a URL, an account that was closed after its address had been read.
- `owner/session/route.ts` says a log out drops "any owner_browse it issued"; an open still under
  way is answered later and sets it, so `LogoutLasts` starts when nothing else is under way.
- `ARCHITECTURE.md` says connect is approved "once per origin and account"; only the last account
  is remembered, so nothing is stated about being asked again.
- `metadata.ts` calls the byte after the token type "reserved"; it holds the bump. The offsets
  agree, as `AccountsReadTrue` shows.
- `secp256r1.ts` takes an array of earlier signatures to append the tap to; one that is given but
  empty is not appended to, and yields an instruction without a signature. The SDK does not say
  whether it may be empty. `TapIsFound` says what then happens: the tap is not written, the
  precompile does not accept an instruction without a signature, and the program would refuse it
  (`SignatureIndexOutOfBounds`).
- `fetchPhygitalTokenByIdentifier` and `fetchPhygitalTokenByMint` answer with the first account the
  node lists, and identifiers and mints may be shared: `AccountsReadTrue` says that the answer is
  one that has what was asked for, and null only if there is none.
- `wallet-transfer.ts` counts one rent for every token account. `OfferedIsSendable` says what that
  is worth whatever extensions cost: the total always leaves the wallet what it needs, and a
  transfer the chain refuses, or takes more for, is one that opens an account with extensions.

Some behaviours of the models that no run states: after an approval expired, the claim screen may
prepare for ever, as nothing fetches a challenge again (`LinkFlow`, `TapExpires` and `Effect`);
and a connect request between the end of a login and the next render opens no login and leaves
the host busy (`EmbedHost`, `ReceiveConnect` and `Render`). A tap on the page of an expired session
may fail as too slow, whose words are "Approvals last about a minute.", after less than 15 s: the
challenge under the button lives two minutes and may be old, or come late, when Continue is
pressed (`TapScreen`, `Due` and `TooSlow`).

## Fairness

- `SlotHashSearch`: weak fairness of every step, as a program that was started runs until it
  returns.
- `LinkFlow`: requests of the page are answered or fail, timers fire, the poll ends (it has a
  deadline). Nothing is assumed of the person, the wallet or the chain.
- `TapScreen`: the timer goes on, prompts end, of the requests for a challenge not every one
  fails (strong fairness), and the request of a tap is answered or fails. Nobody has to press
  anything or to leave.
- The other specifications state safety only: requests may always be dropped.

## Proofs

The only assumptions are those the modules make of their constants. They give the types of
numbers and sets, keep the markers (`NoToken`, `DefaultKey`, `Nobody`, `None`, ...) apart from
values, and say what the code's constants say: challenges and sessions live for a while
(`ChallengeAssumption`, `SessionAssumption`), a challenge under the button is replaced more than a
period before its end (`TapScreenAssumption`; the code has 90 s and 120 s), a login has a
namespace of its own and its challenges name wallets (`SessionAssumption`), and an answer is not
taken for an account (`EmbedAssumption`). `SheetAssumption` gives the types of ledgers, amounts and
texts, and `InterfaceAssumption` asks for one key at least, as the interface starts from a token
that was issued. `TapAssumption` says that no two accessories, and no accessory and the second key
that fits a signature, have the same x-coordinate (it is all that the address of a token is made
of), and that the placeholder a platform reports is nobody's passkey.
Nothing bounds the number of keys, accessories, slots, taps, requests, wallets or
reloads: `MaxTaps`, `MaxRequests`, `MaxReloads`, `MaxTime` are any numbers. TLC evaluates every
assumption on the instances it checks. One hypothesis stands in one theorem beside these
assumptions, `ExtensionRent = 0` in `TotalCoversAllButExtensions`; see `TransferSheetProofs` below.

Each module has its inductive invariant `Inv` at its end, in named parts; TLC checked it before it
was proved. The safety properties are not inductive alone, and this is what they need:

- Registry (in `PhygitalTokenProofs`). The types and the separation of roles are inductive as they
  stand; that roles are handed over one at a time follows from the types alone.
- Slot search (in `PhygitalTokenProofs`). `SearchInv` adds the loop invariant `RuledOut`:
  everything left of `left` is above the slot wanted, everything from `right` on is below it. With
  it, a step of the search is a step of `SlotHashLookup` or a stutter (`SearchIsLookup`), and every
  probe halves the interval (`ProbesHalve`).
- `PhygitalTokenProofs`. That an account accepts an assertion
  once needs `AcceptedCovered`: no assertion accepted in the account's present life has a count
  above the recorded one. That needs `AcceptedInPlace` (assertions are accepted at the address
  of their key, in lives that have begun) and `AccountsInPlace`. That taps
  can never be locked out needs `TapsCounted`; that Permanent tokens stay needs
  `PermanentOwned`. There is one lemma per kind of instruction and
  part of `Inv`, and `InvStep` puts them together. The action properties follow from `Inv` and
  what each instruction does to an account (`AccountStep`). `RegistryImplemented` shows that the
  program implements the registry's own specification, so that what was proved of `AdminConfig`
  holds in the program.
  That `Ownership` is implemented is proved there too: a step of the program is a step of
  `Ownership` or none of it
  (`OwnershipStep`), one lemma per instruction, from `Inv` and `TapsOfPast`: a tap names a slot
  that is past, so a slot hash that left the window never comes back to revive a wish.
- `TapAdmissionProofs`. That two requests are never admitted for one URL or challenge is a fact
  about requests that are still on their way: from the statement that consumes it on, a request
  has `Spent` it, what is spent is covered by the chip's mark or gone from the table
  (`SpentAreGone`), and so nobody else spends it (`SpentOnce`; ids tell challenges apart,
  `IdsDiffer`). That a URL stays good until it or a newer one is consumed needs that a mark is
  always a consumed URL's (`MarksConsumed`). That a session names the account of what was tapped
  needs that an address held for a chip, in the cache or on its way there, is of an account that
  bears its identifier or was closed while the address was held (`AccountsKnown`); that a
  resumption is fresh needs that passkeys are tapped after the challenge was issued
  (`TappedAfterIssue`) and before the request is sent (`InputsFit`). Both are action properties
  over `Inv`: what is said of an account is said of the moment the session is given.
- `OwnerSessionProofs`. A property of cookies must hold of the cookies on their way: each part
  speaks of the cookie the browser holds and of the one each response brings. A `browse_unlock`
  has a tap behind it (`UnlocksByTap`), an `owner_browse` an owner since the request was made,
  from the answer of the RPC on (`BrowsesByOwner`), an `owner_session` a signature and a challenge
  that is used up (`LoginsBySignature`). That at most one admit is held in whatever order
  responses come needs that an answer that sets one clears the other (`ResponsesClear`), and that
  a log out lasts that nothing is left on its way (`LogoutClears`).
- `LinkFlowProofs`. That what the screen says stays so needs that nothing is left that could still
  belie it (`SaidForGood`), which needs that the tap at hand is unused until its approval ends
  (`TapIsUnused`) and that taps to come are untouched (`NothingOfLaterTaps`). That what is sent
  names the wallet that was tapped needs that the two are compared before the wallet is asked
  and do not move after (`ApprovedAsTapped`), one approval at a time (`OneThingAtATime`).
- `EmbedHostProofs`. That a request waiting for the person is on the screen is about two hosts, the
  frame's and a stopped one's, that share one question and one login. It needs that a host handles
  one request at a time (`OneAtATime`), that requests go on in the order they were sent once the
  session is restored and are all gone on before anything else can end (`ResumedInOrder`,
  `ResumedAtOnce`), and that a request of a stopped host holds the login only while the new one
  cannot ask anything (`StoppedHostWaits`). Consent needs that what is remembered was agreed to
  (`RememberedAgreed`); that no answer names an account the wallet has left is an action property
  over the same `Inv`.
- `TapScreenProofs`. `RefreshedInTime`: a challenge older than the timer's limit is being replaced,
  by a request that has waited once it is a period older still, unless a request for another failed
  since it came (`lost`). `TappingIsOneTap`: while the page is shown, the taps under way are the one
  it knows of, or none.
- `TransferSheetProofs`. That what is sent is what was shown needs that a plan is what the form
  says, or the form says nothing and offers nothing (`FormFits`: a plan may come into a form that
  was closed), that the plan under way is the one shown at the last press (`SendFits`), and that a
  transaction that passes the comparison makes one payment whatever else the wallet put around it
  (`OnePayment`). That nothing is sent twice unasked needs that plans are numbered
  (`PlansNumbered`) and that a plan that was sent is at hand only until its sending ends
  (`SentIsSpent`). None of this looks at the chain.
  What the chain makes of a transaction has an inductive invariant of its own, `Sound`: accounts
  that exist keep their rent (`LedgerLives`), the form holds amounts and texts (`FormTyped`), a
  plan's cost and problem are those of its request and of what was read for it (`PlanFits`), and
  what a sender holds or has sent comes from such a plan and, as far as the page saw it, is intact
  (`WorkFits`, `SentFits`). With it
  `AlwaysMaxIsMost` and `AlwaysOfferedIsSendable` rest on two lines of lemmas. One is the
  arithmetic: for every balance, fee and rent, exactly the amounts from 1 to `MaxSendable` have no
  `TransferProblem` (`MostOfSol`, `MostOfToken`). The other is data: the text of an amount is read
  back as that amount, for any amount and any number of decimals (`AmountsReadBack`).
  The code counts one constant rent for every token account; extensions a token program adds
  (`ExtensionRent`) cost more. `AlwaysOfferedIsSendable` holds for any: what a total leaves out is
  exactly the rent of the extensions of an account the transfer opens (`LeftOut`), and the chain
  refuses what is offered only if that eats into what the wallet needs.
  `TotalMissesExtensionsOnly` says the first part of every transfer sent.
  `TotalCoversAllButExtensions` is stated for `ExtensionRent = 0`, the code's own picture, and the
  run `transfer_total` shows that it fails without.
- `ProgramInterfaceProofs`. `ReadAlike` is about any instruction whatsoever, one no builder made
  included: the client's parser refuses it exactly when the program finds it illegible, and else
  reads the call the program runs; field by field, by the name each declares, and account by
  account. The other properties are about what this client sends. Their `Inv` says that accounts lie
  where their kind and deployment put them (`InPlace`: derived addresses tell deployments, kinds and
  keys apart), that what is asked for is one of the things that can be (`AskedFor`), that the last
  instruction is what the builder makes of it (`SentAsBuilt`), and that what came of it is what the
  handler (`Handled`) or a refusal (`FailedSo`) leaves. `AlwaysArrivesAsMeant` then comes down to
  each of the ten builders listing accounts, rights and fields in the order the Rust structs
  declare; `AlwaysEventTellsChange` to the same of the nine events; and `AlwaysAccountsReadTrue` to
  the encoders and decoders of the two accounts undoing each other, to the offsets of the queries
  being the widths of the fields before, counted to the last byte, and to a query for one token
  answering with one of those it found. `AlwaysTapIsFound` needs more of the state, `TapInv`: a
  token holds the key its address is made of (`KeysHeld`), and a tap that is on its way was made by
  the key it is sent under, over the challenge of the call, in the instruction built of it
  (`TapSent`); that a key recovered from two candidates is the accessory's own comes in here. What
  is left is arithmetic. The client sums sizes entry by entry to know where each key and message
  will stand, the encoder writes the table and then the payloads, and the program reads at 2 + 14 *
  index and follows what stands there: by induction over the entries (`KeysPlaced`), and over the
  cells written (`RunningSums`), for an array of any length with messages of any size, these are the
  same bytes, and so are the signature's, which the precompile reads there. Offsets are numbers
  here, of no width; a transaction of 1232 bytes is far below the 65536 at which a `u16` would wrap.

The library's induction theorems take an operator, which no installed prover can instantiate. Where
the proofs above need induction over data (the digits of an amount, the entries of an array) they
take a counterexample that is minimal among all (`WFMin`, the least element of a set of numbers) and
show that there is a smaller one; recursion in the models is written as recursive functions for
that.

Only model-checked:

- All liveness (`Answers`, `ConfirmingEnds`, `ComesToContinue`) and what needs `ENABLED`: out of the
  prover's reach.
- The three sentences of the violation runs, which are false.

No module uses `RECURSIVE`.

## Plan

Done: the modules and proofs above. Next, in this order:

1. The scanner of `webauthn/client_data.rs` over bounded buffers.
2. Release and the accessory page; the parsing of bridge messages and the
   validation of transactions that wallets return for a claim.

## Not modelled

- Project pages, apps, media and icons: stateless fetching and validation of metadata.
- Lists, prices and layout of the wallet, home and accessory screens; user interface parts.
- In modelled components: the JSON scanner and the bytes of the Instructions sysvar (program);
  the WebAuthn prompt, encodings and key arithmetic (SDK); the release of an accessory and the
  validation of claim transactions (claim screen); the parsing of bridge messages (in-app
  browser); log outs under an open sheet, wallets that raise the priority fee, more than one
  token (wallet transfers).

## Running

    tlc -config MCPhygitalToken.cfg MCPhygitalToken
    tlapm PhygitalTokenProofs.tla

`PROJECT.json` lists every run with its module and configuration, the lines each definition
models, and the hazards the properties are for.
