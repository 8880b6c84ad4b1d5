# XMiete: TLA+ models, model checking and proofs

This directory holds TLA+ specifications of the XMiete server (`server/`) and
of the SDK examples (`sdk-examples/`), the TLC configurations that model-check
them on small instances, and TLAPS proofs of their main properties for every
value of the constants. Paths below are relative to the repository root;
`api/`, `db/`, `issuance/` and `verification/` stand for
`server/internal/api/` and so on.

## 1. The system

| Part | State | Operations | Modelled in |
|---|---|---|---|
| Deposit lifecycle: `api/handlers.go`, `statemachine/transitions.go`, `db/postgres.go` | rows of `deposits` (one JSON document each) and `deposit_history` (audit) | create, identity, pledge, release, claim, settle, settle/accept, dispute, dispute/resolve, partial-release, utility-settle, vp-response | `DepositLifecycle` |
| Credential issuance (OID4VCI): `api/issuer_handlers.go`, `db/session_store.go`, `issuance/session.go` | issuance sessions (PostgreSQL or in memory) | issue-credential, token, credential, revocation, expiry | `IssuanceSessions` |
| Status list: `issuance/statuslist.go`, `db/statuslist_store.go` | a counter | allocate an index, build the bitstring | `IssuanceSessions` (indices), `StatusList` (bytes and bits) |
| Presentation (OpenID4VP): `api/verifier_handlers.go`, `verification/vp.go` | VP sessions, in memory only | vp-request, vp-response | `Presentations` |
| Bearer tokens: `api/middleware/auth.go` | the JWKS key cache | keyFunc, refresh, the two middlewares | `JwksCache`, `TokenCheck` |
| Notifications: `fireWebhook`, `mailer/` | none (goroutines) | started after a commit | `Notifications` |
| Receipts: `receipt/pdf.go` | none | receipt, release confirmation | `Notifications` |
| Conformance validator: `validator/`, `api/validate_handler.go` | none | POST /validate | `Validator` |
| Discovery endpoints, router, start-up | none | read only | no, see section 8 |
| SDK examples in Go, Java, Rust, TypeScript: `sdk-examples/*/eid` | webhook events being handled | InitiateVerification, HandleWebhook, UpdateDepositKYCStatus | `EidWebhook` |
| the same: `openid4vp`, `auth` | none | BuildVpRequest, VerifyVpToken, ValidateToken | `VpCheck`, `TokenCheck`, `SdkChecks` |

How they interact: one `Server` value owns the repository, the session store
and the VP store. `issue-credential` reads the deposit and wants it PLEDGED.
`release`, `settle/accept` and `dispute/resolve` revoke the deposit's
credentials after their commit. `vp-response` reads a VP session and the
deposit, checks the credential, writes a WALLET entry into the deposit's
history and deletes the VP session. An integrator's eID webhook handler calls
`PATCH /deposits/{id}/identity`; integrators may check presentations and
access tokens themselves with an SDK instead of asking the server.

### What makes it hard

Every lifecycle handler has the same shape: an unlocked read (`GetByID`),
validation of that copy, then `UpdateState`, a transaction that locks the row,
applies the handler's patch to what the row holds *then*, and overwrites the
state without comparing it with the one that was validated. What follows the
commit (revocation, deletion of the VP session, webhook) is done in separate
statements that may fail or never run. So the questions are: what remains true
when two requests overlap, when a statement fails, when the server restarts,
when a code is exchanged twice, when answers of the key endpoint arrive out of
order, when an eID report is delivered again or the integrator's process stops
half way, and whether five implementations of one check decide alike.
`PROJECT.json` lists these hazards with their source lines and the properties
aimed at them.

## 2. Modules

| Module | What it is |
|---|---|
| `DepositLifecycle` | the handlers over the repository; requests in flight are explicit |
| `DepositContract` | what the deposit API promises, without requests or storage |
| `SerialLifecycle` | the refinement mapping from the first to the second |
| `LifecycleClaims` | statements of the repository's docs about deposits that the code does not keep |
| `IssuanceSessions` | issuance over both session stores, indices, revocation, status |
| `CredentialRegistry` | what issuance promises a verifier |
| `IssuanceRegistry` | the refinement mapping, and one claim the code does not keep |
| `StatusList` | `IssuanceRegistry` with the status list being made and kept |
| `CredentialLifecycle` | `DepositLifecycle` composed with `IssuanceSessions` |
| `CredentialFaults` | the same, remembering whether something failed |
| `Notifications` | `SerialLifecycle` with webhooks, mails and papers, and a subscriber |
| `Presentations` | `CredentialLifecycle` extended with VP sessions, presentations and restarts |
| `JwksCache` | the key cache and an issuer that rotates its keys |
| `EidWebhook` | `DepositLifecycle` composed with the eID flow of the four SDKs and the provider |
| `VpCheck` | the five presentation verifiers (server and SDKs) as operators |
| `TokenCheck` | the four access-token validators and the two middlewares as operators |
| `SdkChecks` | a verifier at work: request, answer, time, decision; what the implementations promise and where they differ |
| `Validator` | the conformance checks, in the loop of a client that edits, validates and creates |
| `DepositLifecycleProofs`, `SerialProofs` | proofs about deposits: overlapping requests, and requests that do not overlap |
| `IssuanceProofs` | proofs about issuance and the status list |
| `CredentialProofs`, `PresentationProofs`, `EidProofs` | proofs about the compositions |
| `JwksProofs` | proofs about the key cache |
| `CheckProofs` | proofs about the validator, the verifiers and the SDKs |
| `MCLifecycle`, `MCNotifications`, `MCIssuance`, `MCStatusList`, `MCCredentials`, `MCCredentialFaults`, `MCPresentations`, `MCJwks`, `MCEidWebhook`, `MCSdkChecks`, `MCValidator` | constants for TLC |

Operators whose comment begins with "Mutant:" are not part of the system. Each
is a variant of the operator below it with a plausible mistake; substituting
it must make TLC report the property it is meant for.

### DepositLifecycle

`deposits[id]` is the JSON document of a row (or `Nil`), `audit[id]` the rows
of `deposit_history`, `calls[r]` the request that slot `r` serves. A request is
up to three steps:

1. the handler's own action (`Pledge`, `Settle`, ...): the read, the checks
   and early returns as guards, and a record of what the closure passed to
   `UpdateState` keeps (`Call`). Requests that are refused change nothing and
   are not steps;
2. `UpdateState`: patch, state, history entry and audit row in one
   transaction. `Patch` dispatches to one operator for each handler's closure;
3. `RevokeCredentials`, `DeleteVpSession`, `Notify`: what follows the commit.

`CreateDeposit` and `InsertHistory` are two steps because `Create` runs two
INSERTs without a transaction. `Fail` ends a request between any two steps (a
statement fails, the process stops). Names, dates, claim items, references and
wallet metadata are payload; amounts are integers, since the code only
compares, subtracts and copies them. A client may create a deposit that
already carries a settlement, a reservation or a pledge (`Create` stores what
it is sent); `MCApplications` contains such a document.

### Notifications

What follows a commit. `updated[r]` is the row that `UpdateState` handed back
to the handler (the webhook and the mail are made from it, not from a new
read), `outbox` the messages whose goroutines have been started, `clock` the
timestamp of the last event. `Announce` is `Notify` of `DepositLifecycle` with
what it sends: an event after every commit, the receipt after a pledge, the
release confirmation after a release. `Deliver` takes messages in any order;
`Lose` is a failed POST, a failed mail or a process that stops, and nothing in
the code tries again. `mirror` is a subscriber (external) that keeps the event
with the latest timestamp, the only order an event carries. `fault` remembers
that something was cut short or lost. Papers are records of what they state:
the amount, the confirmation by the bank, the release they date
(`releasedAt`: the first RELEASED entry of the history, or today), the interest
they list and the total they say is returned. The last two come from `trust`,
the trusteeship of the application, which `Create` stores and no handler
changes: its balance, if it states one, otherwise the amount.

### IssuanceSessions

`sessions[s]` is a row of `issuance_sessions` or an entry of the memory
store's maps, `nextIndex` the counter, `inFlight[w]` a handler between two
store calls, `held` the credentials that reached a wallet. `IssueCredential`
and `CreateSession` are two steps (index, then INSERT); `Credential`,
`ConsumeByToken` and `Respond` are the look-up with the signature, the
transaction that consumes the session, and the answer. `Token` is one step, as
the code does it under a row lock or a mutex. The two stores differ in
`WithToken`: the column holds one token, the map `byToken` keeps every one.
A session and its pre-authorized code are one thing, as the code never
separates them.

### StatusList

`BuildEncodedList` as the loop it is, while sessions go on being opened,
consumed, expired and revoked. `ReadIndices` is the handler's one query and the
empty bitstring, `EncodeIndex` a round of the loop, with the check of the
bounds and the place of the bit (`SetBit`). A byte is the set of its bits, bit
0 the least significant; `ByteSize` is 8 in the code. The list served last
stays, as a verifier keeps it. `asOf` is a history variable: the sessions that
were revoked when the list was asked for. Compression, base64url and the
signature are undone by the verifier and left out.

### CredentialLifecycle, CredentialFaults and Presentations

`CredentialLifecycle` joins the two: `Offer` is `IssueCredential` for a
deposit that is PLEDGED when it is read; `Revoke(r)` is the revocation a
lifecycle handler does after its commit, `RevokeFails(r)` the same with the
UPDATE failing. `SmoothSpec` is the composition without failures and with weak
fairness. `CredentialFaults` has the failures as well and remembers in `fault`
whether one has happened, so that one run checks what must never happen with
failures and what must happen in the end without.

`Presentations` adds the VP store. `Present` is `ReceiveVpResponse` up to its
call of `UpdateState`, with the presentation it checked; `RecordPresentation`
and `EndVpSession` are the commit and the deletion. `PresentationFails` is an
error of `UpdateState`, which may come after the transaction has committed
(`tx.Commit` loses its answer): then the presentation is recorded, the wallet
is told that it failed, and the VP session stays. `Restart` keeps what
PostgreSQL keeps and drops the VP sessions, the requests in flight and the
signing key, which is generated at start-up. `shown`, `stale` and `doubtful`
are history variables; `doubtful` are the VP sessions that two requests
answered at once or whose answer was recorded and then refused. A presentation is abstracted to the credential and the VP session:
forged signatures and hash collisions are outside the model.

### JwksCache

`keys` and `fetchedAt` are the cache; `calls[r]` is a request between its
first look-up, the fetch, the store and the second look-up. `published`,
`since` and `withdrawn` describe the issuer (external). The clock is explicit,
and `MaxLatency` bounds how long a fetch takes; the code sets no timeout, so
this is an assumption about the network, and the properties are stated
relative to it.

### EidWebhook

`reported` and `acked` are the provider's side (external): it repeats a POST
until it has seen a 200, and an answer may get lost. `hooks[h]` is a VERIFIED
event whose update is under way, in steps: sending, waiting for the server's
request in slot `slot`, answered. `PatchIdentity` is `UpdateIdentity` of
`DepositLifecycle`, so that the update interleaves with the rest of the server.
The SDKs share the steps and differ in when they answer the provider and when
they call `onComplete`; one operator for each SDK and step keeps the
differences (table in the module's header). `Crash` drops everything in
memory. Events are abstracted to deposit and status, a signature to how its
hex text compares.

### VpCheck, TokenCheck and SdkChecks

`VpCheck` has one operator for each language and function. A token is a
credential and a sequence of parts (disclosure, key-binding JWT, empty); a
digest is what it is a digest of, which is injective as SHA-256 is taken to
be. Time is in half seconds, because Go, TypeScript and Rust compare whole
seconds and the server and Java compare instants. Kept are all checks and
their differences; which error is returned is not. A key-binding JWT may be no
JWS, which the server's library refuses and the SDKs do not notice, may have a
list of audiences, and an `iat` with a fraction, which the server and Java
drop, Go fails to decode, Rust takes for 0 and TypeScript compares. Java
accepts disclosures of two elements (a claim without value) and passes over
shorter ones, as in the code. `TokenCheck` does the same for access tokens; a
scope claim is a sequence, since Java sees only its first element, and `nbf` is
there because the JWT library of the server looks at it. `OfKinds` is the loop over the parts
in which each verifier collects what it looks for. `SdkChecks` is the state machine: a
request, an answer of a wallet that follows it or departs from it in one
respect, ticks of the clock, the decision. `Framings` are the ways to write the
answer down, also with the key-binding JWT in the first place, or with a second
one: the server, which goes by the dot, then takes the last, and the SDKs, which
go by the place, take the first for a disclosure and refuse it.

### Validator

`draft` is a client's document, `report` the last answer of `POST /validate`
with the request it answers, `stored` a deposit made from a draft: as it was
sent and as the server holds it. `jurisdictionRules` is the table of `rules.go`,
entry by entry; `checkRequired`, `checkDepositType` and `checkJurisdiction`
return the codes of the findings, with the conditions and early returns of the
code, and `ErrorField` says which codes are errors and which field each names.
`WithDefaults` and `Pledge` are what the server later writes into the fields
the checks read. A text is a member of `Text`; a statutory basis is the set of
statutes its text names, as the code looks for substrings. Money is in whole
units and months of rent are in hundredths. The code computes
`MaxMonths * rent * 1.005` in float64; for whole amounts the rounding matters
only where the amount equals that product, and there `FallsShort` says whether
the float64 product is the smaller one. It is for 1005 and 3015 (caps of one
and three months, rent 1000) and is not for 4221 (three months of 1400). Neither
1.005 nor 1.15 is a float64, and a product comes out exact if its error is less
than half of its last place; computed in float64, the two sides compare as
`FallsShort` says for every whole rent up to 200 000.

## 3. Runs

| Run | Instance | Result |
|---|---|---|
| `lifecycle_race` | 1 deposit, 2 concurrent requests, failures, histories up to 7 | passes, 1.2 M states |
| `lifecycle_serial` | 1 deposit with or without a trust account, 1 request at a time, failures, up to 3 messages under way, lost or reordered, with fairness | passes: refines `DepositContract`, 580 k states |
| `issuance_postgres` | 2 deposits, 2 sessions, 3 tokens, 2 credentials, 2 workers, failures, expiry, status lists of 2 bytes | passes: refines `CredentialRegistry`, 290 k states |
| `credentials` | 1 deposit, 2 requests, 1 session, failures, with fairness | passes, 300 k states |
| `presentations` | 2 deposits, 2 concurrent requests, 1 VP session, failures also after a commit, restarts | passes, 600 k states |
| `jwks` | 1 key published and withdrawn, 2 concurrent requests, TTL 2, latency 1, 5 ticks | passes |
| `eid_webhook` | 1 deposit, 2 requests, 2 events at a time, 4 SDKs, 1 fault, with fairness | passes, 240 k states |
| `sdk_checks` | 8 credentials, 5 verifiers, 4 validators, 3 clock skews, up to 2 key-binding JWTs, 4 seconds | passes, 3.2 M states |
| `validator` | 8 documents, 2 changes of any field, 3 rents | passes, 740 k states |
| `claim_closed_is_final` | 2 requests | violated |
| `claim_code_used_once` | 2 sessions, 3 tokens, 3 credentials, 2 workers | violated |
| `claim_active_means_in_force` | 1 request, 1 session, no failures | violated |

To repeat one: `tlc -config LifecycleRace.cfg MCLifecycle` in this directory
(module and configuration of each run are in `PROJECT.json`).

What the passing runs show:

* **Overlapping requests** (`lifecycle_race`). Although `UpdateState` re-checks
  nothing, every state in a history was reached by a legal transition from a
  state the deposit was in earlier (`HistoryJustified`); document, history and
  audit rows agree (`AuditMatchesHistory`); no closure follows a nil pointer
  that was checked on an older copy (`NoNilDereference`); money never moves
  without a confirmed pledge and a verified tenant (`PledgeBacksPayout`); the
  last proposer recorded is the one of the latest proposal
  (`LastProposerRecorded`); a CLOSED deposit no earlier request is about to
  write to stays as it is (`ClosedIsFinalAtRest`).
* **One request at a time** (`lifecycle_serial`). The API implements
  `DepositContract` (`KeepsContract`): single legal steps, alternating
  proposals, acceptance by the other party of exactly the proposal on the
  table, finality of CLOSED. A utility shortfall divides exactly the
  reservation (`UtilityProposalDividesReservation`). A subscriber of the
  webhooks that is behind catches up, in whatever order events arrive, unless a
  request is cut short or a message lost (`SubscriberCatchesUp`). A receipt
  always states a pledge the bank has confirmed. A release confirmation bears
  the date of the release; no settlement or partial release had given any of
  the deposit away; and the total it says is returned is the deposit and the
  interest it lists, if the application's own figures add up (`PapersAreTrue`).
  Nothing is said of a claim before the release: see section 7.
* **Issuance** (`issuance_postgres`). Unique indices, at most one credential
  for each session whatever is retried or overlaps, every delivered credential
  revocable, agreement of the status endpoint and the status list, permanence
  of revocation, refinement of `CredentialRegistry` (`KeepsRegistry`). A status
  list is true however late it is read and whatever was revoked while it was
  made: a 1 means revoked, and what was revoked before the list was asked for
  has its 1 (`ListTellsTheTruth`).
* **Both together** (`credentials`). A credential
  attests a pledge that was really made, it is revoked only when the deposit
  was over, and when nothing fails what was issued by the time of the
  revocation is revoked.
* **Presentations**. However requests overlap, wallet entries and accepted
  presentations correspond one to one across failures and restarts, each of an
  issued credential of that deposit (`WalletEntriesBacked`). The check that the
  deposit is PLEDGED stands in for the missing look at the revocation status,
  unless an overlapping request wrote the deposit back after its release or end
  (`PresentedIsActive`). A VP session is used twice only if two answers overlap,
  or the wallet was told that an answer failed which had been recorded
  (`VpSessionSingleUse`); both do happen.
* **Key cache**. A withdrawn key is accepted for less than TTL + latency,
  counted to the request that uses it, and a key that has been published for
  longer than a fetch takes is never reported missing, even when an older
  answer replaces a newer one.
* **eID webhooks** (`eid_webhook`). Only a VERIFIED event the provider signed
  identifies a tenant; an SDK that saw its update succeed can rely on it; once
  it is recorded a repeated delivery starts no further update; and when nothing
  fails an accepted event is recorded, with Go, TypeScript and Rust. What the
  provider will not repeat has reached `onComplete` for FAILED and EXPIRED with
  every SDK, for VERIFIED with TypeScript and Rust only: Go and Java answer
  first, and a crash in between loses the event.
* **Checks in five implementations** (`sdk_checks`). A wallet that follows the
  request is accepted by all, up to the last instant. A key-binding JWT in the
  token is never passed over, wherever it stands; of two the server looks only
  at the last, and the SDKs accept no second one (`AcceptedIsBound`). Go and
  TypeScript decide alike but for an `iat` with a fraction, and what Go accepts
  the other three accept, except where those check more: the server the
  signature, the credential type and the form of the key-binding JWT, Rust that
  the claims are complete, the server and Java the last half second
  (`VerifiersAgree`). Section 7 lists where the others accept more.
* **Conformance checks** (`validator`). A report says "valid" only for
  documents the rules of the country allow, and for all of them but those whose
  amount is exactly the cap with its tolerance, some of which float64 turns away
  (`ReportMatchesRules`); checks that
  are skipped because a value is missing hide no error about another field, so
  mending one reported field after the other comes to an end
  (`EditsStayLocal`); what was found valid is accepted by `CreateDeposit` and
  stays valid under the server's defaults and pledge (`ValidStaysValid`).

What the violated ones show (the quotations are in `PROJECT.json`):

* CLOSED is not final when requests overlap: a request validated earlier
  writes its state over it.
* A pre-authorized code can be exchanged again until the credential is
  fetched; on PostgreSQL the first token stops working.
* A credential can be active for a deposit that is over: the wallet may fetch
  it after the release, and `utility-settle` without a shortfall closes a
  deposit without revoking anything.

## 4. Bounds

`MaxHistory` bounds histories, through the guard `HasRoom`; 7 covers the
longest run without counter-proposals (REQUESTED, IDENTIFIED, PLEDGED,
PARTIALLY_RELEASED, SETTLE_PROPOSED, DISPUTED, CLOSED) and two
counter-proposals on the short ones. Two requests suffice for every pairwise
race; the handlers have no three-party protocol. `Splits`, `Holdbacks` and
`UtilityBills` hold values on both sides of each comparison: a bill without
shortfall, one that equals the reservation, and in the serial run one above
it. `MaxOutbox` is 2: a handler announces while fewer messages than that are
under way, so that with the mail up to three are, and an event overtakes an
earlier one. `MaxIndex` exceeds `ListSize`, so that an index beyond the end of
the list occurs; indices of failed requests are lost, so two sessions reach all
of them. A list has two bytes of two bits, hence a first and a last bit, and
two revoked sessions share a byte or do not. `Tokens` exceed the sessions, so
that codes are exchanged again; two workers sign for the same session with
different credentials, and one of them is thrown away. In `validator` two
changes are enough to mend one field and then another; the documents come from
six countries that differ in currency, cap, types and interest (a change of the
country reaches the other three), one country without rules and the empty
document, and the amounts lie on both sides of the caps of one month, 1.15
months and three months with their tolerance, and on edges that float64 refuses
and accepts. In `lifecycle_serial` an application in cash comes
with a trust account that has borne interest and the other one without, so that
the total returned is the amount or more; a state constraint (`CashInTrust`)
drops the creation of the other combinations, and as nothing obliges a client
to create a deposit the liveness property is not affected. In `presentations` a state constraint (`FewEntries`) bounds the two
histories together by 7, and follows one beyond 4 entries only while it is
PLEDGED, where presentations are accepted; 6 entries are enough for a deposit
that is released and then written back to PLEDGED, and one VP session for two
answers, since no two VP sessions have anything to do with each other. In `jwks` the clock is longer
than TTL + latency, so that keys do expire; one key is enough because the
properties speak of one key at a time. In `eid_webhook` two events at a time
and two requests let a repeated delivery overlap the first; the statuses that
are left out share the branch of one that is in. One fault allows each of a
lost call, a failing request and a crash, after which the provider repeats. In
`sdk_checks` a key-binding JWT lives 2 seconds and a clock may be 1 second
ahead (300 and 30 in the code), with skews inside and outside, and time runs
past every expiry; two of the six claims are enough to disclose none, some and
all, in any order.

Symmetry is used only for sets of identities (workers, tokens, credentials,
sessions, deposits, VP sessions, requests) and only in runs without liveness
properties. Deadlock checking is off except in `validator`, where a report can
always be asked for: a server without further requests, or a bounded history
that is full, may stop.

## 5. Fairness

`SmoothSpec` has weak fairness of `UpdateState`, `Revoke` and `Notify` of each
request. A handler runs in its own goroutine and none of
these steps waits for another request for ever (row locks are released at
commit), so a step that stays possible is eventually taken. Nothing is assumed
about clients, wallets or the bank: they may stop at any time.

`FaultSpec` assumes the same while failures are possible; `IssuedIsRevoked`
excuses behaviours in which one happened. `NoticeSpec` has weak fairness of
each step of a handler after its checks, and of delivery: a goroutine that is
sending comes to an end. Which message arrives first is open, and a message may
be lost instead; `SubscriberCatchesUp` excuses behaviours with a loss.

`HookSpec` adds weak fairness of the SDK's own steps (the goroutine, promise,
task or future that sends the update and what follows it) to that of the
server's. Nothing is assumed of the provider, and `AcceptedIsRecorded` excuses
behaviours with a fault.

## 6. Proofs

All are checked by TLAPS without further assumptions than the named `ASSUME`s
of the modules (`LifecycleAssumption`, `SerialAssumption`,
`NotificationsAssumption`, `IssuanceAssumption`, `RegistryAssumption`,
`StatusListAssumption`, `CredentialAssumption`, `PresentationAssumption`,
`JwksAssumption`, `ValidatorAssumption`, `SdkAssumption`): `Nil` and `None`
differ from every record, inputs have the types of the request bodies and
tokens, a credential has finitely many disclosures, and a list is a whole
number of bytes. TLC evaluates each of them on the instances of section 3. The
theorems hold for any number of deposits, requests, webhook events, messages,
sessions, VP sessions, tokens, credentials, disclosures, keys, documents,
amounts and rents, for every size of list and byte, and for both stores.

Every safety invariant, every action property and both refinements that a
passing run checks are also theorems. Liveness is not (see the end of this
section).

### Deposits

**`DepositLifecycleProofs`** proves all seven properties of `lifecycle_race`.
The inductive invariant adds to them what links a request in flight to the
row it is going to write: the state it saw occurs in the history of the row,
the transition it is about to make follows from that state, and the row
already has everything the patch relies on. The last point is where it is
subtle: `SettleAccept` read a settlement, another request may have replaced
it, but no patch ever sets it back to nil, and the same for reservations.
`PledgeBacksPayout` needs that `pledged` and VERIFIED are never taken back,
although the state may be.

The second half of the module is about requests that do not overlap. The
condition is `OneAtATime`: no two requests *on their way to `UpdateState`* are
about the same deposit. It is a hypothesis of the theorems (`[]OneAtATime`),
weaker than one request at a time: requests on different deposits overlap as
they like, and what follows a commit overlaps with the next request. The code
does not enforce it; with `Requests` a single slot it always holds, which is
stated as a theorem of its own each time. `SerialInv` says that what a handler
has checked on its copy is still true of the row (`Careful`), and of a row that
its history never left a set of states out of which no transition leads.

**`SerialProofs`** uses it for the three safety results of `lifecycle_serial`.
`ContractKept` is the refinement of `DepositContract`: `Create` maps to the
creation of a contract, a commit of each operation to the step of the contract
for that operation, everything else to a stutter. `UtilityProposalDivides`
follows from `SerialInv` alone. `PapersTrue` needs `PapersInv`: the row that
`UpdateState` handed back is kept from the commit to the announcement and says
what the mail is going to say, and a release that a paper dates stays the first
one in the history and came before any award; and `FiguresInv`: no patch
changes the amount of a deposit (`AmountKept`), so the figures of a row that is
announced late, and of a mail that is still under way, are those of the deposit
as it stands. `SerialPromises` draws the
conclusion for one request slot.

### Credentials

**`IssuanceProofs`** proves the properties of `issuance_postgres`, including
the refinement of `CredentialRegistry` and the action property
`RevocationIsPermanent`. The inductive invariant: indices lie below the
counter and are pairwise different, also those not yet inserted; a row has a
credential exactly when it is no longer PENDING; credential ids are unique
across rows, requests and wallets; tokens lead to one session each; what a
worker signed carries the deposit and the index of the session its token leads
to. The last one makes re-exchange harmless: a replaced token leads nowhere
and cannot consume another session.

The last section proves `ListTellsTheTruth`. The loop invariant: a bit
that is set belongs to a revoked session, and a session that was revoked when
the indices were read has its bit or is still to be looked at, unless its index
is beyond the end. It rests on the invariant above (indices are
unique, so a bit belongs to one session), on the permanence of revocation (what
changes while the loop runs takes no 1 back) and on arithmetic: an index is
determined by its byte and its place in the byte.

**`CredentialProofs`** proves `RevokedOnlyWhenOver` and `AttestsPledge` for the
composition with all its failures (`SystemSpec`; `FaultSpec` of the run has the
same steps and remembers a failure). Every step of the composition is a step of
`DepositLifecycle` or leaves the deposits alone, so the invariants of
`DepositLifecycleProofs` carry over. What a history records stays recorded;
hence, inductively, every request, session and credential of the issuance side
is about a deposit that was PLEDGED, and a handler that is about to revoke has
ended its deposit, as the state it wrote follows from its operation.

**`PresentationProofs`** proves the three properties of `presentations`. Every
step but `Restart` is one of the composition, and a restart keeps what is
proved of it, so the invariants of the deposits, of the credentials and, by
`INSTANCE`, of issuance carry over.

* `WalletEntriesAreBacked` holds however requests overlap. `WalletInv`: a
  request that carries a presentation is a `ReceiveVpResponse` about the
  deposit of the credential (`Carries`); on its way to `UpdateState` it is the
  only kind that signs as the wallet (`Signs`); and the entries of the wallet
  are exactly those recorded (`ShownWritten`, `WrittenShown`).
* `VpSessionsSingleUse` holds without a condition. `UseInv`: unless it is
  doubtful, no two requests answer one VP session (`OneAnswerEach`), and the VP
  session of a recorded presentation is deleted or about to be deleted by the
  request that recorded it (`Spent`). A step that breaks either, a second
  answer or a failure after the commit, is one that makes the session doubtful;
  a restart takes all VP sessions along.
* `PresentedIsInForce` likewise. A credential is revoked only after its deposit
  was released or closed (`RevokedOnlyWhenOver`), and a deposit that is PLEDGED
  after that was written back. `PresentedOneAtATime` adds `OneAtATime`: no
  transition leads back to PLEDGED from there, so what is accepted is in force.

**`EidProofs`** proves the four safety properties of `eid_webhook` for all four
SDKs, any number of deliveries and any faults. The deposits behind the webhooks
take only steps of `DepositLifecycle`, so its invariants carry over. The
induction is then over both sides of a call: a request of `UpdateIdentity` in
flight has a VERIFIED report behind it, and once past its commit its
identification is on record; a hook that waits does so for a request about its
own deposit. The second is needed because the slot of a request is used again
after it has ended: a hook whose call was lost no longer waits, and one that
waits is told of the end. `RecordedOnce` rests on a deposit never returning to
REQUESTED, the only state that leads to IDENTIFIED.

### Checks and keys

**`CheckProofs`** has two parts. The first proves the three properties of
`validator` for every document. The lemma `ErrorCodes` says for each error code
exactly when a report
has it; `CapFacts` that comparing with the cap and its tolerance is the same as
staying within the largest whole amount allowed; at the edge itself the
theorem leaves open what float64 decides, so nothing rests on `FallsShort`; the
rest is propositional. The
invariant only says that what is stored comes from a draft through the defaults
and the pledge.

The second proves the five properties of `sdk_checks`, for tokens of any
length. First what taking a token apart yields: `OfKindsStretch` says that the
loop `OfKinds`, where the parts of the kinds it looks for stand together,
returns exactly that stretch. This is induction over the loop counter; as the
provers cannot instantiate an induction theorem, it is done with the least
number at which the loop would differ (`LeastNumber`). `FramingsApart` applies
it to every way of writing a token: the server and the SDKs find the same, or
the SDKs find something they refuse. `Decisions` then says what each verifier
asks, and the five properties follow by comparing conjuncts, with `Ages` for
the half seconds. The invariant `SdkInv` adds to the form of requests and
tokens that an acceptance is one the verifier would still give: the clock does
not move between the decision and the reading of it.

**`JwksProofs`** proves both properties of `jwks` for every TTL and latency.
The invariant dates every key set: an answer is as recent as its fetch, the
cache as recent as `fetchedAt` minus the latency. An old answer that replaces
a newer one keeps the bound.

### Left to TLC

Liveness under fairness (`IssuedIsRevoked`, `AcceptedIsRecorded`,
`SubscriberCatchesUp`), which the prover does not handle, and the claims that
are violated. Where a theorem has `[]OneAtATime` as a hypothesis, what happens
without it is described in section 7.

## 7. Observations without a run of their own

Noticed while modelling. On the server: `dispute/resolve` accepts RELEASED,
PARTIALLY_RELEASED and SETTLE_PROPOSED as well as DISPUTED. `pledge` accepts
cash deposits that were never FUNDED, and no handler leads to FUNDED
(LIFECYCLE.md describes that path). `settle` stores amounts that do not add up
to the deposit (`models/deposit.go:336` requires it). Indices beyond the
131 072 entries of the status list are handed out and their revocation is not
in the list, which is why `StatusSourcesAgree` speaks only of indices the list
can hold. When requests overlap, `settle/accept` can lock in the accepting
party's own counter-proposal, if that one commits between its read and its
commit, `utility-settle` can divide a reservation that has been replaced, and
two answers to one VP session are both recorded; all follow from the late,
unconditional write that `claim_closed_is_final` shows. A VP session is also
answered twice when the commit succeeds and its answer is lost, since it is
deleted only after a commit that is known to have succeeded.

Of notifications and papers: when requests overlap, the timestamps of two
webhooks may be in the opposite order of their commits, and a subscriber then
keeps the older state; `SubscriberCatchesUp` therefore speaks of one request at
a time. A release confirmation fetched for a CLOSED deposit states the whole
amount as returned and the landlord as the one who released it, also when a
settlement or an authority divided it, and today's date if there never was a
release; `PapersAreTrue` speaks of the papers that are mailed and of those
fetched while the deposit is RELEASED. After a claim (CLAIMED, then RELEASED,
LIFECYCLE.md:42, "After claim payout or rejection of claim") the confirmation
states the whole deposit as returned too: whether the claim was paid is
recorded nowhere. The balance of the trust account is what the application
stated, whether or not it is the deposit with its interest; `PapersAreTrue`
speaks of the total only where it is. `WebhookEvent.CredentialOfferURL`
(`models/deposit.go:405`, "set on deposit.pledged when QEAA offer is created")
is never set.

Of the validator: `CreateDeposit` fills in EUR and `Pledge` writes the German
statute whatever the country, so a deposit made from a document without
currency can be in the wrong one, and a pledged deposit elsewhere draws a
warning about its statutory basis; neither handler calls the validator, so the
rules are applied only where a client asks. The table of `rules.go` allows all
types in six countries (CH, AT, BE, NO, GB, ES).

In the SDK examples: Java sends the identity update to
`POST /deposits/{id}/kyc`, which `api/router.go` does not have (the route is
`PATCH /deposits/{id}/identity`), so it never succeeds; `AcceptedIsRecorded`
leaves Java out. Java's token validator sees only the first of several scopes
(`extractClaim` stops at white space), so it refuses a token whose second
scope is the one required. Rust reads the expiry of a credential and never
compares it. Java and the server put no bound on how far ahead the clock of a
key-binding JWT is. The server and Java accept an audience list, the others
only a string; they also accept an `iat` with a fraction, as TypeScript does
and Go and Rust do not. The server accepts a token with two key-binding JWTs
and looks at the last only. It alone honours `nbf` of an access token. No verifier checks after the fact that the claims its request
requires were disclosed.

## 8. Not modelled, and why

* The layout of the papers, the wording of the mails, SMTP and HTTP delivery:
  formatting and I/O. What papers and events state is in `Notifications`.
* The messages, rule references and check time of a validation report.
* `IssuerMetadata`, `JWKS`, `GetCredentialOffer`, `GetDeposit`: read-only.
* Router and start-up: wiring.
* SD-JWT encoding and hashes: in `Presentations` a token is abstracted to which
  credential, key and deposit; `VpCheck` has its parts, and base64, JSON and
  SHA-256 are taken to be injective.
* The HTTP clients, the configuration and the data classes of the SDKs.
