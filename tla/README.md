# Verification of the decentralized identity provider

TLA+ models of the PASTA + FROST identity provider in `src/projects`, checked by TLC on
small instances and proved with TLAPS where a result should hold for every size.

## The system

A dealer splits one Ed25519 group key and every user's TOPRF key among *n* identity nodes;
any *threshold* of them can sign, no single machine can. A user signs on in three parties'
presence:

```
browser SDK --POST /api/pasta/sign-on--> gateway --/commit, /sign-on--> nodes
      opens the encrypted shares with the password, assembles the assertion (= OAuth code)
relying party --POST /token + DPoP proof--> gateway --/commit x2, /sign--> nodes
      the gateway assembles an access token and the next refresh token
```

### Inventory

| part | state it keeps | operations | hard behaviour | what makes it correct |
|---|---|---|---|---|
| identity node (`node/src/protocol/node.ts`) | `activeNonces`: open round -> nonce pair, in memory | `/commit`, `/sign-on`, `/sign` | several callers, rounds re-committed, refused requests, restarts, clocks | a pair signs once; tokens only for the holder of a verified credential; windows on every time |
| node server, wire, config (`server.ts`, `wire.ts`, `config.ts`, `index.ts`) | none | route, decode, read body, start, stop | end/abort/close ordering of a body, size limit | one answer per request |
| JWT and DPoP verification (`jwt.ts`, `dpop.ts`) | none | `verifyJwt`, `verifyDPoPProof` | boundaries of `exp`, `iat`, skew | no expired or foreign credential passes |
| gateway proxy (`proxy.ts`) | none between requests; per request its rounds and commitments | `handleSignOn`, `handleSign` | concurrency, exclusion of nodes, `Promise.all`, partial failure, timeouts, late calls | what it hands out verifies; a request is answered |
| gateway node client (`http-node-client.ts`) | none | commit, signOn, sign, health | 5 s timeout, no retry, late processing | a failure is never taken for an answer |
| gateway server and OIDC (`server.ts`, `oidc.ts`) | none | `/token`, sign-on, authorize page, JWKS, health | error mapping, body collector | its own proof check; nothing unverified is trusted |
| gateway discovery, start-up (`discovery.ts`, `index.ts`, `config.ts`) | url -> client map during start-up | probe, retry, reject | concurrent probes, retries, mismatch, repeats | comes up only with every node, each once, of one ceremony |
| FROST (`frost.ts`) | none | share, aggregate, interpolate | ids as bytes, repeated ids | threshold shares of one message aggregate |
| Shamir, TOPRF, AEAD (`shamir.ts`, `toprf.ts`, `aead.ts`) | none | split, combine, blind, evaluate, unblind | field edges | the right password, and only it, gives back `h` |
| browser SDK (`demo/src/sdk`) | current session | signOn | none of its results is verified | the assertion it assembles verifies |
| dealer (`dealer/src`) | output files | generate, keep, refuse, overwrite | interruption between files | never parts of two ceremonies |
| relying party (`rp/src`) | DPoP key in IndexedDB, state in sessionStorage, tokens in the page | login link, callback, exchange, refresh, verify | several tabs, addresses opened again, partial failure of an exchange | signed in only with a verified token of the tab's own sign-on |
| demo front end (`demo/src/App.tsx`, `demo/cli`) | the flow of its address | sign on, go back with the code | which address makes a flow | whatever `/authorize` lets through can be signed on with |
| demo logs (`demolog.ts`) | ring of log lines | record, stream | none that touches the protocol | not modelled |

Components talk by HTTP calls only. The gateway keeps nothing between requests, so all
coordination is in the round ids and commitment sets it passes to the nodes.

## Modules

- **`Tokens`** - the three JWTs as messages, their time windows, and what a node verifies of
  a credential and of a DPoP proof (`verifyJwt`, `verifyAssertion`, `verifyRefreshToken`,
  `verifyDPoPProof`). No state. A *holder* is the (sub, client_id with scope, jkt) that an
  assertion, its access token and all later refresh tokens share. A credential is a message
  and whether its group signature verifies.
- **`IdentityNode`** - the nodes. `activeNonces` is the code's map; the *k*-th pair a node
  draws is the number *k*. Each HTTP handler runs without interleaving after its body is
  read (there is no `await` in `handleSignOn` or `handleSign`), so each is one action with
  three outcomes: answered, refused, or *spoilt* - accepted, rounds deleted, then an
  undecodable point. `shares` is a history of every signature share; `Aggregates` says when
  shares make a signature that verifies: at least `Threshold` distinct nodes, each having
  signed this message over this commitment set with the very pair the set names. `NodeSpec`
  lets any request come at any time, and is what the proofs are about.
- **`AnyCaller`** - the same nodes under a finite set of requests in any order: what a node
  sees of several gateways, of restarts of a gateway and of retries.
- **`PastaProxy`** - the gateway, the browsers and the relying party over the nodes. A
  request goes `idle -> commit (-> refresh) -> sign -> done | failed`. Every node call is
  `sent`, then `ok` or `failed`; a failed call may still reach its node later (`stray`). A
  commit round waits for all of its calls and goes on without the failed ones, unless the
  participants were named (by the body, or by the access round for the refresh round). A
  signing round is a `Promise.all`: the first failure fails the request while the rest are
  in flight. `wallet` is every JWT that the SDK or the gateway assembled, verifying or not.
- **`ThresholdIssuer`** - the abstract specification: nodes endorse, a JWT exists once a
  threshold endorsed it, and tokens are endorsed only for the holder of an issued
  credential.
- **`ProxyIssuer`** - the refinement of it: `ImplementsIssuer` is the abstract specification
  with `endorsed` what `shares` says each node signed and `issued` the wallet's verifying
  messages.
- **`Dealer`** - runs of the dealer's command line over the key directory: keep, refuse or
  generate, then one file after the other, each truncated and then filled, with an early end
  anywhere. A file holds the number of its ceremony, or is absent or torn.
- **`Discovery`** - the gateway's start-up: reads `group.json`, probes every URL at once,
  retries those without an answer, ends on a mismatch or after the last attempt, and comes up
  with every node. It keeps apart what the code counts per URL (`resolved`, a map) and per
  entry of the list (`urls`).
- **`Deployment`** - both, with the node processes between them: a node starts on the one
  file its container mounts, if it parses, and keeps what it read until it stops; `/health`
  answers with it.
- **`Wire`** - the shapes of what the parts send each other. A JSON value is its kind, a
  decoder is the kinds it takes member by member: the door of the gateway
  (`requireField`, `requireScope`), both sides of the three node calls (`signOnRequestToWire`,
  `signOnRequestFromWire` and so on), and what a node makes of the claims it signs. No state.
- **`NodeCall`** - an abstract specification: what `PastaProxy` takes a call to a node to
  be. It ends; an answered one was done exactly once; a failed one may have been done, or may
  yet be.
- **`Servers`** - one HTTP request through both servers. A connection is a record: the
  caller's side, the pieces of the body that came and are held, the handler, the answer.
  `Upload`, `Ended`, `Closed` are `readBody` with its two limits; `NodeArrive` and `NodeEnd`
  the node's routes, decoders and error mapping; `GatewayArrive`, `GatewayEnd`,
  `GatewayProceeds` the gateway's routes, its door and the node calls of each handler;
  `Deliver` and `Lose` the client's side, the timer of a call among the latter. The browser's
  connection may lead to a node, as nodes listen too. `CallsAreNodeCalls` is the refinement
  to `NodeCall`.
- **`RelyingParty`** - the front end as a browser with several tabs runs it: the landing
  page, `ensureKeyPair` with its two transactions, the login link, `/authorize`, the demo
  page, the callback page with its state check, `run()` (`/token`, then `/jwks.json`, then
  verification and rendering) and the refresh button. Tabs share the key and nothing else.
  A page is a record; `Navigate` is all that shows a tab another page.
- **`Scalars`, `SignOnCrypto`** - what `PastaProxy` takes for granted of the cryptography,
  as algebra over a prime field: the two ways the code shares a secret, inverts and
  interpolates (`frost.ts`, `shamir.ts`), and one sign-on through blinding, evaluation,
  signature shares, unblinding, decryption, aggregation and verification. A point is its
  discrete logarithm, hashes are arbitrary functions. `Aggregates` in `IdentityNode` and
  `Opens` in `PastaProxy` are the facts this module checks. A loop of the code (extended
  Euclid, modular power, sums, products, Horner) is a recursive function of the number of
  turns, so that proofs can unfold it.
- **`MCAnyCaller`, `MCPastaProxy`, `MCDeployment`, `MCSignOnCrypto`, `MCRelyingParty`,
  `MCServers`** - the instances TLC checks.
- **`IdentityNode_proofs`, `AnyCaller_proofs`, `PastaProxy_proofs`, `ThresholdIssuer_proofs`,
  `SignOnCrypto_proofs`, `Deployment_proofs`, `Servers_proofs`, `RelyingParty_proofs`** - the
  theorems. `PastaProxy_proofs` holds those about the nodes under the gateway, then those
  about requests, then the refinement to the issuer.

Operators named as a *faulty variant* of the next definition are not part of any
specification. Each is a plausible mistake in the code it stands beside; with it in place
the property it is meant for fails, which is how each property was tried out.

## Runs

| run | instance | question |
|---|---|---|
| `MCRounds` | 2 nodes, threshold 2, 2 round ids, 3 pairs a node, one instant, restarts | can any order of commits, sign-ons and signs make a pair sign twice, or a token without an assertion? no |
| `MCClock` | 1 node, clock 0..4, lifetimes 1 and 2, skew 1 | how long is a credential spendable after signing? lifetime + skew |
| `MCSignOn` | 2 sign-ons, or a sign-on and a token request, at once, 3 nodes, threshold 2, one unreliable, all kinds of bodies | do completed requests verify, close their rounds, and fail only for a cause? yes |
| `MCChain` | 3 requests, 2 nodes, 2 DPoP keys, altered credentials | does every verifying JWT go back to a password; is the abstract issuer implemented? yes |
| `MCExpiry` | 2 requests, clock 0..4 | are tokens signed only while credential and proof are valid? yes |
| `MCAnswered` | 2 requests, 2 unreliable nodes, threshold 1, fairness | is every request answered, and does what completes verify and close its rounds while either node, or both, are left out? yes |
| `MCDeployment` | 2 nodes, 2 ceremonies, runs with `--total` 1 and 2, 2 attempts, 4 URL lists, right and wrong mounts | does everything that is kept or running stem from one ceremony; does the gateway come up with every node or end? yes |
| `MCSignOnCrypto` | 2 of 3 nodes, every key and TOPRF key modulo 5, every quorum in every order, two passwords, two assertions | do shares make the key from the threshold on and say nothing below it; does a sign-on open exactly for its password and assertion, and verify? yes |
| `MCRelyingParty` | 2 tabs, 2 landing pages, 2 rotations, access tokens that fail a check | who is shown as signed in, with which key and tokens, in any order of pages and failures; does a page ever wait for ever? no |
| `MCServers` | 3 nodes, threshold 2, bodies of up to 4 pieces with limits 2 and 3, one wrong member at a time | when is a body answered, what do nodes sign for it, is every request over some time, is a node call a `NodeCall`? yes |
| `MCQuorumUp`, `MCReplay` | 2 requests on 3 nodes; 3 requests on 2 nodes | two statements of the documents that the code does not keep; see below |

**Bounds.** `MaxNonces` is the number of pairs a node can draw: in `PastaProxy` runs it is
never reached by the requests, in `MCRounds` three pairs for two rounds leave room for a
re-commit or a loss between any two steps. `MaxTime` is past every scaled lifetime plus the
skew. Two requests suffice for interference (rounds never name a third party), three for a
rotation. Threshold 2 of 3 is the deployed shape; 2 of 2 is used where no node is left out,
1 of 2 where exclusion and loss of the quorum should both occur at little cost.
Lifetimes are scaled down; only their order against the skew and the clock matters.
`CHECK_DEADLOCK FALSE` stands in `PastaProxy` runs, where the requests are finitely many and
the system rightly stops when all are answered, and in `MCDeployment`, where ceremonies are
finitely many: when the last was used up by a run that wrote nothing, nothing can start.
`MCSignOnCrypto` stops with its one sign-on; five is the smallest field with room for three
nodes and a secret, and all its keys are tried; the theorems are for every prime and number
of nodes.
Zero scalars, at which the curve library throws, are left out: with the real order none is
ever drawn.
In `MCRelyingParty` two tabs are what sharing a key and mixing up sign-ons take, two states
an older sign-on of the same tab, two rotations a rotation of what a rotation gave. Keys are
made when none is stored, so their number needs no bound; which check a token fails does
not matter to the page, so one flaw stands for all but the key binding. In `MCServers`
`MaxBody` 2 and `MaxDrain` 3 leave bodies that are empty, short, at the limit, past it and past
the drain; three nodes with threshold 2 leave room for one that fails and for the loss of
the quorum. One member of a sign-on body is wrong at a time, since decoders look at each by
itself. `CHECK_DEADLOCK FALSE` stands there as its one request ends.
In `MCDeployment` two ceremonies are what mixing takes, runs for one and two nodes leave
sets that are subsets of one another, two attempts are a first and a last, and the URL lists
are both nodes, one, one twice, and none; both containers may mount the same file.

**Fairness** (`MCAnswered`). Weak fairness of each request's next settled call, and of the
handler that awaits it: every call settles, by an answer, an error or the 5 s
`AbortSignal.timeout`, and Node's event loop then runs the continuation. Nothing is assumed
of callers, late calls or restarts. In `MCDeployment` it is the same of the probes of
discovery and the loop that awaits them; nothing is assumed of the dealer, of the nodes or
of an operator. In `MCServers` it is that of the server the browser talks to (its handlers
run, a closed socket is noticed, an answer arrives or the connection fails) and of the timer
of each node call; nodes may hang and browsers may stop sending. In `MCRelyingParty` it is
that of IndexedDB and of `/token` and `/jwks.json`, which a browser answers or fails; nothing
is assumed of the user. The page's `fetch` has no timer of its own, so this rests on the
gateway's answering, which `RequestsEnd` shows.

**What a file name tells** (`MCDeployment`). `OneCeremonyUnlessForced` holds because the
dealer refuses to touch existing files and because discovery compares keys; with `--force`
under running processes it does not, and discovery says so at the next start.
`--if-missing` judges a set of files by their names (`cli.ts` 147-152). After a run that
ended in the middle of its last file, or a `--force` over fewer files than there are, it
keeps a set that is torn or of two ceremonies; a node or the gateway then does not start.
`KeptSetIsOneCeremony` says when which of this can happen. The history variable `spoilt` marks
such runs, `forced` a run with `--force` over existing files. Without the former a kept set is
whole; after one, but without the latter, it is of one ceremony and may lack the contents of its
last file only, since files are written in the order of their numbers; with both it may be
anything.

**What a request leaves open** (`MCSignOn`, `MCAnswered`). Nothing evicts a round but the call
that spends it. `DoneClosesRounds` gives, for a completed request, the only round that can stay
open: the access round at a node whose `/commit` call failed, was handled all the same, and
which was left out (`proxy.ts` 144-176). A failed request leaves the rounds it opened; the node's
README lists that under its known limits.

**What a page may end in** (`MCRelyingParty`). If two tabs find the key store empty at the same
time, both make a key: `ensureKeyPair` reads and puts in two transactions (`html.ts` 236-249), so
the later tab replaces the key the earlier one has armed its link with, and its code is
refused at `/token`; rp/README.md 95-96 says that a key that is there is reused.
`CodeMeetsItsKey` covers that case, too: a page then holds a later key than its code's, never
an earlier one, and without such tabs (`overlapped`) always the code's own.
`HeldTokenUsable` excludes the status `error`: after a request that got no answer the button
stays off although a refresh token is held, where a refusal turns it on again (1014-1034). When
`/token` answered and `/jwks.json` then failed, the new tokens are dropped and the page keeps
the old refresh token, which nodes still take while it lasts.

**What nodes leave to the gateway** (`MCServers`). `SignedPayloadParses` speaks of what nodes
sign for the gateway. A node takes a body without a `nonce`, and its claims are then no JSON;
the gateway's door asks for one.

**What the documents say and the code does not.** `MCQuorumUp`: one node that stops between
its commitment and its signing call fails the request although a threshold is up (gateway
README 108-111). `MCReplay`: exchanging one code twice gives two different pairs of tokens, as
the gateway draws a new `jti` for each (`proxy.ts` 311-314); node README 445-446 and `node.ts` 348
promise the same pair for a replayed `/sign`. The same `/sign` sent again is refused, its rounds
being spent, so a caller can only replay the credential, at `/token`. Beside these, `SpendWindow`
and its theorem `CredentialsExpire` give the time a credential can be spent as lifetime plus
skew, counted from the moment of signing.

## Proofs

Every safety invariant the passing runs check is proved for all values of the constants, and
so are the action property `RotatesForward`, the refinement to `ThresholdIssuer` and the
steps of that to `NodeCall`.

**Assumptions.** All are named where the constants are declared, and TLC evaluates them.
A threshold is a positive natural, and there are at least as many nodes, finitely many
(`dealer.ts` 95). Key ids are key ids, `Unpinned` is no time (`wire.ts` 329-330), the
gateway's lifetimes are positive and no longer than what nodes accept (`proxy.ts` 16-19,
`node.ts` 56 and 62), requests have round ids and jtis of their own, bodies are of the type
`Body`. Nodes that may fail are nodes: `Unreliable` may be all of them. Bounds are naturals.
In `SignOnCrypto` the order of the group is a prime (`OrderAssumption`), as that of Ed25519
is, and larger than the number of nodes, so that ids are scalars of their own; hashes are any
functions, onto points and binding factors other than zero (`SignOnCryptoAssumption`,
`HashAssumption`); the blinding value and the nonces are not zero, nor is a dealt secret or a
TOPRF share. Zero is where the curve library throws; the code does not exclude it, but draws
it with a probability of about 2^-252. FROST shares may be zero.
One theorem, `CompletedRequestsVerify`, has a hypothesis besides: the gateway and the SDK
stamp the key id the nodes stamp. All three are configured apart and nothing in the code
compares them.

The theorems about the nodes are about `NodeSpec`: any set of nodes, threshold, round ids,
lifetimes and requests. They need two facts about the world, which are in the model: a pair
is never drawn twice (secure randomness), and a credential whose group signature verifies
was signed by the group (`Unforged`).

- `TypeCorrect`.
- `NoncesUsedOnce`, `OpenRoundsAreFresh`: `NonceSingleUse` is not inductive, as a share
  made from an open round could repeat a pair that was used. The invariant adds that an open
  round's pair has signed nothing and is in no other round, and that all pairs in use are at
  most `nonceCount`. The counter is not in the code: it is how the model states that pairs drawn
  at random never repeat, also across restarts. One lemma
  (`SpendingKeepsNonceInv`) covers every handler: it closes rounds and signs with pairs
  those rounds held, one share to a pair.
- `TokensDescend`: a token's credential is group signed, a quorum is not empty, so a share
  of the credential exists; if it is a refresh token the invariant gives its assertion.
  Group signatures persist because shares only grow.
- `CredentialsExpire`: every share was made in the past over an `iat` within the skew.
- `CallersImplementNodeSpec`, `CallersAreSafe`: what TLC explores under `AnyCaller` is a
  `NodeSpec` behaviour, so the theorems cover the instances.

- `ProxyImplementsNodeSpec`, `NodesAreSafe`: the composed system implements `NodeSpec`, so
  the node theorems hold of it too. The invariant (`ProxyInv`) says what handlers carry from
  one `await` to the next: calls under way go to nodes, collected commitments are nodes'
  commitments, replies are shares that were made, and no JWT in a wallet or request
  verifies unless the group signed it (`Genuine`). The last part is needed because a node
  checks a credential by its signature alone: a request with a genuine credential is one
  `NodeSpec` allows, any other is refused and changes nothing. That assembled JWTs are
  genuine rests on quorums not being empty (`AssembledGenuine`), not on what the assembler
  expected.
- `RequestInvariant`, and on it `CompletedRequestsVerify`, `CompletedRequestsClose`,
  `FailuresHaveCauses`, `TokensSignedWhileValid`. None of these properties is inductive: a
  request completes when every node it called has answered, and that the answers aggregate
  depends on what each node held when the calls were made, two or three awaits earlier.
  `RequestFits` says for one request: nodes that answered a commit hold the pair they
  answered with (`Collecting`); until they sign they still do, unless one failed or
  restarted (`Gatherings`); no late call that would replace such a pair is astray unless a
  node failed (`StraysFit`), and none of the refresh round before that round was opened
  (`RefreshUnopened`); a node that has signed did so with that pair, for what was asked and
  in time, and holds no round of the request any more (`Signing`, `RepliesFit`, `Finished`);
  a request that failed has a cause (`FailedRightly`). As round ids are a request's own, the
  steps of other requests leave all of it alone (`Aside`), and each step is looked at for its
  own request only. What `CompletedRequestsClose` says of nodes that took no part needs one part
  more (`TracesInv`): a node that holds a round of a request, or that a late call may still
  give one, was called in its first round, and takes part or failed without being asked for
  by name. That the shares of a completed request aggregate then follows by
  counting: they are made by the distinct nodes of the commitment set, of which there are at
  least `Threshold` (`DoneAggregates`).
- `JwtsGoBackToPassword`: what a step adds to the wallets and verifies is an assertion or a
  pair of tokens just assembled (`AddedGoesBack`). The assertion opened, so the password was
  right, and its holder is the one the nodes signed. The tokens have their credential's holder, and
  as a quorum is not empty a node found that credential to verify, so it was in the wallet.
- `ProxyTypesKept`: what is under way, gathered and replied keeps its shape, which the
  guards rely on; the fields of `ask` from the bodies' types, the wallet from what is assembled.
- `ProxyImplementsIssuer`: a node's answer to a signing call is `Endorse` for each message
  it signs, a completed request is `Issue` for each that verifies, every other step a stutter.
  It needs that all that is signed is `Signable`, within the times of the model
  (`SignableInv`); that a signature share for a token comes with a credential that was
  issued (`Genuine` and the wallet); and that shares that aggregate are a threshold of
  endorsements (`PromisedCounts`). `WalletIssuedRightly` is `IssuerIssuesRightly` through it.
- `DeploymentInvariant`, and on it `KeptIsWhole`, `OneCeremony`, `ComesUpWithEveryNode`.
  `KeptSetIsOneCeremony` speaks of whole sets, but a kept set was once a run in progress:
  `FilesOfLastRun` says that what is there and not about to be written is of the last
  ceremony, unless `spoilt`, and `GroupFileFirst` that nothing is there without `group.json`,
  so that a run which finds none of its files finds none at all. What is left of a run cut short
  takes `WritingInv`: files are written in ascending order, and unless `--force` was given no file
  is ahead of the one being written, so only the last one present can be torn. `OneCeremonyUnlessForced`
  needs further that no process runs where no file is (`HoldersOfLastRun`): a new ceremony
  that is not forced starts with nobody holding another. `UpWithEveryNode` follows by counting:
  every entry of the list has answered, and each answer has a node id of its own, so no entry is
  repeated (`ProbeInv`, `RosterOfDistinct`).
- `ServersInvariant`, `AnsweredAlways`, about `ServersSafe`, for any nodes, threshold and
  limits with `MaxBody < MaxDrain`. `AnsweredAfterUpload` is not inductive: that a body is
  held whole when it is answered needs what is held while it is read. The invariant
  (`Sound`) ties together, for one connection, the pieces that came, those held, the handler,
  the answer and the caller's side, and says that nodes are called only when the browser's
  request was read (`NoneCalled`). Every step is one server moving one connection (`Moves`)
  or the gateway calling a set of nodes (`StepMoves`), so each handler is looked at once.
- `PayloadAlways` (`SignedPayloadParses`): a handler of the gateway that is at its calls
  passed the door, so its body has a nonce; relaying keeps it, so every call under way to
  `/sign-on` has one; the other claims a node checks itself (`PayloadInv`).
- `ServersTypesKept`, `PlainIsUnderstood` (`Understood`): out of a request as an SDK sends it the
  gateway makes only requests that nodes take for well-formed, and the connection to a node
  keeps its request, so neither side answers that it could not read the other (`WireInv`).
- `CallsImplementNodeCall`: by the same two cases, a move of a node's connection is a step
  of `NodeCall` or a stutter, and calling nodes is its `Ask`; that a call is never made to a
  node whose last call failed follows from `asked` shrinking to those that answered.
- `RpInvariant` and the theorems on it, about `RpSpec`, for any set of tabs, any bounds and
  any flaws. `SignedInHere` needs that the flow of a code goes with its state from the link
  through the demo page into the address (`UrlInv`), that the state check ties the page to
  the tab's own sign-on (`TabInv`), and that every token on a page stems from its code
  (`CallbackInv`). `OneRunAtATime` rests on the button being off exactly from `Exchange` to the
  end of the run. `CodeMeetsItsKey` needs `OneKey`: as long as no two tabs found the store
  empty, at most one key is ever made, and every page and address is bound to it; and beyond
  that `KeyOrder`: the store holds the last key made, so what a page gets from it, or puts, is no
  older than the code it has.
  `RotatesForwardAlways` is the action property: a step of a tab that leaves its page in
  place either leaves its refresh token or replaces it by the next one.
- `IssuerIssuesRightly`: the abstract issuer's promise, from `EndorsedRightly` (what a node
  endorses is an assertion or descends from an issued one).

- `SignOnAlways`, and on it `KeySharedAlways`, `OpensAlways`, `VerifiesAlways`,
  `BlindingHides`: the algebra of one sign-on, for every prime, threshold, number of nodes,
  keys, quorum in any order, and choice of nonces. The invariant (`SignOnInv`) is the chain of
  what was computed from what: keys dealt by polynomials, the request made for one password
  and quorum, each reply by its node out of both, the result out of the replies. Its parts are
  equations between records; what they amount to is algebra. That weighted shares make the secret is
  shown by partial fractions, an id at a time (`ExpandsAlways`, `CoefficientsSum`, `Moments`,
  `Interpolation`), and once for all users of it (`WeightedShares`): the blinded point of the
  TOPRF and the challenge of FROST. That fewer shares say nothing is a polynomial that
  vanishes at their ids but not at zero (`Kernel`, `OpenBelow`). `OpensForThePassword` is an
  equivalence: the other direction needs that unblinding divides by exactly what blinding
  multiplied by.
- `InversesAgree`, `CoefficientsAgree`, `SharingsAgree`: FROST and the TOPRF are two libraries
  with an inverse, a Lagrange coefficient and a sharing each. They agree: extended Euclid
  with Fermat's power (`ModInverseIsInv`, `InvertIsInv`), -j/(i - j) with j/(j - i), powers with
  Horner.
- These take induction over the number of nodes and of turns. The library's induction
  theorems have an operator for a parameter, which no prover here can instantiate. `Induction`
  has a set of numbers instead, and follows from an injection of a finite set into itself
  being onto (`FS_Injection`); recursive functions exist by `Recursion`, from it. Fermat's theorem
  is the product of all residues taken in two orders.

**Model-checked only.** Liveness: `RequestAnswered`, `DiscoveryEnds`, `PagesSettle`, `RequestsEnd`, and of
`CallsAreNodeCalls` the part that a call ends, as fairness and `ENABLED` are beyond the prover.
`MCQuorumUp` and `MCReplay` show what does not hold.

## Abstractions

One clock is shared by the nodes and the gateway (a client's may differ by its `iat`).
Cryptography is perfect. `allParticipants` is always the commitment set's nodes, as the
gateway derives it. `scope` and `client_id` travel together; `nonce` is not modelled, as no
server-side decision reads it. A JWT's `exp` of 0, which the code reads as "never expires",
cannot pass the lifetime checks with the clock past 1970 and is not distinguished.

The servers are modelled one browser request at a time: connections share no state in either
server, and what requests do to each other through the nodes is `PastaProxy`'s subject. A
body is a number of pieces and one JSON value; keep-alive, headers and chunk sizes are left
out. An error of a browser's connection is a loss. `PastaProxy` relies on `NodeCall`, which
`Servers` implements.

Tabs of the front end share IndexedDB only; eviction of storage by the browser and tabs
duplicated with their sessionStorage are left out. What an access token fails is the first
check of `verifyAccessToken` it fails. A refresh token's lifetime and the clock are
`Tokens`' subject: here `/token` refuses at will, and never issues for another key than the
credential's, which `TokensDescendFromSignOn` shows of the nodes.

## Not modelled

- Demo logs (`demolog.ts` of node, gateway and relying party): a display; nothing in the protocol
  reads them.
- Markup, animation and wording of pages, the mock step of the demo page, and its command
  line client `demo/cli/sign-on.ts`, which runs the SDK's sign-on without a page.
- The look-up of static files and the contents of discovery documents.
- Formats of configuration: which malformed files, ports and addresses are refused. A node
  or gateway starts on a configuration that parses.
- Byte encodings: base64url, hexadecimal, PEM, JWK, and the number formats of JSON.

## Plan

1. *(done)* `Tokens`, `IdentityNode`, `AnyCaller`, `PastaProxy`, `ThresholdIssuer`, proofs
   about the nodes.
2. *(done)* `Dealer`, `Discovery`, `Deployment`; `RelyingParty`; `Wire`, `NodeCall`, `Servers`.
3. *(done)* `Scalars`, `SignOnCrypto`: Shamir, Lagrange, FROST, TOPRF over a small prime.
4. *(done)* Proofs: `PastaProxy` implements `NodeSpec`; bodies, calls and wire format of
   `Servers`; the safety of `RelyingParty`; what requests complete, close and sign, and the
   refinement to `ThresholdIssuer`; `Deployment`; the algebra of a sign-on.
5. Left: configuration formats.
