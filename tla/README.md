# Verification of the Distributed Compliance Ledger

TLA+ specifications of the state machine that every node of the ledger runs (the
modules under `x/` of the repository), of the execution of signed transactions
and of the store of the web client. They are model-checked with TLC on small
instances, and proved with TLAPS where the result should hold for every number
of accounts, Trustees, nodes and records.

## The system

The ledger is a Cosmos SDK application (`app/app.go`). Transactions are
executed one after the other; a handler that returns an error leaves no trace.
So one handler is one action, and the interleavings that matter are those of
the transactions of different senders, of the evidence and validator updates at
the beginning and end of a block, and of one module changing what another one
reads. Outside the state machine, signed transactions and the answers to queries
travel over a network that delays, repeats and loses them.

| part | source | what it keeps | module |
|---|---|---|---|
| accounts | `x/dclauth` | active, pending, revoked and rejected accounts, open revocations, the next account number | `Dclauth` |
| nodes | `x/validator` | nodes, the index by consensus key, powers of the last block, votes on disabling nodes | `Validator` |
| upgrades | `x/dclupgrade` | proposed, approved and rejected plans; the slot of the SDK's upgrade keeper | `DclUpgrade` |
| certificates | `x/pki` | proposed, approved, revoked and rejected certificates and four indexes over them | `Pki` |
| device models | `x/model` | models, their versions and two lists | `Model` |
| compliance | `x/compliance` | compliance records, three indexes of flags, lists by certificate | `Compliance` |
| accounts and nodes | `x/validator/keeper/process_malicious.go` | evidence revokes accounts; accounts own nodes | `Pool` |
| models and compliance | `GetModelVersion` | versions that are certified | `Catalog` |
| vendor info | `x/vendorinfo` | one record per vendor | `VendorInfo` |
| signed transactions | `x/dclauth/ante`, `x/dclauth`, `x/vendorinfo` | sequence numbers, what was signed and what was executed | `Transactions` |
| web client | `vue/src/store/generated/.../index.ts` | answers to queries, subscriptions, running queries | `ClientStore` |

`KVStore` has the stores: a store is a function whose domain is the set of keys
that are present (`Put`, `Delete`). `TrusteeVoting` has what the votes have in
common. Trustees are accounts with the Trustee role; a proposal is settled when
its list of approvals reaches `round(0.66 * Trustees)` (0.33 for accounts that
are Vendor only), or its list of rejections the number that makes approval
impossible. Rounding is `(percent * n + 50) \div 100`, which is `math.Round` of
the product for these percentages.

## How modules correspond to the code

Variables are named after the stores, actions after the handlers. An action
takes the sender and the fields of the message that matter; its guards are the
handler's checks in order, and its effects everything the handler stores,
removals and indexes included. Times, information texts, descriptions, public
keys of accounts and events are left out. Operators named `X_Variant` are never
used by a specification: each is `X` with a mistake, and shows that a property
can fail.

- `Dclauth`: `ProposeAddAccount`, `ApproveAddAccount`, `RejectAddAccount`,
  `ProposeRevokeAccount`, `ApproveRevokeAccount`. An account is its roles,
  vendor id and number. `MaxAccountNumber` bounds the numbers that are given
  out, in the guards of the actions that add accounts.
- `Validator`: a block is `BeginBlock` (evidence), any number of transactions,
  and `EndBlock`, which computes the updates from `lastValidatorPower` and gives
  them to Tendermint (`tmValidators`). `signers` are the keys that have ever been
  in the set: only those can have signed twice. Accounts come and go by
  `ChangeAccounts`, which stands for `x/dclauth`.
- `Pool` extends `Dclauth` with the nodes and shows, by refinement
  (`ImplementsValidator`), that `x/dclauth` and the evidence do nothing to
  accounts that `ChangeAccounts` does not allow.
- `DclUpgrade`: the handlers, and the SDK's upgrade keeper from its use: one
  slot, run by the first block that is not below its height.
- `Pki`: a certificate is its subject and key id, those of its issuer and a
  serial number; its signature is good and it is within its dates.
  `verifyCertificate` is `Verified`: the recursion along the issuers succeeds
  for the certificates in the least set that has the roots and whatever its
  members have signed (`Anchored`). `RevokeChildCertificates`, which recurses along
  the children, is `RevokeWithChildren`, of the least set closed under children
  (`Descendants`).
- `Model`: URLs are set or not; in an update an empty field or a zero keeps
  what is stored, as in the code.
- `VendorInfo` has the checks and the effect of the two handlers; `Transactions`
  extends `Dclauth` with them. A transaction is signed for an account number and
  a sequence number (`Sign`, also ahead of others), and may be delivered whenever
  the ante handler lets it pass (`Authenticated`), or never. `DeliverTx` is the
  ante handler and the message: the sequence number goes up also when the message
  fails. An account that is added starts at sequence zero (`AuthTx`).
- `ClientStore`: a caller dispatches `QueryModel` or `QueryModelAll`, with or
  without the options `subscribe` and `all`. A running query is an element of
  `inFlight`; every answer of the node is a step (`FetchPage`, `FetchOne`), and so
  is the commit of the result. `StoreUpdate`, on a new block, dispatches what is
  subscribed. The node answers pages as `query.Paginate` of the SDK does, in the
  order of the keys. `stayed`, `seen` and `asked` are history.
- `Compliance`: a date is a number. Versions (`AddVersion`) and centers
  (`ChangeCenters`) change as in `x/model` and `x/dclauth`.
- `Catalog` extends `Model` with the compliance records and shows, by
  refinement (`ImplementsCompliance`), that `x/model` only adds versions and
  keeps their strings, as `AddVersion` has it.

## What is checked

| run | instance | shows |
|---|---|---|
| `accounts` | three Trustees at genesis and one more address; Vendor, Trustee and malformed profiles; account numbers to 4 | one status per address, revocations of accounts that exist, one vote each, no draw, changes by quorum only |
| `transactions` | a Trustee and a vendor that is added, revoked and added again with the same or another vendor id; sequence numbers 0 and 1, three signed transactions | a signed transaction is executed at most once and in order; vendor records are written with the vendor's present account |
| `upgrades` | three Trustees that come and go, two names, heights to 3 | no upgrade is run twice, the slot changes by votes, votes stay with their plan, a plan in the slot is run or replaced |
| `nodes` | three addresses that are Trustees or NodeAdmins and change, one key | the index by key, the validator sets of application and Tendermint agree, a jailed node leaves the set |
| `pool` | three Trustees, one of whom has a node; NodeAdmins can be added; one key | the refinement; accounts leave by quorum or evidence; disabled means jailed; no node is jailed or returned without a reason |
| `certificates` | two roots that also sign each other, a leaf with the subject of the first and another key, two Trustees, two owners | every chain ends in an approved root, no cycle, the indexes, uniqueness, revocations of roots that exist, roots change by quorum |
| `models` | one vendor, two products and names, one version each, ranges in 0..2, two revisions | the list of products, revisions one by one and only with a file, ranges not empty, images with checksums |
| `catalog` | one model, two versions and strings, one type, two compliance certificates, up to two past statuses | the refinement; flags and lists of versions agree with the records; the list of a certificate has what is certified with it, and else only copies with a wrong string; what is or was certified has a version; the trail of statuses is kept and in order |
| `client_store` | three keys on pages of one, one change of the ledger, two queries of callers, one failure, two queries at a time | lists are complete, a late refresh does not subscribe again, subscriptions come to show the ledger |

Bounds: a revocation and a re-addition, a threshold that differs before and
after a Trustee leaves, a proposal that expires and is made again, a chain of
three certificates, two lists that share an element, a transaction signed for an
account that was replaced, and a list whose pages are read before and after a
change all fit in these instances; each property has a variant of the code, in
the same instance, that violates it. In `nodes` and `pool` there is one key and
so one node, since votes that take two Trustees need three addresses; for
several nodes there are the proofs. Symmetry is used for addresses, version
strings and compliance certificates only, in runs without liveness properties.
Deadlock is not checked for `Dclauth`, `Transactions` and `DclUpgrade`: the last
Trustee may be revoked, after which nobody can send anything, and the height,
the account numbers and the signed transactions are bounded.

Fairness: `BeginBlock` of `DclUpgrade` and `EndBlock` of `Validator` are weakly
fair, because consensus keeps producing blocks and every block that is begun is
ended. No vote or transaction is fair: nobody has to send one. In `ClientStore`
new blocks (`StoreUpdate`) are weakly fair, because without transactions an
empty block is produced every ten minutes (`create_empty_blocks_interval` in
`deployment/ansible/roles/configure/vars/validator.yml:29`), and so is the
progress of the oldest query: a query that is not answered fails, and failures
are bounded.

### Where the code differs from what is said about it

Three runs end in a violation; PROJECT.json quotes the lines.

- `upgrades_rejected`: rejecting an upgrade schedules it
  (`msg_server_reject_upgrade.go:61`).
- `certificates_root_revoked`: a root certificate behind an intermediate one
  with the same subject and key id is revoked with it, without a vote
  (`msg_server_revoke_x_509_cert.go:20`).
- `compliance_two_types`: revoking under one certification type takes the copy
  of another, still certified, off the list (`device_software_compliance.go:7`).
  With one type `catalog` checks what remains of the property, `CertifiedAreListed`:
  the other exception, a record with a wrong string, is part of it.

The following were met while modelling. The modules do what the code does, and
no run is kept for them.

- An account added by its proposal alone stays among the revoked accounts, while
  `docs/transactions.md:1197` says that revoked accounts are not returned.
- A pending account can have enough approvals, after a Trustee was revoked
  (`docs/transactions.md:1093`).
- Nodes created in one block, or enabled again, can exceed `MaxNodes`
  (`docs/how-to.md:334`).
- A node that was jailed for double signing returns by its admin alone, who
  disables and enables it once the account is there again
  (`msg_server_enable_validator.go:34`), while `docs/how-to.md:345` asks for
  approvals of Trustees.
- A root certificate revoked with an intermediate one stays on the list of
  approved roots (`docs/transactions.md:986`).
- A root certificate proposed by a Trustee is pending although one approval is
  enough (`docs/transactions.md:712`).
- A provisional record needs no version (`docs/transactions.md:477`), and keeps a
  string that is not the version's when it is certified
  (`msg_server_certify_model.go:38`). Its copy then stays on the list of its
  certificate when it is revoked.
- A revocation needs the version on the ledger, with its string
  (`msg_server_revoke_model.go:32`), while `docs/transactions.md:449` and
  `docs/how-to.md:324` say that the model and the version are not required. So
  `CertifiedHasVersion` is stated of records that are or were certified, of which
  `docs/transactions.md:405` requires it, and not of those that were only revoked.
- A version is certified though its model was deleted
  (`docs/transactions.md:405`).

## What is proved

`LedgerProofs` begins with `Dclauth`, from the named assumptions of the module:
addresses are finitely many, vendor ids are positive, profiles are pairs of
roles and a vendor id, the genesis accounts are valid, and the bound on numbers
is any natural number. That there is a Trustee at genesis is not assumed.

- `TypeCorrect`, by induction on steps, one case per handler.
- `StatusCorrect`, `RevocationCorrect`, `VotesCorrect`: `OneStatusPerAddress`,
  `RevocationHasAccount` and `VotesCountOnce` are inductive together with
  `TypeOK`; a step of the proof per handler shows which stores it leaves alone.
- `NumbersCorrect`: uniqueness is not inductive, since a counter could lag
  behind the numbers in use. `NumbersInv` adds that every number in use is below
  the counter (`NumbersAreIssued`). `NumbersFresh` follows for every step.
- `NoDraw` and `VoterCorrect`: `UndecidedHasVoter` follows from `TypeOK` alone,
  by counting: if all Trustees have voted, the two lists together are at least
  as long as their number, so one of the thresholds is reached. This
  needs facts about rounding for both percentages and any number of Trustees.
- `QuorumCorrect`: `AccountsChangeByQuorum` from `VotesCountOnce`, because a list
  without repetitions is as long as its set of voters.

It goes on with the two modules that extend `Dclauth`. Of `Transactions`:

- `OnceInOrder`: that every executed transaction is earlier than the next is not
  inductive. `TxInv` adds `ExecutedIsBehind`, that what an address has executed is
  behind the number and the sequence its account has now, and `NumbersInv`, so
  that an account that is added again has a number above all earlier ones and may
  start at sequence zero.
- `VendorCorrect`: each step, from the two checks of the handlers and of the ante
  handler.

`ValidatorProofs` (`Validator`; addresses are finitely many, the genesis roles
belong to addresses):

- `NodesTyped`, `ConsIndexCorrect`, `DisabledCorrect`: one inductive invariant,
  `NodeInv`, which adds that votes are only open on nodes that exist. Without it
  the last approval could record a node as disabled that is none.
- `ValidatorSetCorrect`: the updates at the end of a block are taken from
  `lastValidatorPower`, and `ConsIndexAgrees` is needed so that a key that leaves
  is not the key of a node that stays.
- `ReasonCorrect`: from `NodeInv` and `ApprovalsCountOnce`, as for accounts.

Of `Pool`, also in `LedgerProofs`: `PoolImplementsValidator` maps every step of the two
modules to a step or a stutter of `Validator`; what has to be shown is that a
transaction of `x/dclauth` changes the roles of one address at most, and that
evidence takes the roles of the node's owner. `PoolDisabled` and `PoolReason`
carry the theorems of `ValidatorProofs` over, by an instance of that module with
the same refinement mapping. `LeaveCorrect` needs the invariants of `Dclauth` to
survive revocations by evidence (`LeaveInv`).

`DclUpgradeProofs` (`DclUpgrade`): `UpgradesTyped`, `DoneCorrect`, and, from
`VoteInv` (a name that is proposed is neither approved nor rejected, and no
approval is repeated), `SlotCorrect` and `PlanCorrect`.

`PkiProofs` (`Pki`; any certificates, Trustees and owners, chains of any length
and shape; addresses are finitely many):

- `TypeCorrect`, `IndexesCorrect`, `RevocationCorrect`: `IndexesAgree` is not
  inductive, since a revocation keeps the index of children right only if nothing
  outside of what it takes away is the issuer of something inside. `PkiInv` adds the
  shape of the lists (`ListInv`): a certificate is in the list of its own
  identifier (`Filed`), those of a list that are not roots have one issuer
  (`OneIssuer`), and the issuer is approved (`IssuerApproved`).
- `NoCycleCorrect`: inductive with `PkiInv`. An identifier that gets a parent is new
  and has no children, or has that parent already.
- `ChainsCorrect`: inductive with `PkiInv`. With what was revoked added to it, a set
  that is closed under signing afterwards was closed before, so nothing that is left
  has lost its chain.
- `UniqueCorrect`: `CertificatesAreUnique` is inductive with `PkiInv`. The proof
  follows every place of a certificate to the place it came from (`Moved`): a step
  moves certificates between the stores and registers at most one new key.
- `RootsCorrect`: `RootsChangeByQuorum`, from `VotesOnce` as for accounts.

`ComplianceProofs` (`Compliance`):

- `FlagsCorrect`, by the handlers' effect on one record and its flags, and
  `TrailCorrect`.
- `DecidedCorrect`: `DecidedOnVersion` is inductive with `RecordsOK`, by which a
  record is provisional only when it has no history: the first status of a record
  that was provisional stays so when it is certified with another string.
- `ListsCorrect`: `CertifiedAreListed`, for any number of types, if `TypesApart`
  holds at all times: no certified record has the certificate of another type of its
  version that is not revoked. Such a hypothesis is needed, as the run
  `compliance_two_types` shows: the handler looks for the version and not for the
  type. The inductive invariant, `ListsInv`, says more of what is on a list: every
  copy is of a record as it is or as it was with a shorter history (`Past`), so that
  a record that is certified anew is not on the list yet, and a copy that is not of
  a certified record is misnamed, so that a copy that `RevokeModel` finds by version
  and string is that of the record it revokes (`FoundIsRecord`).

`CatalogProofs` (`Model` and `Catalog`; the bounds on revisions and ranges are any
numbers, of revisions at least one):

- `ModelTypeCorrect`, `RangeCorrect`, `ProductsCorrect`, `VersionsCorrect`: one
  inductive invariant, `ModelInv`, the conjunction of the four. That `ProductsAgree`
  is kept is shown by places: replacing, appending and cutting one (`WithPlaces`,
  `WithoutPlaces`) lists the same products but one. `RevisionsCorrect` follows for
  every step.
- `CatalogImplementsCompliance`, because no handler of `x/model` removes a version
  or changes its string. By it `CatalogFlags`, `CatalogTrail`,
  `CatalogCertified` and `CatalogDeviceLists` are carried over from
  `ComplianceProofs`, and `CatalogVersions` from `Model`, which `x/compliance`
  leaves alone.

`ClientStoreProofs` (`ClientStore`; keys are finitely many positive numbers, pages
hold at least one entry, the bounds on queries, changes and failures are any
values):

- `ListsCorrect`: `ListsAreComplete` speaks of lists that are done and is not
  inductive. `StoreInv` says of every list in the making that it has what stayed on
  the ledger below the key of its next page, that all its keys are below that key,
  and that it is in order (`Listing`); and, while it is not done, that what stayed is
  on the ledger and what is on the ledger was seen, so that the next page may be
  taken from the ledger of the moment. A page is described by what is on it
  (`IsPage`), and joining two parts by places (`JoinedLists`): no induction on lists
  is needed.
- `RefreshCorrect`, from `StoreInv`: a query that subscribes was asked to.

`LedgerLemmas` has the lemmas on stores, lists of votes, places of lists and rounded
shares.

Only model-checked: liveness (`ScheduledIsRun`, `JailedLeavesSet`,
`StoreConverges`), which needs fairness and `ENABLED`, out of the prover's reach.
`Anchored` and `Descendants` are proved about as least fixed points; that the
recursion of the code computes them is read from the code, and ends because there is
no cycle.

## What is not modelled

- Signatures are sound, and memo, timeout height and extension options of a
  transaction are left out: they change no state. `Transactions` follows the
  sequence numbers of those who send messages of `x/vendorinfo`; the handlers of
  the other modules are behind the same ante handler.
- Genesis transactions (`x/dclgenutil`): delivering them is the `CreateValidator`
  steps of the first block of `Validator`; collecting their files is input and
  output.
- Queries other than `Model` and `ModelAll` read a store and change nothing.
- Of the web client (`vue/`), which is most of the repository by lines, all but
  the stores are protobuf codecs and REST clients generated from `proto/`, and
  pages. They have no state that outlives a call. The stores of the other ledger
  modules are generated from the template of the one that is modelled.
- Command line, REST gateway, simulation, deployment and load tests.
- Certificates outside their dates; they would make nodes disagree, because
  verification uses the clock of the node (`x/pki/x509/x509.go:119`).
- The halt of Tendermint when all nodes are disabled.

Facts about the web client that `ClientStore` has and its properties leave room
for: two subscriptions to a list that differ in the option `all` have one place in
the store and overwrite each other (`index.ts:214`); a model that was deleted
stays shown, because the query for it fails (`index.ts:185`); cancelling a
subscription while its first query is running has no effect, and a reset of the
store does not stop queries that are running.
