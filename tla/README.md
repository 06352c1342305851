# TLA+ models of Adrian

Adrian is a directory service in Rust (`src/rust/crates`): an LDAP directory on
an ordered key-value store, an identity service (SIDs, RIDs, POSIX ids),
replication between domain controllers, a Kerberos KDC, a certificate authority
behind ACME, an SMB server, and tools. This directory holds TLA+ models of the
parts that keep state and are shared by concurrent callers, of the message
formats they exchange, the TLC configurations that check them on small
instances, and TLAPS proofs for any instance. Paths below are relative to `src/rust/crates`.

## The system

| Part | State | Operations | What makes it correct |
|---|---|---|---|
| Key-value transactions (`adrian-storage-core`, `-testkit`, `-fdb`) | committed map; per transaction a snapshot, staged puts and adds | begin, get, put, delete, atomic add, commit, rollback | reads from one snapshot; all of a commit or nothing; FoundationDB refuses a commit whose reads are stale |
| Directory store (`adrian-storage-fdb`) | rows per object under a number (DNT), two indexes, tombstones, the DNT counter | get, get by DN, put, delete | indexes agree with rows; a DNT names one object for ever; a commit changes one object |
| LDAP handlers (`adrian-directory-service`) | none of their own; a receive buffer per connection | add, modify, delete, search; the connection loop | an update applies to the entry that was read; a search returns what its filter describes; every request is answered |
| RID pool (`adrian-identity-ridpool`) | per pool a counter and a high-water mark | allocate, allocate a batch, reclaim, state | no RID twice; every RID within the batches |
| Identity map (`adrian-identity-fdb`) | UUID-SID rows both ways, UID rows, UID counter, a cache of two maps | insert, remove, lookups, allocate a UID | bijection; a stale entry only where a race explains it |
| Raft (`adrian-raft`) | term, vote, leader, log and commit index of a node | append_entries, vote, install_snapshot | one leader per term, matching logs, committed entries kept |
| Replication (`adrian-repl-core`, `adrian-drsuapi`, `adrian-raft`) | version vectors, change logs | get changes, apply, resolve conflicts | operations pulled from their origin come in order and once; replicas converge whatever the order |
| KDC (`adrian-kdc`, `adrian-hsm`) | krbtgt keys, principals, replay cache, gMSA root key | AS and TGS requests, rotation, password change, gMSA derivation | a ticket only for who knows the key; the newest key is held; a request is applied once within its lifetime; a stored password is one that a signed request brought; hosts derive the same password |
| ACME and CA (`adrian-acme-server`, `adrian-ca`) | nonces, orders, authorizations, serials, CRL | new order, challenge, finalize, issue, revoke | one certificate per signed request; serials unique |
| SMB server (`adrian-smb-server`) | sessions, trees, handles of a connection | setup, connect, create, close, disconnect, logoff | client and server agree on the open handles |
| Operator (`adrian-operator`) | desired and observed objects of the cluster | reconcile | converges to the declared state |
| Formats (`adrian-smb-core`, `-dcerpc`, `-drsuapi`, `-directory-service`, `-kdc`, `-pac-validator`, `-ntlm-client`, `-sid`, `-policy-core`, `-policy-executor`, `-policy-preg`) | none | encode and decode; compile a policy | the receiver gets what was sent, with the exceptions named below, and refuses what was cut or altered |

The handlers call the directory store; the directory store, the RID pool and
the identity map run on the key-value transactions; the KDC signs with the HSM;
ACME issues through the CA. The hard behaviours are the same in most parts:
a value read in one transaction or under one lock and used in another; commits
that are refused, or applied without the caller knowing; messages lost,
repeated and reordered; counters at the end of their range.

## Modules

| Module | Models |
|---|---|
| `KvTxn` | the transactions: `Begin` (snapshot, reads, staging), `CommitApply`, `CloseTxn`; `DetectConflicts` chooses the backend |
| `RidPool`, `RidPoolProofs` | both RID allocators on `KvTxn` |
| `IdentityMap`, `IdentityMapProofs` | `FdbIdentityMapping` and `allocate_uid` on `KvTxn`, and the cache |
| `Directory` | the abstract directory: a map that changes one object at a time |
| `DirectoryStore`, `DirectoryStoreProofs` | `FdbDirectoryStore` on `KvTxn`, the LDAP update handlers, and the refinement of `Directory` |
| `RaftState`, `Raft`, `RaftStepProofs`, `RaftProofs` | the state of a node and the operations on its log; the RPC handlers of `ManualRaftReplicator` and an external driver |
| `Hsm`, `Krbtgt`, `Kpasswd`, `Gmsa`, `Kdc`, `HsmProofs` | the software HSM; rotation of the krbtgt key; the password service on both; gMSA passwords; the ticket exchanges |
| `SmbService` | the connection handlers of the SMB server, with a client of `adrian-smb-client` and a peer that sends anything |
| `Ca`, `Acme` | the certificate authority, and the ACME handlers on top of it |
| `ServerProofs` | the proofs about `Kdc`, `SmbService`, `Acme` and `Ca` |
| `Replication`, `ReplicationProofs` | `get_changes`, `apply_changes` and `resolve_conflict` |
| `Framing` | the connection loops of the LDAP and SMB servers |
| `Operator` | watch, reconcile and error policy of the operator, and the API server |
| `Wire` | bytes, integers of a width, readers: what the codecs share |
| `Smb2`, `DceRpc`, `Drsuapi`, `Ldap`, `LdapSearch`, `Sid`, `Pac`, `KrbWire`, `KrbCrypto`, `Ntlm`, `Policy` | the formats, registry policy files among them, and the operations on their content that keep no state: DRSBind, DRSGetNCChanges, the LDAP search, the policy compilers |
| `Formats` | a sender, a wire and a receiver for every format |
| `MC...` | what the runs choose among: samples, requests, the parts of a run, symmetry sets |

**KvTxn.** `kv` is the committed store and `txn[c]` the open transaction of a
caller: which keys it has read, what it has staged, and whether a key it has read
was written since (`stale`). An operation is one step up to its commit, since all
its reads see the snapshot of `begin_write`, and one step that commits. Puts come
before adds, and an add to an absent key starts from zero, as in `commit` of the
in-memory transaction. `CanCommit` is the only place where the backends differ.
The atomic add of FoundationDB is taken to mean what the code's comment says.

**RidPool.** Both allocators run the same code on a pool, a pair of keys. The
high-water mark follows the saturating u32 arithmetic of the code, and RIDs are
truncated to 32 bits as the code does; `U32` is 2^32, small in the run.
`CommitUnknown` is a commit that is applied and whose answer is lost.
`times` counts how often a RID was returned to a caller; a reclaim starts it
again. `reclaimed` records that the last committed operation was a reclaim.

**IdentityMap.** `todo[c]` is the rest of a lookup, insert or remove that still
has to update the cache, one step for each lock it takes. A lookup has found the cache
empty before it reads the row, and others may have filled it since. `missed` records the
removals that a caller overtook: it had the mapping in hand and cached it
afterwards. `Restart` drops the cache and all open transactions.

**DirectoryStore.** The byte keys are tuples and the three sentinel rows of an
object are one row, since they are always written and deleted together. An
attribute is a name and a value. A handler takes one step to read
the entry and leaves in `call[c]` the put or delete it will make; anything may
happen before it does. An add goes on after a lookup that failed, so it may meet an
entry of its DN. `owners` records who ever had a DNT.

**Raft.** A handler holds the node's lock for the whole call and is one step. The
crate has no driver, so the candidate and leader side is external: it is the one
of the Raft paper that the handlers cite. It keeps what a candidate or leader of a
term could ever have sent, and any of it can be delivered at any later time, once,
again or never. This covers loss, duplication, delay and reordering without a
message set.

**Hsm, Krbtgt, Kpasswd, Gmsa, Kdc.** Key material, MACs and ciphertexts are
records of what they were made from, and only the same key opens them. A handler
is cut where it awaits: `rotate` between the HSM and the lock, `check_and_add`
between the clock and the lock, `handle_kpasswd` between the replay cache, the
decryption, the read and the put, a gMSA derivation between its blocks, a TGS
request between its checks and the lookup. Time is a counter; `net` keeps all
that was ever sent, so that any of it may arrive late and again. Names and passwords
of `Kpasswd` are short sequences of bytes: the MAC is over client, target and password
one behind the other, so that requests which divide the same bytes differently have the
same MAC, and `mac_inputs` records the bytes that holders of the key have signed.

**SmbService.** A connection handles one request at a time, so a handler is one
step; shares and files are common to the connections. `held` is what the caller
of the client believes it has open.

**Ca, Acme.** A handler of the ACME server takes one step for each lock. `Ca` is
cut in `issue`, between the serial number and the record. A request that the
client has signed stays in `signed` and may be handled by two tasks at once.

**Replication.** Every server writes, serves and pulls, one batch at a time, which may
be applied late or lost. Indexes and origins are those that `apply_changes` writes; the
payload of an entry says who first wrote it and as which of its operations.

**Framing.** A message is the length of its header and of its payload; the stream
is cut anywhere, and a read returns up to a chunk of what has arrived.

**Operator.** `dc` and `ss` are the objects in the cluster and `cache` the copy that
the watch has delivered. A reconciliation reads the StatefulSet in one step and
writes it in another; any call may fail, and the operator may restart. The API
server and the kube runtime are external.

**Formats.** The codecs are operators from values to sequences of bytes and back,
with the integer widths, offsets, padding and length checks of the code. ASN.1 DER
of the Kerberos messages is the work of a library, so there the wire holds the
library's values, and the conversions to and from them are modelled. Block cipher,
HMAC and the hashes are external. `Receive` decodes what arrives: the whole
message, any proper prefix of it, and, of what is sealed or signed, the message
with any byte changed or at a receiver with another key. Formats whose length is
kept outside them (`Undelimited`) say nothing about prefixes. `Carried` says which
values a format can carry: for the others the model follows the code into the refusal
or the wrong value, and a delivery property says that these, and only these, are not
delivered. They are: an SMB2 negotiate response with contexts whose security buffer does
not pass for more of them; the text of an LDAP filter with an empty And or Or (filters
with substrings are not sent as text, since theirs reads back as an equality); Kerberos
names that are no GeneralString, which become empty, and times outside the calendar,
which become the epoch; a kpasswd result beyond 16 bits; registry keys with a semicolon,
or without a backslash in a policy; texts with the character that ends them, and lists
with an empty text. The reference for a search goes by the RDNs of a DN, the filter and
the attributes asked for; its exceptions are exact too: a DN with other spaces than the
base's is not found, a base search wants the base's own case, and a subtree search sends
the base twice. DRSGetNCChanges goes by the end of the DN as text, also in the middle of
an RDN, and by `c_max_objects` only.
The NTLM server is a stand-in that takes the client's blob as the client lays it out.

## Runs

| Run | Question | Result |
|---|---|---|
| `rid_pool` | two callers, one pool, batches of several sizes, past the 32-bit limit: are RIDs unique, covered by the mark, and `state()` right? | holds |
| `rid_reclaim_ff` | does a reclaimed pool start again at `INITIAL_RID`, for every domain SID? | violated: a SID whose last byte is 0xFF |
| `identity_map` | two callers, two UUIDs, two SIDs, a cache of one entry, lost answers and restarts: bijection, causes of stale entries, UID rows | holds |
| `uid_start` | do UIDs start at 65536? | violated: the second one is 2 |
| `raft_handlers` | three nodes, two terms, two entries, any delivery order: the safety properties of Raft | holds |
| `raft_commit` | is `commit_index` known to be committed? | violated: it is capped by the end of the log and not by the last entry sent |
| `directory_store` | two callers, two UUIDs, two DNs, handlers and direct updates: indexes, numbers, refinement of `Directory` | holds |
| `modify_attributes` | does a put leave the attributes it was given? | violated: rows of the previous version stay |
| `services` | eight parts, one per behaviour: ticket exchanges; repeated password requests; password requests during rotations; gMSA derivation; SMB sessions; ACME and CA; pulls of logs; conflicting writes | holds |
| `convergence` | under fairness: is every complete request answered, however the stream is cut, and does the operator reach the declared state? | holds |
| `formats` | does the receiver of every format get what was sent, do search, DRSUAPI and the policy compilers answer what was asked, and are cut or altered messages refused? | holds |
| `pac_validate` | does the service-side validator accept the PACs that the KDC builds? | violated: the two crates lay out the ticket checksum differently |

What `services` states, part by part:

- `TicketsEarned`: a TGT only against a timestamp, fresh when it was checked,
  under the key the principal had; `SessionKeysConfined`: a session key is sealed
  only for its client and for the service the ticket names.
- `ReplayWindow`: an authenticator passes the replay cache twice only with more
  than the lifetime of an entry between the first reading of the clock and the
  second holding of the lock. `PasswordsAsked`: a stored password is within the length
  policy, and one request brought it, whole, for a name of that account, with bytes that
  a holder of the MAC key signed. That the holder divided these bytes in the same way
  cannot be stated: the MAC does not cover it. Nor is anything said of a change to the
  account that a put of the whole object overwrites.
- `NewestKeyHeld`: at rest, the HSM's key is the manager's current one, or, after two
  rotations that overlapped, its current or previous one. With three it may be neither.
- `GmsaAgreement`: two derived passwords are equal exactly when account, cycle and
  version of the root key are.
- `HandlesAgreed`: the handles a client believes open are open at the server, on the
  file they were opened for.
- `CertificatesTraced`: serial numbers are not reused, a signed request yields at most
  one certificate, and what `get_cert` returns was issued for that order. Two nonces let
  a client send two requests to finalize, which two tasks handle at the same time.
- `PullsInOrder`: a server receives the operations of another, from that other, in order
  and none twice, as long as none of them has come back to their author; if it has
  nothing else, without a gap. What another server relays may come again, and a server
  that pulls from two can miss operations. `ReplicasConverge`: servers that have received
  the same writes of a value hold the same one.

Of the runs that hold, all but two also check that no reachable state is a
deadlock; in `services` and `convergence` the bounds, or clients that stop, end
every behaviour. `PROJECT.json` quotes, for each violated property, the comment
that states it and the line that contradicts it.

**Bounds.** Two callers suffice for the races here: each of them is between one
operation and one commit that overtakes it. `MaxCounter` lets the RID counter cross 2^32
(the reduced `U32`); batch requests are smaller and larger than a batch, so that the
mark is extended by one batch and by several. `CacheCapacity` is below the number of
UUIDs, so that eviction happens. Two DNs and two UUIDs, the nil UUID among them, give
overwrites, renames, and deletes that meet a handler holding the old entry. In Raft, two
terms and two entries give a deposed leader with entries the new leader does not have. A
third term and longer logs are out of reach of this run; with three entries the flaw
that `raft_commit` shows also lets `commit_index` go back, so nothing is stated about
its growth. The services have two users and one service, three deliveries of two
password requests over three instants with a cache lifetime of one, three overlapping
rotations, two gMSA hosts and two accounts, five calls of an SMB client and two of a
peer, two ACME tasks, two nonces and four requests, three directory servers with seven
entries between them, enough for an operation to come back to its author, to be relayed
and to be missed, and five writes of one value whose metadata agree up to each field in
turn. The parts have joint bounds, stated in `MCServices`: with more than four messages
at the KDC either time or a key has changed, a peer's requests come beside at most four
calls of the client, a fourth ACME request only beside two that finalize. `convergence` has three messages on a connection and
reads of five bytes, so that a read ends inside a header, inside a payload and behind
several messages; three edits of a DomainController, one foreign change, two failed
calls and one restart. `formats` sends samples with empty, short and odd-length fields,
with values at the ends of the integer ranges, and with those that a format cannot carry; every prefix of each is tried, and a
change of every byte of what is protected. A modify request has one change in
`directory_store` and up to two, on two values, in `modify_attributes`. Callers, nodes
and names are symmetric.

**Fairness.** Only `convergence` assumes any. `WF(Serve)`: the runtime polls the task
of a connection whose socket is readable or whose buffer holds a message. `WF` of
`Reconcile`, `RetryTimer` and `WatchEvent`: the kube runtime polls its queue, its
timers and its watches. Calls to the API server fail finitely often (a bound), since no
controller converges against a server that always fails. Nothing is assumed of the
clients, of the users who edit objects, or of the network. The parts of the other runs
have no retry or background loop that would justify fairness.

## Proofs

The theorems hold for every value of the constants: any callers, names, nodes,
batch sizes, lifetimes and bounds. What they assume of the constants is stated
with each. A property is seldom inductive, so each module first strengthens it to an
invariant; those of SMB and ACME, the largest, TLC has checked on small instances first.

| Module | Proves always true | Assuming |
|---|---|---|
| `RidPoolProofs` | `TypeOK`, `RidUnique`, `HighWater`, `NextRidIsFresh`, `ReclaimReinitialises` | the store detects conflicts; no domain SID ends in 0xFF (without either, false) |
| `IdentityMapProofs` | `TypeOK`, `Bijective`, `StaleOnlyWhenMissed`, `UidLeadsBack` | the store detects conflicts |
| `DirectoryStoreProofs` | `UuidIndexSound`, `DntForOne`, and the refinement `RefinesDirectory` | the store detects conflicts; `None` is not an object |
| `RaftProofs` | `ElectionSafety`, `TypeOK`, `LogMatching`, `AcknowledgedKept`, `LeaderCompleteness` | quorums intersect |
| `ReplicationProofs` | `PullsInOrder` | nothing |
| `ReplicationProofs` | `ReplicasConverge` | writes are metadata records |
| `HsmProofs` | `ReplayWindow`, `PasswordsAsked`, `NewestKeyHeld` | finitely many rotations at once; no handle is `NoHandle`; the cache lifetime is a natural |
| `HsmProofs` | `GmsaAgreement` | the root key is rotated less often than a version has values |
| `ServerProofs` | `TicketsEarned`, `SessionKeysConfined` | clocks and tolerances are integers |
| `ServerProofs` | `HandlesAgreed` | a client's connection is not a peer's; `Idle`, `NoReply` and `NoFile` are not an exchange, a reply and a file |
| `ServerProofs` | `CertificatesTraced` | nothing |

**RidPool.** The invariant adds that a counter is at or above every RID returned, and
that an allocation in flight that is not stale has computed its RIDs from the counter
as it is. So a commit that is accepted dispenses numbers above all earlier ones, and
makes every other allocation of the pool stale. For `HighWater` the staged mark covers
the staged RIDs. A reclaim that commits last leaves the counter absent.

**IdentityMap.** A transaction that may still commit would stage the same again: what it
read is what the store holds. The commit of another either leaves that alone or makes
it stale. For the cache, `todo` and `missed` together account for every mapping that is
cached and not in the table, between any two of the locks that a lookup, an insert or a
remove takes.

**DirectoryStore.** An LDAP modify puts an entry with the DNT that the handler read in
an earlier transaction, and reads nothing again, so no conflict is detected for it.
What makes it harmless is ownership: a number is taken by one UUID, the record of that
only grows, and every call and transaction in flight with a DNT has the UUID that owns
it. The refinement follows: a commit changes the rows that the index of one UUID leads
to, and no other UUID's index leads there.

**Raft, votes.** Whoever has granted a vote in a term is in that term or beyond, and in
that term `voted_for` is the candidate it was granted to; so no node is in the
grants of two candidates of a term. Two quorums of grants share a node.

**Raft, logs.** An entry of a term is in the log of that term's leader, at the same place
and after the same entries. Two lemmas say what the loops leave: `truncate_from` the
first entries of the log, `append_entries` the log it found or the stretch of the
leader's log up to the last entry sent. Completeness needs what may still be
committed: an entry of a leader's own term that every node of a quorum has acknowledged
or, not having gone beyond that term, may acknowledge. A later leader has the entry, by
the up-to-date check of the vote that the two quorums share.

**Replication.** An operation has a number no greater than its place in any log, or than
the place that its batch will give it. What a pull skips has an index up to the cursor,
which is within the puller's own log; so what it brings goes on behind all that the
puller has from that origin, though it may leave a gap. This breaks when an operation has
come back to its author, behind newer ones. A log with nothing else has its entries at
their own numbers, and the next batch begins where it ends. `resolve_conflict` orders the writes totally, and a replica
holds the greatest it has seen; the proof found that the cases of the comparison must
be tried in the order of the code.

**Kpasswd.** The MAC key is made once, and every MAC of it that is in a request is over
bytes on record as signed; a task past the verification has a request with such a MAC over
its own bytes; an authenticator that was let through is in the cache or its lifetime
is over; and the newest handle is in the hand of a rotation, or one of the two that
the manager keeps, as long as those still under way cannot push it out.

**Kdc.** An AS-REP has a session key no other one has, under a key of the client it
names; a TGS-REQ that passed the checks has its authenticator under the session key of
its TGT, which some AS-REP carried; a TGS-REP answers such a request, for the service
whose key seals it.

**Gmsa.** The root key is made once, and its version is the number of its draws as long
as versions do not run out: so a version names one material. A derivation under way has
the first blocks of its account and cycle under the material that the manager's handle
names, since the HSM refuses a handle that is no longer the current one. A finished
password is then a function of account, cycle and version, and its first block gives
these three back.

**SmbService.** Between calls a client's handles are open in the session it names. While
a request is under way some of them are not: a close or a logoff has been carried out
and the client has not seen the answer. A session setup makes a session that the client
will change to, and only a client that holds nothing does. The invariant says what holds
for each kind of request and answer: what the client holds but for what the answer takes
back is open; the handle of a create's answer is open on the share the client is
connected to; a tree connect's answer names the share of the session. File and session
numbers of a connection are below its counters, so no number is given out twice, and
files are never removed.

**Acme.** A nonce that was used is in one request at most: one in the hands of a task, or
one for which a serial number was taken, and if both, then the task has that very
number. So the steps of a finalize belong to one request although a repeated one may
be handled by another task between any two of them. A task past `issue` has a
certificate with its own serial number, on record once it is past the record; serials
on record are below the counter and pairwise different. An order becomes valid only in
the step after its certificate was stored, and certificates are not removed.

The prover has no induction over data. Where a loop is a recursive function, the proofs
take the least number that would be missing from the set of rounds for which the claim
holds: `LeastNumber` and the lemma after it, in `RaftProofs` and `ReplicationProofs`.
`RaftState` takes its few operators on sequences as it needs them and not from
`SequencesExt`: the prover carries every definition in scope through every step, and
its time doubles. `RaftStepProofs` has what the handlers do to one node.

Only model-checked:

- liveness (`RequestsAnswered`, `RolledOut`), which the prover does not reach;
- `TypeOK` of the directory store, of which the proofs have all but the types of the
  attribute rows: a modify filters them with `SelectSeq`, of which the prover knows nothing;
- the formats: their codecs are recursive over their input;
- what runs refute: `UidsStartAtBase`, `KnownCommitted`, `PutIsReadBack`, `ValidatorAccepts`.
  `ReclaimReinitialises` is refuted in general and proved when no SID ends in 0xFF.

## Disagreements between the code and its documents

`PROJECT.json` lists them with the lines on both sides. Five are shown by runs. The
others were met while modelling and are in the models as the code has them; the ones
that weaken what can be stated are: an ACME order never becomes ready, since the
challenge's id is taken for the authorization's; a changed StatefulSet does not
wake the operator, since it has no owner reference; a rotation makes the previous
krbtgt key useless, since the HSM replaces its material; applied entries are
numbered locally, so that a server that pulls from two misses operations and is sent
relayed ones again; the MAC of a password request does not cover where its fields end;
and the formats refuse or alter the values named above.

## Not modelled

- Cryptographic primitives, DER and TLS: libraries, modelled by how they are used.
- The schema, ADMX, CEL and GPO compilers and the claims engine translate texts; a model
  would repeat them. The YAML, Helm, JSON and metrics text generators likewise.
- SDK bindings, the command line and the migration tool call the other crates.
- `auth-core`, `federation-shim`, `print-service`, `wcce-bridge`, `DrSuapiReplicator`,
  the RPC endpoint, `apply`/`rollback`/`verify` of policies and the HSM-backed signer are
  stubs that return an error or a fixed value.
- Test doubles and test support; LDAP bind, which keeps nothing; validation and
  difference of policy documents, which nothing calls before a policy is compiled.
