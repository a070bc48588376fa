# Verification of tolo-tenant-management

TLA+ modules for the tenant management service: who may belong to a tenant and
with which role, how a tenant comes into being and gets its owner, how people
are invited, how events and tenants end, what a caller may see and change, and
how the server process starts and stops. The service is stateless Go code in
front of one PostgreSQL database, so most of what is hard about it is the
interleaving of SQL statements of concurrent requests under READ COMMITTED
(`RunInTransaction` begins transactions with the default level).

## The system

| Component | State | Operations | Interacts with |
| --- | --- | --- | --- |
| Membership administration (`internal/relation/application`, `internal/relation/infra/db/membership.go`) | `tenant_memberships`, `event_roles`, an advisory lock per tenant | AddTenantMember, ChangeTenantRole, GrantEventRole, RevokeRole, ListMemberships | reads tenants and events as gates; shares row locks with the tenant side |
| Tenant administration (`administerTenant` in `internal/tenant/application/tenant.go`) | the tenant row: archived, plan | ArchiveTenant, ChangeTenantContract | asks the relation side's `Authorizer` for the caller's permission in its own transaction |
| Events (`internal/tenant/.../event.go`) | `events` | CreateEvent, TransitionEventStatus, GetEvent, ListEvents | CreateEvent reads the creator's role and grants it on the event |
| Onboarding | pending tenants with a token hash and a deadline | StartTenantRegistration (with a sweep of expired tenants), ClaimTenantOwnership, ResolveTenantSubdomain | a claim inserts the first membership |
| Invitations (`internal/relation/infra/db/invitation.go`) | `tenant_invitations` | Create-, List-, Revoke-, AcceptTenantInvitation | acceptance inserts a membership under the advisory lock |
| Transactions (`internal/infra/db/transaction.go`) | the transaction in the context | RunInTransaction, Executor | all writes but AddTenantMember, StartTenantRegistration and TransitionEventStatus |
| Request boundary (`gen/.../*.authz.connect.go`, `internal/tenantctx`, `infra/connect`, `infra/httpapi`) | the claims of the token and the bound tenant, in the request's context | policies, Ensure and VerifyOwnership, conversion of messages and enums, the error tables of each service, the reads | in front of every use case; the scopes in a token are those of a role read earlier |
| Server process (`cmd/server/main.go`, `infra/db/open.go`, `telemetry.go`, `infra/connect/server.go`) | deferred calls, run context, pool, tracer, serving goroutine | start, serve, shut down, flush, exit | signals, the database, the collector, running requests |
| Structured logging (`internal/logging/handler.go`) | levels, recorded WithAttrs and WithGroup calls | Handle, WithAttrs, WithGroup | every record of the process; reads the span of the context |
| Identifiers, one-time tokens, names | none | generate, parse, compare | all services |

What is hard: checks and the writes they guard are different statements; the
locks that keep them together are row locks of four strengths, taken explicitly
or by foreign keys, plus an advisory lock that only some writers take; several
gates are read before the transaction begins; the sweep deletes rows it may have
had to wait for; a transaction can fail at any statement, or at its commit, and
then nobody knows whether it happened. A token outlives the role it was issued
for, listings take two statements, refusals that only a race brings about need an
error code too. A signal may come at any step of start-up or of a request, and
loggers that are derived from one another keep their calls in Go slices.

What makes each part correct:

- memberships: an owned tenant keeps an owner; nobody writes with a permission
  that was taken away before the commit; event roles presuppose memberships;
  each write looks atomic; nobody deadlocks and every request ends;
- tenant row: no lost update, no revival of an archived tenant;
- onboarding: exactly one owner per owned tenant, unique and permanent
  subdomains, deadlines kept to the moment, no lock left behind;
- invitations: at most one admission, used up only by joining, closed for good;
- events: only the permitted transitions; nothing new once archived (both turn
  out to fail under concurrency, see Findings);
- request boundary: no answer shows another tenant's rows, no write is applied
  that its caller is not entitled to when it commits, and the code of an answer
  tells the truth about what happened to the database;
- process: whatever fails, what was acquired is released; an exit without error
  has lost no request and no span; it ends when told to;
- logging: nothing a caller names hides a field that Cloud Logging reads (which
  fails for the names of groups, see Findings), and a span adds the trace to an
  entry and changes nothing else.

## Modules

| Module | Models |
| --- | --- |
| `Roles` | roles, grantable and invitable ones, the scopes a role issues |
| `RowLocks` | PostgreSQL's row-lock levels as the SQL takes them (external) |
| `MembershipWrites` | the eight writes of one owned tenant, statement by statement |
| `MembershipLedger` | what those writes promise: atomic effects or refusals |
| `MembershipDrain` | `MembershipWrites` under a finite load, for termination |
| `Onboarding` | registration, sweep and claim, statement by statement |
| `TenantRegistry` | what onboarding promises |
| `Invitations` | invitations, with the tenant's other writes as atomic steps |
| `EventStatuses` | the statuses and the permitted transitions |
| `EventLifecycle` | event statuses over time, and the race of both event writes with ArchiveTenant |
| `AccessControl` | tokens, the two policy tables, Ensure, VerifyOwnership, the interceptor from its use (external) |
| `ErrorCodes` | which errors become which codes: ClientErrors.For with both services' tables, writeError of the HTTP API |
| `RequestBoundary` | one request of any of the eighteen RPCs, or the HTTP read, from the wire to its answer, with everybody else's writes as atomic steps |
| `LogHandler` | levels, reserved keys and the trace handler |
| `ServerLifecycle` | `run()` of `cmd/server`, from the first variable it reads to the exit code |
| `MembershipWritesProofs`, `OwnerProofs`, `LedgerProofs` | theorems about `MembershipWrites`, each extending the one before |
| `OnboardingProofs`, `InvitationsProofs`, `EventLifecycleProofs`, `RequestBoundaryProofs`, `ServerLifecycleProofs` | theorems about the module each is named after |
| `MC*` | instances for TLC: symmetry sets and choices of operations |

### How a handler becomes actions

A request is a process. Its *arrival* action (named after the use case) does the
input validation and reads the gates that the handler reads before its
transaction; a request that a gate refuses never arrives. Each SQL statement is
an action of its own, named after the repository method: its guard is "the next
statement of p" and "the locks it needs are free", its alternative outcome is the
error return, which ends the transaction (`End` gives all locks back). Writes
become visible in `Commit`; `Rollback` may strike at any statement. Statements
read the committed variables directly, which is READ COMMITTED: one snapshot per
statement. A statement that finds no row does not wait and takes no lock; an
INSERT holds its key from the statement to the commit.

`MembershipWrites` follows the locks exactly, since they are the subject:

| Code | Model |
| --- | --- |
| `pg_advisory_xact_lock` in `LockTenantMemberships` | `advisory`, taken only by the four relation writes with a permission check |
| `FOR SHARE` in `FindTenantRoleForShare` | level `Share` on the caller's (or the target's) row |
| UPDATE of a role, DELETE of a membership | `NoKeyUpdate`, `Update` on the target's row |
| foreign keys of `event_roles`, of memberships and events to `tenants` | `KeyShare` on the membership or the tenant row |
| `FOR UPDATE` in `FindTenantByPublicIDForUpdate` | `Update` on the tenant row |
| ON DELETE CASCADE of `event_roles_membership_fkey` | `EventRolesAfter` |
| `UpdateTenant` writing both columns | `copy`, written back whole by `Commit` |

The number of a level is chosen so that two levels conflict exactly when they add
up to more than `Update`; `RowLocks` states PostgreSQL's table as an assumption
that TLC evaluates on every run. Compatible requests do not queue behind a
stronger waiting one, which gives the model more interleavings than the server.

`Onboarding` splits the sweep's DELETE into its snapshot, the visit of each row
(wait, evaluate the WHERE clause again, lock) and its commit. The deadline and
the clock are numbers; the token of a tenant is named by the tenant. In
`Invitations` and in `EventLifecycle` the writes of other modules are single
steps or short processes; `MembershipLedger`, which `MembershipWrites` is checked
to implement, is the reason a membership write may be taken as one step there.

`RequestBoundary` turns the view around: one request is followed through every
stage, and all the others are the atomic steps the ledger and the registry
establish.

| Code | Model |
| --- | --- |
| the interceptor and a service's policy table | `Admit`: the token kind and the scope of the procedure (`AccessControl`) |
| `httpapi` binding the tenant of the path | `bound` of the request |
| requests, enums and oneofs of the generated messages | `RelationMessages`, `TenantMessages` and the conversions, unknown enum numbers included |
| the checks of a use case before its transaction | `FailIf` is a condition and its error, `++` the early return: the first failure is the one reported |
| reads before the transaction, then its statements | the stages of `stage`; what an earlier one returned is in `seen` |
| `FindTenantRoleForShare` | `locked`: others do not write that member until the request has ended |
| AddTenantMember reading its row back; the two queries of `listMemberships` | stages of their own, with others' writes between them |
| an error met by `ClientErrors.For` or by `writeError` | a set of error values (what `errors.Is` sees) looked up in the ordered table |
| `tx.Commit` that fails | the change applied or not (`LoseCommitAnswer`), and the answer a plain failure |

`ServerLifecycle` has a program counter for the main goroutine and the stack of
its deferred calls; the serving goroutine is a second process, joined by a channel
of capacity one. The variables of the environment are chosen where they are read.
Signals, the collector, the database and clients act on their own; a request may
hang for ever, and Shutdown then ends by its timeout. `LogHandler` keeps what the
properties can tell apart: a key, also that of a group, is the sequence of its
prefixes and its name, an entry the sequence of its fields with the groups they
are under (the outermost of which is a key at the top level), and the recorded
calls are slices over a heap of arrays, with the growth of Go's `append`, because
sharing an array is the bug that code has to avoid.

## Runs

| Run | Instance | What it shows |
| --- | --- | --- |
| `owners` | 3 users, 3 requests, no events; add, change, revoke | the tenant keeps an owner, no lock cycle, each write is a step of the ledger |
| `administer` | 2 users, 1 event, 2 plans, 2 requests; all eight writes | an owner remains also when owners step down at once, permission held to the commit, event roles rooted in memberships, the creator's role current, no lost update of the tenant row, the ledger |
| `drain` | 2 users, 3 requests, each served once, from any roster | no lock cycle among RPCs that hold one lock and want another, and every request ends |
| `onboarding` | 2 tenants, 2 users, 2 names, 2 requests, clock 0..3, TTL 1 | one owner, unique and permanent names, no early sweep, the registry; every registration and claim ends |
| `invitations` | 3 users, 1 invitation, 3 requests, clock 0..3, TTL 2 | one admission, inviter's permission, used up only by joining, closed for good |
| `events` | 2 events, 3 requests | a request that arrives after the archive changes nothing |
| `boundary` | 2 tenants, 2 users, all 18 RPCs and the HTTP read, any token and target, others' writes, failures of the database | answers stay in the tenant, writes are authorised when they commit, "internal" only for failures, an answer matches its effect, listings are exact for members nobody touched, what is archived throughout a request is not changed by it |
| `process` | 2 clients, a span queue of 1, 6 loggers, 2 group names, 2 projects | nothing stays acquired, a clean exit loses no request and no span that was queued, the process ends once stopped; what a logger's entries hold, with nothing hidden unless its outermost group has a reserved name, and a span only adds to them |
| `frozen`, `transitions`, `events_frozen`, `reserved_group` | | the findings below |

Bounds. The hazards are races of two requests over one row, with a third one as
the holder of a lock or as the owner who makes a removal legal, so three
processes and three users are where the interesting cases end; the `owners` run
has them all, `administer` trades the third process for all operations (the
theorems below lift that bound for its state invariants). The clock reaches past
the deadline, and TTL is small enough that both sides of the deadline and the
deadline itself occur. One invitation and one event suffice for properties about
a single row; `onboarding` has two tenants because names are shared and because a
sweep visits several rows, and two requests, because it checks termination with
the rest and so without symmetry (its theorems lift that bound for all but
termination). Event ids are not reused, so a run creates each event
at most once. `boundary` has one event per tenant, named like the tenant, and one
contested tenant, the other being the one whose rows must not be shown; a
transition asks for `closed` or `archived`, a permitted and a binding one. Others
are not let in while an answer is on its way, since nothing reads the database
any more, and a request whose answer is sent is forgotten. `process` has one
request per client, two of which are what it takes to have one drained and one
left over; a queue of one span is full when the second one ends. Of the two group
names one is reserved and one is not. Six loggers are needed because append grows
an array to 1, 2 and 4 entries: sharing first shows when two loggers are derived from the third of a
chain. Process steps and derivations share no variable after the first logger, so
a behaviour of `MCSpec` follows one or the other. Symmetry is used in the runs of
safety properties only.

Fairness. `drain` assumes weak fairness of each request's next statement: the Go
server and the database go on executing what does not wait for a lock, and under
a finite load that is enough, because nobody overtakes for ever. `onboarding`
has an unbounded load and assumes strong fairness: PostgreSQL queues waiters for
a row, so a waiter whose lock becomes free again and again gets it. Failures
(`Rollback`, `Abort`) and new arrivals have no fairness. `process` assumes weak
fairness of the main goroutine's own next step: Go schedules it, its timeouts fire,
and the ping returns once its context is cancelled. There is no fairness for
signals, requests, the exporter, the serving goroutine, or a ping nobody
cancelled. Deadlock checking is on in every run but `process` and `reserved_group`, where
the process ends.

Every property has a mutant, a plausible bug in a mapped definition (a dropped
lock, a check on the wrong side of a boundary, a write outside its transaction)
under which TLC finds the property violated; the mutant stands next to the
definition it changes.

## Findings

1. `transitions`: `TransitionEventStatus` checks the transition on a copy and
   writes the result without a lock or a condition on the status. Two calls that
   read `draft` archive the event and then open it. The specification permits
   eight transitions (`docs/tenant_management_spec.md:308`), and from `archived`
   only `closed` (`README.md:289`).
2. `frozen`: the archived gate of the membership writes (`writableTenant`) is
   read before the transaction. A member is added, changed or removed after
   ArchiveTenant has committed, against "an archived tenant keeps its memberships
   frozen" (`relation.go:531`) and `tenant_management_spec.md:386`.
3. `events_frozen`: the condition on the tenant in `CreateEvent` and
   `UpdateEvent` is read from the statement's snapshot; an event is created in a
   tenant whose archiving has committed, against `tenant_management_spec.md:304`.

4. `reserved_group`: `WithGroup` takes any name, and slog writes an open group
   under its name at the top level. A logger of `WithGroup("message")` emits a second
   `message` beside the record's own (`ReservedKeysOwn`), against the package
   comment (`handler.go:10`: a top-level attribute of a reserved name is written
   with a prefix, "so both survive") and `handler.go:254`. No call site of the
   service opens such a group; `NothingHidden` therefore states the rest for every
   logger, and that nothing collides for those whose outermost group is not
   reserved.

For a request that arrives after the archive has committed the gates do hold:
`MembershipLedger` (its `Call`), `ArchiveBindsLaterRequests` and, for every RPC,
`GatesBindLaterRequests` state that.

Remarks that no run is about:

- `docs/internal_jwt.md:115` leaves the tenant out of machine service tokens, and
  the policy of AddTenantMember admits them, but its `Ensure` then refuses every
  such token: a service needs a token with the claim.
- If serving fails and a signal arrives at once, `select` may take either branch,
  and with the second the error of ListenAndServe is not reported.
- The batch processor queues 2048 spans by default and drops those that end while
  the queue is full: `SpansExported` is about the ones it took.

## Proofs

Proved with TLAPS for every value of the constants that satisfies the named
assumptions: `ConstantsAssumption` (the operations are known ones, `NoProc` and
`NoEvent` are not members, the default plan is a plan, the users are finitely
many), `OnboardingAssumption` and `InvitationsAssumption` (the clock and the TTL
are naturals, the values that stand for nothing are not members) and
`BoundaryAssumption` (the contested tenant is one of the tenants, the statuses
asked for are statuses, no id is empty). The process needs none, its loggers
`AttrAssumption` (an attribute list is a sequence of attributes, and a key has at
least its name). The inductive invariants of the request boundary, of the loggers,
and those that speak about pairs of requests, were checked with TLC before they
were proved.

**Membership writes.** `TypeCorrect` is inductive with `StepOK`, which says which
RPCs can be at which statement and what their requests carry.
`OwnerAlwaysRemains`, `PermissionAlwaysHeld`, `CreatorRoleAlwaysCurrent` and
`EventRolesAlwaysRooted` are the four state invariants; none is inductive alone.
`SafeInv` adds what ties a transaction to its locks: row locks of different
transactions never conflict (`LocksCompatible`); a lock is on a committed row or
belongs to its insert (`LockedRowExists`, needed because an INSERT waits for less
than its key will exclude); a relation write holds the advisory lock
(`AdvisoryHeld`); a write about to commit holds the row it changes
(`WriterLocked`); a permission or a creator's role that was read is still there
under a share lock (`PermissionLocked`, `CreatorLocked`); whoever takes a role
away leaves another owner (`AnotherOwner`). The argument has two halves. Steps
that do not commit change only their own process (`Frame`) and may only add
compatible locks (`QuietStep`, `LockFrame`, `EndKeeps`). A commit changes one row,
which it holds at `NoKeyUpdate` or `Update`, so it cannot touch what another
process has share-locked (`CommitRespectsLocks`); owners that another process
counts on are safe because both would need the advisory lock (`CommitOthers`),
except for AddTenantMember, which does not take it and only adds.

**The ledger, the tenant row and deadlock** (`LedgerProofs`). `LedgerInv` extends
`SafeInv`: locks on the tenant row do not conflict, administerTenant's copy is the
row until it changes its one column (`CopyCurrent`), an event being created is
still free (`EventFresh`, `EventPair`), an event role found for deletion is still
there (`EventRoleThere`). From it `ImplementsLedger` (each commit is exactly the
atomic operation that its checks promised, every other step a stutter) and
`NoTenantUpdateLost`. `NeverDeadlocked` needs no bound on the number of requests:
`HoldsAt` says at which statements locks of which strength are held, and `Rank`
orders the statements so that whoever is waited for is at a higher one, which
excludes a cycle of any length.

**Onboarding.** `IInv`: owned tenants have one owner and only they have a name
(`RowsOK`, `NamesUnique`); what a sweep is about to delete is locked, pending and
past its deadline (`DoomedOK`); a claim holds the row it was judged on
(`ClaimOK`); two registrations have different ids and two claims about to commit
different names (`PairOK`). Proved: `OwnedByExactlyOneAlways`,
`SubdomainsAlwaysUnique`, the action properties `SubdomainsStay` and
`DeadlinesKept`, and `ImplementsRegistry`.

**Invitations.** `IInv`: the history agrees with the rows (`RowsOK`), creating and
accepting transactions hold the advisory lock (`AdvisoryOK`), under which the
inviter's permission and the joiner's absence stay as they were read (`InviterOK`,
`JoinerOK`); whoever closes an invitation holds its row (`CloserOK`). Proved:
`AdmitsOnceAlways`, `InviterMayWriteAlways`, `SpentByJoining`,
`ClosedStaysClosed`.

**Events.** `ArchiveBinds`, with `LateOK`: a late request has yet to look at the
tenant and will find it archived. What the three violation runs refute is, of
course, not proved.

**The process.** Up to its return, the deferred calls of `run()` are a function of
the step it is at (`StackOK`), what is held is named on that stack or, between
open and ping, in `Open`'s hands (`HeldOK`), only a running provider has a buffer
(`SpanOK`), and a nil result implies a shutdown with nothing in a handler
(`DrainOK`). Proved for any number of clients, any size of the span queue
(`QueueAssumption` is not needed) and in any interleaving with the derivation of
loggers, which `MCSpec` separates: `CleanExitAlways`, `ResourcesAlwaysReleased`,
`SpansAlwaysExported`, and types, including that every slice of recorded calls
stays within its array.

**The loggers** (also in `ServerLifecycleProofs`). For attribute lists, group names
and chains of derivations of any kind and length: `NothingEverHidden` and
`SpanAlwaysOnlyAddsTrace`. Neither property is inductive: `LoggersOK` adds, for
every logger, that the calls its slice holds *now*, replayed over the base handler,
still make its inner handler, with the groups its callers opened and the fields
they asked for, each of these under a free key or under the outermost group
(`Free`, `FreeUnderMore`), and that replayed over the trace fields they make the same behind
these. A derivation extends a logger that satisfies it by one call (`DerivedOK`)
and, because it appends to a fresh array, leaves what every other slice holds
(`DeriveAddsOne`); the flag `grouped` decides the renaming exactly as the open
groups do. What remains is about operators: a renamed key is never a reserved one
(`RenamedIsFree`), a list renamed by the handler is the list asked for
(`FieldsAsAsked`), and the entry is cut behind its three own fields (`Entries`,
`CutAtThree`). `Replay`, `Opened` and `FlattenSeq` are recursive functions over the
positions of a sequence. That such a function exists, and that one more element
adds one more step (`ReplayAppend`, `OpenedAppend`, `FlattenAppend`), is proved
with an induction over a set of positions (`UpTo`, from the least element of a
well-founded order), which needs no operator as a parameter.

**The request boundary** (`RequestBoundaryProofs`). All seven properties of the
`boundary` run are proved. `RequestInv` says that a request under way was let in
by its policy and its checks (`Admitted`, from the token tables, the conversions
and the checks of each RPC) and which RPC can be at which stage (`Placed`); past
the event gate, a scoped request acts on the tenant of its context
(`TargetIsContext`), which is `AnswersAlwaysStayInTenant`. `DataInv` adds that the
rows are typed, that a registration's name is still free and that the creator's
role which was read is a role; then each write changes one tenant (`EffectFits`),
and the caller is entitled to at its commit (`WriterEntitled`):
`WritesAlwaysAuthorized`. `LateInv` says what a request has passed whose target
has been archived all along: `GatesAlwaysBind`. `FateInv` and `MemberInv` relate
what was read to what is there now: a creator's role stays under its share lock,
an addition finds its row or somebody wrote it, a listing is exact for the members
nobody wrote (`OthersRoles`): `MembersAlwaysExact` and `AnswersAlwaysMatch`.
`InternalAlwaysFailure` goes through every check, gate and write: the errors each
service reports (`RelationErrors`, `TenantErrors`) have a row in its table
(`RefusalMapped`). It needs `MemberInv`: ErrTenantMembershipRequired has no row in
the tenant service's table, and only the share lock keeps CreateEvent from
meeting it. That `ClientErrors.For` takes the first row of a table of any length
is a least-element argument (`ForFirst`).

Only model-checked, and why. The liveness properties (`EveryRequestEnds`,
`RegistrationsAndClaimsEnd`, `EndsOnceStopped`) rest on fairness, which TLAPS does
not reason about here. Every invariant and every action property of a passing run
is proved.

## Not modelled

- Joining an outer transaction: no use case nests them. The retry after
  `ErrTransactionAborted` is the client's.
- The syntax of subdomains and display names, token hashing, random identifiers:
  values are missing, valid, invalid, right, wrong or fresh.
- Order and limit of `ListEvents`, timestamps, JSON text, `/healthz`, message
  descriptors and generated clients: no property depends on them.
- Attributes that are themselves unnamed groups, which slog inlines: an attribute
  of the model has a name.
- Sweeps that visit rows in different orders, and PostgreSQL's deadlock detector:
  see the hazards in `PROJECT.json`.
- Inside net/http and database/sql: a connection accepted while Shutdown begins,
  and that `Close` of the pool does not wait for a running statement.
- The pending phase inside `MembershipWrites`: its tenant is owned from the
  start, as `ClaimTenantOwnership` leaves it.

## Plan

1. Done: roles, locks, membership writes with their ledger, termination,
   onboarding with its registry, invitations, event lifecycle; types and the four
   safety theorems.
2. Done: access policy, tenant context, error codes and the reads in
   `RequestBoundary`, with the ambiguous commit and GrantEventRole against the
   archiving of its event; the server process; logging.
3. Done: the refinements of `MembershipLedger` and `TenantRegistry`, deadlock
   freedom, the safety properties of onboarding, invitations, events and the
   process for every value of the constants.
4. Done: all properties of the request boundary, and what the replay of a logger's
   calls computes.
