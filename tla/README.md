# etar in TLA+

etar is a Rust crate that writes and reads tar and tar.zst archives as async
streams and treats what it reads as untrusted. This directory models its core
logic in TLA+, checks the models with TLC on small instances and proves
theorems about them with TLAPS. Paths below are relative to the repository:
`guard.rs` is `src/guard.rs`, and so on.

## The system

Reading is a stack of `AsyncRead` layers, each polled by the one above it:

    validate                      reader.rs    asks for every entry, copies its body away, counts
    Reader, ReadEntry             reader.rs    next_entry, poisoning, end of archive
    open_entry, Bounded           open.rs      checks a member, bounds its body
    Archive, Entries              tokio_tar    external: the tar parser
    HeaderGuard                   guard.rs     inspects raw headers before the parser sees them
    Cap                           open.rs      decoded-byte and ratio caps
    decoder                       compress.rs  zstd or nothing, chosen by magic
    Meter                         open.rs      counts encoded bytes
    the caller's source

Writing is a shorter stack: `Writer` (writer.rs) calls `pack::append` (pack.rs),
which feeds the body through `Exact` to the external `Builder`, which writes to
the sink through the external `ZstdEncoder` (in one of the two formats) and
`Counted`. Outside the crate, `scripts/release.sh` and its workflow release it.

| Component | State | Operations | What is hard | What makes it correct |
| --- | --- | --- | --- | --- |
| header guard | header buffer, payload counters, pax override, trailer flag | `poll_read`, `inspect`, `read_data` | every poll may be cut anywhere; overrides outlive records; sizes overflow | same headers, sizes and refusals for every cutting; no byte lost, repeated or released early |
| guard, parser, `verify_end` | two accounts of where the next header is | reading an archive entry by entry | nothing but arithmetic keeps the accounts together; truncation looks like an end | accounts agree; the end is clean for complete archives and only for them |
| reader | `archive`, `entries`, `body_failed`, `seen`, `done` | `open`, `next_entry`, body reads, drop | dropped futures, ignored body errors, leaked entries | an end that is reported was earned; a mishap is final; bodies are bounded |
| validate | a count | the whole loop | errors in the middle | a report is true |
| writer, pack | `failed`, `Exact::remaining`, `Counted::bytes` | `append`, `finish` | dropped futures, short writes, short and surplus bodies, late probe | whole accepted entries or no archive |
| byte caps | shared counters, `failed` | `Meter`, `Cap`, `breach`, `read_error` | breach in the middle of a read, error classification | caps hold, errors keep their names |
| compress | four peeked bytes | `decoded` | short reads of the magic | no byte lost |
| entry paths | none | `SafePath::new` | pure | only relative, in-tree paths |
| limits, settings, errors | constants | setters | pure | - |
| release | tags, main, crates.io, GitHub releases | `release.sh` | crash between push and publish, a moving main | a version is tagged, published and released once, and completed by a retry |

`PROJECT.json` lists every component with its status, the definitions with the
lines they translate, and the hazards of the code at the lines where they bite.

## Modules

* `Tape` - a decoded stream as the layers see it: its length, which offsets are
  not zero, and for *every* offset the header one would read there. Payload has
  a description too, so that a layer that loses its alignment misreads it as the
  code would. Also the pure parts of `inspect`: `Refusal`, `PayloadSize`,
  `Padded`. `MaxU64` is the width of a size: rounding above it is the overflow
  that `checked_add` (guard.rs:79) reports. `ParsePaxSize` stands for
  `parse_pax_size`: it gives what the header describes for exactly the bytes of
  its payload and Bad for any other selection, so a wrong selection shows.
* `TarFraming` - the abstract specification of the guard: headers visited one
  after the other, with no reads, buffers or cuts.
* `HeaderGuard` - guard.rs. One action per way a call of `poll_read` can go:
  `StallInHeader` (the fill loop leaves early), `RefuseHeader` (an error of
  `inspect`), `HandOnPart` and `HandOnRest` (the header leaves, in part or to its
  end), `PassData` (`read_data`) and `PassTrailer`. The room of the caller and
  the bytes the source gives are chosen freely. Variables have the names of the
  struct's fields; `pos` and `handed` count bytes in and out.
* `TapeWalk` - what a tape holds, said with no reader in sight: the headers on
  the way from its first byte to its first end block, and when it is complete.
* `GuardedParser` - `HeaderGuard` under the tar parser and then `verify_end`.
  The parser (external) keeps `start`, `limit`, `next` and its own `override`.
* `PaxSize` - `parse_pax_size` (guard.rs:161-192) record by record over bytes,
  with `decimal` and its overflow; one action per round of its loop. Its
  reference is a definition without a parser: the sets of offsets at which a
  payload can be cut so that a record lies between any two that are next to one
  another.
* `ByteCaps` - `Meter`, `Cap`, `breach`, `read_error` of open.rs over the peek,
  the replay and the choice of the decoder of compress.rs. `Peek` is a read of
  `decoded`; `Pull` a read below the decoder; `Emit` a poll of `Cap` that charges
  what was decoded and hands it on or takes it back (`TakeBack`); `End`,
  `PollFails` and `PollAborted` the other answers of a poll. `encoded`, `decoded`
  and `cap_failed` are `Meter::count`, `Cap::total` and `Cap::failed`. The history
  `broken` remembers that the transport failed, for `ErrorIsTrue`.
* `TarBytes`, `ArchiveSink`, `Writer` - bytes of an archive as tokens; the
  abstract writer (`Accept` a whole entry, `Publish` once, or `Abort`); and
  writer.rs with pack.rs, where a call is a sequence of steps between which the
  body or the sink may fail and the future may be dropped (`Cancel`).
* `RoundTrip` - the writer's sink as a tape (`AsTape`) under `TapeWalk`: both
  halves of the crate on the same bytes, long names and padding included.
* `Reader`, `Validate` - reader.rs with `open_entry` and `Bounded` of open.rs,
  over an abstract stream of members; and `validate` as its client.
* `EntryPath` - `validate_path` of open.rs over `SafePath::new` of entry.rs,
  component by component. The pieces of a path are known by where they end;
  `Components`, those that `Path::components` of Linux shows, are a set of such
  ends, looked at in their order.
* `Release` - release.sh in release.yml. `StartRun`, `Plan`, `CheckMain`, `Push`,
  `Publish`, `Announce` are the steps of a job; `Stop` loses it between any two,
  `PushCommit` and `Dispatch` are other people. A commit is the history that
  ends with it; `pending` is the one run GitHub keeps waiting in the group.
* `MCTapes`, `MCStreams`, `MC*` - the small instances.
* `TapeWalkProofs`, `PaxSizeProofs`, `ByteCapsProofs`, `EntryPathProofs`,
  `ReleaseProofs` - lemmas and theorems about the module they are named for;
  `GuardProofs` about `HeaderGuard`, what it implements, and `GuardedParser`;
  `ReaderProofs` about `Reader` and `Validate`; `WriterProofs` about `Writer`, what
  it implements, and `RoundTrip`.

Definitions marked "Mutant" are variants of the definition after them with a
plausible bug; `PROJECT.json` says which property each one breaks. They are part
of no specification.

Reader and GuardedParser meet at the tar parser: GuardedParser shows what the
stack below does with every byte; Reader assumes of it only that it yields the
members of the stream in order, then the end, or an error at any read.

## Runs

| Run | Specification | What it shows |
| --- | --- | --- |
| `HeaderGuard` | `GuardFairSpec` | types; `Accounting`; `SpentOnce`; `PaxIsPrefix`; the guard implements `TarFraming` (`FollowsFraming`) for every cutting; a guard polled on drains its stream (`Drains`) |
| `GuardedParser` | `FairSpec` | `Lockstep` of the two accounts, overrides included; nothing barred or oversized reaches the parser; accepted iff complete, against an independent walk of the tape; reading ends |
| `Writer` | `FairSpec` | the stream is exact at every step; accepted entries stay; answers are honest; `Writer` implements `ArchiveSink`; calls return |
| `Reader` | `Spec` | the end is earned; the branch at reader.rs:168 is never taken and `done` and `body_failed` exclude one another; bodies are bounded; after a mishap nothing is parsed or lent any more |
| `Validate` | `ValidateFairSpec` | a report is true; Malformed names a defect; the call returns |
| `ByteCaps` | `Spec` | `CapsHold` and `NoByteBehindGap` for callers that poll on after a failure; `ErrorIsTrue` (`Io` only for the transport, and no answer hides an exceeded limit); a plain archive is no bomb; a clean end vouches for every byte |
| `PaxSize` | `Spec` | a payload is accepted iff it can be cut into records, and the last size wins |
| `EntryPath` | `Spec` | an accepted path never leaves its directory, on the way included; refusals are true |
| `RoundTrip` | `Spec` | what `finish` returns is walked to a clean end and has exactly the accepted members; what has not been finished is never taken for complete |
| `Release` | `FairSpec` | tags stay on main; versions cover what changed; what is published is what is tagged; every change is in the end released |
| `ReaderPaxDirectory` | `Spec` | violated, see Findings |
| `ReleaseRetry` | `Spec` | violated, see Findings |

Bounds. Blocks have 2 or 3 bytes instead of 512, enough for a poll to end
before, inside and at the end of a block and for padding of every length. Tapes
have every sequence of three blocks over an alphabet with all header kinds,
sizes around the block, the metadata cap and the largest u64, and of five
or seven blocks over a narrow one, plus families with an override that stands across a
long-name record; the last byte is cut off in some. A payload block may be any
header, so misalignment is visible. `Chunk` (room of a caller, bytes of a write)
is above a block in the guard, so that one poll can cross a header's end. The
writer appends three entries of exact, empty, short, long-to-zero-padding and
surplus bodies and of a directory, in both formats. The reader sees up to three
members with `max_entries` and `max_entry_bytes` of two: limits met exactly and
exceeded by one.

`ByteCaps` has a u64 of four bits, a magic of two bytes and a ratio floor of
three: products saturate, totals meet the cap and exceed it by one, sources are
shorter than the magic, and ratios are zero, one, two and the largest. `PaxSize`
has all payloads of up to five bytes over seven, which include every way a record
can be too short or too long, and payloads of up to three records and near-records
of up to twelve bytes in all, which include two sizes, an overflow in the product
and one in the sum; the largest u64 is 15, and "size=" is one byte. `EntryPath`
has every path of up to seven characters, one above the limit: enough for `a/..`
before and after other components. `Release` starts with a fresh or a released
repository at 0.9.0; others push two commits of any kind that may set 0.9.1 or
1.0.0, one job stops at any step and one run is dispatched: a stop between push
and publish can be followed by a commit and a dispatched run. `RoundTrip` has the entries
of `Writer`, of which one has a long name; bodies are zeros, which look like end
blocks.

Deadlock is not checked where the system really stops: a guard at the end of its
tape or with a final error, a parser that has finished, a writer that was
consumed, a validation that has returned, a source whose layers are at an error
of the peek, a payload or a path that is judged, a release with nobody left to
push. A `Reader` can always be called again,
so `Reader` is checked for deadlock.

Fairness. `GuardFairSpec`: weak fairness of the guard's step, that is, callers
that keep polling and a source that keeps answering; `next_entry`, `verify_end`
and `copy` do poll in loops. `GuardedParser`: the same, of its only process; the
one step that waits for the caller is `LeaveMember`, the next call of
`next_entry`, so the caller is one that reads the archive to its end. `Writer`:
weak fairness of the steps of a running call (`Run`), none of the caller's
actions, failures or `Cancel`. `Validate`: weak fairness of the steps of its one
thread of control, a fault of a body not among them. `Release`: weak fairness of
`Step`, that is, a runner that is not lost goes on and a free concurrency group
takes the run that waits; none of `Stop`, `PushCommit`, `Dispatch`.

## Proofs

Every invariant that a run checks is also proved, for all values of the
constants that the named assumptions allow, and so are the action properties and
refinements. Each module of proofs has its inductive invariant first, then the
lemmas about operators, one lemma per action, and the theorems. A recursive
function is unfolded once, by a lemma that the rest of the proof cites.

### The guard

`GuardProofs` proves, for every set of tapes and every value of `Block`,
`MaxU64`, `MaxMetadata` and `Chunk` that satisfies `TapeAssumption` and
`GuardAssumption`:

* `GuardTypeCorrect`, `GuardAccounts`, `GuardSpendsOnce`, `GuardKeepsPaxPrefix`:
  `GuardSpec => []` of `TypeOK`, `Accounting`, `SpentOnce`, `PaxIsPrefix`.

The inductive invariant is `IInv`, the conjunction of the four. None of them is
inductive alone: that a counter stays in Nat needs that payload is counted only
when no header is held (`Accounting`, `SpentOnce`); that the kept bytes are a
prefix needs that inspect ran once (`SpentOnce`) and where the header lies
(`Accounting`); that a parsed override is a u64 needs that the bytes kept are
the whole payload (`PaxIsPrefix`, lemma `WholePaxParses`). There is one lemma
per action (`StallIInv`, `RefuseIInv`, `HandOnPartIInv`, `HandOnRestIInv`,
`PassDataIInv`, `PassTrailerIInv`), with a step for each conjunct the action can
disturb. The arithmetic of rounding is in `DivBounds` and `PaddedBounds` of
`TapeWalkProofs`.

It proves next `GuardImplementsFraming`: `GuardSpec` implies
`FollowsFraming`, the specification of `TarFraming` under the mapping `FramingAt`,
`FramingPending`, `FramingExt`. A header is visited by the walk in the poll that
inspects it (`HeaderSeen`, used by `HandOnPartFraming` and `HandOnRestFraming`), an
'x' record is absorbed in the poll that passes its last byte
(`PassDataFraming`), a refusal is a refusal, and every other poll is a stutter
(`Unseen`). The proof needs `IInv`: `SpentOnce` for where the next header is,
`PaxIsPrefix` for which header the kept bytes belong to.

### The guard under the parser

`GuardProofs` goes on to `ParserLockstep` and `ParserStaysGuarded`: `Lockstep` and
`ParserIsGuarded` for all tapes, block sizes, limits and cuttings. Neither is
inductive, because between two headers they do not say what the guard will
take the next one for. `PInv` therefore sees the guard through the walk of
`TarFraming` that it implements (`NextFraming`), and says for each
phase where that walk is relative to the parser: at its header before the guard
has inspected it (`Due`), one header ahead after (`Visited`), and then waiting
at `next` (`Between`) with the override pending (`Settled`, `AtExtension`, `AtSeek`)
or used up (`AtMember`). A poll of the parser is a step of the walk or none, and
one poll never crosses a header's end, because the parser's reads end there.
The proof assumes `EmptyPayloads`: a pax record of size zero sets no size.

`AcceptsExactlyComplete` is `AcceptedIffComplete`: a reading ends accepted exactly
if `TapeWalk` finds the tape complete. `TapeWalk` is a recursive function from the
last offset backwards; `WalksUnfold` of `TapeWalkProofs` shows that it meets, at
each offset, one header and then whatever is met behind it. The library's
induction theorems take an operator, which the provers cannot instantiate, so the
lemma is an induction over a *set* of numbers (`Induct`, from `LeastNat`). The
invariant `EInv` says that where the first end block of the tape lies is settled by
what is still ahead of the parser (`EndFrom` of `start`, of `next`): each header the
parser takes moves that question one header on (`HeaderLeads`), so that the
parser's own end is the walk's (`AtVerify`), and then `verify_end` is about the
bytes `Complete` is about. A failure needs a reason there: a refused header leads
nowhere, a truncation has its next header behind the end of the tape.

### The digits and records of a pax payload

`PaxSizeProofs` proves `PaxAcceptsRecords` and `PaxLastSizeWins` for all payloads no
longer than a u64 can say and every `MaxU64`. `DecimalIs` is the claim about
`decimal`: its answer is the number the digits spell if that fits, and none
otherwise, because a value that has overflown only grows (an induction over the
digits, with `FoldedIs` and `ReadIs` for the two recursive functions). One turn of
the loop finds a record if what is left begins with one (`FoundIsRecord`), and
then the only one (`RecordIsFound`): before its first space there are digits, so that
the length is settled before anything else is read. The invariant `OneCut` says
that what was parsed can be cut in one way, that every cut of the whole payload
begins with it (`AllCut`), and that the size is the last that this cut states.

### The caps

`ByteCapsProofs` proves every property of the run `ByteCaps` for all sources,
limits, widths and lengths of reads (`CapsTypeCorrect`, `CapsAreKept`,
`ErrorsAreTrue`, `EndVouches`, `PlainPasses`, `GapStaysShut`). The caps alone are
not inductive: that no byte passes after a breach needs that `Cap` has failed
exactly when it charged more than it handed on (`FailedIsGap`); that the ratio
holds while more is pulled needs `TimesMonotone`, and that the saturating product
decides as the true one does needs that totals fit a u64 (`BreachMeans`); that a
plain archive decodes to no more than was pulled (`PlainIsPulled`) needs that the
peek decides for zstd exactly on the magic (`MagicDecides`), and that input is
never zero when the ratio is asked for (`PeekFirst`).

### The writer, and its archive read back

`WriterProofs` proves the invariants of the run `Writer` and its refinement for
all entries, block sizes, bounds and lengths of reads and writes
(`WriterTypeCorrect`, `WriterStreamIsExact`, `WriterKeepsAccepted`,
`WriterAnswersHonestly`, `WriterImplementsSink`), and beyond the run that
`encoded_bytes` is what the sink took (`WriterCountsSink`). The
invariant adds to those of the run `Streams` (sequences of tokens), `Balance`
(supplied and remaining add up to the declared length, and nothing remains at the
probe: what makes Ok honest) and `FailedRests` (a writer that failed is inside no
call: what makes the abstract state a function of this one). `PartTaken` is the
short write, `BytesJoin` the body that comes in pieces, `BodyGrows` and `Written`
carry the stream through a write. In the refinement the probe that finds nothing
is `Accept`, a failure is `Abort` or no news, the last step of `finish` is
`Publish`, and the rest is unseen (`UnseenBySink`).

It then reads the sink as a tape, under `RoundTripAssumption`: names tell entries
apart, and the sizes are within the limits of the reader (a reader that allows
less refuses the archive, rightly). `PublishedReads` and `UnfinishedNeverReads` are
the two properties of `RoundTrip`. `RecordMet` walks one record: its long name, its
header, its body and padding, to the offset behind it. From there on it is an
induction over appends. Of what has been accepted, `Whole` says that the walk leads
to whatever follows and meets exactly the headers of the entries (`Leads`), and that
no beginning of it has an end block on the walk (`NoEnd`): zeros in a body are
stepped over, because the header before them says how far. `Torn` says that what
is out, while the writer lives, is a beginning of what was accepted and of the
record under way, and `Delivered` that finish leaves nothing behind.

### The reader and validate

`ReaderProofs` proves the four properties of the run `Reader` and its types for
all streams and limits (`ReaderTypeCorrect`, `ReaderEarnsEnd`, `ReaderHasParser`,
`ReaderBoundsBodies`, `ReaderMishapIsFinal`). The invariant adds that `body_failed`
is set exactly when something went wrong (`FlagIsMemory`: all the poisoning of
`next_entry`, of bodies and of dropped futures comes to this), that nobody is
inside a call when `done` is set (`DoneRests`), what each call could rely on when
it began (`CallsAreGood`), and that members were opened in order as far as the
reader has come (`MembersAreOpened`).

It proves then `ValidateReportsTruly` and `ValidateBlamesTruly`. Every step
of validate is one of Reader (`ValidateRefinesReader`), so that `IInv` of
the reader is there for nothing; `CountIsExact` and `BodyIsWhole` add that a body
that ended without an error was read to its last byte within the limit.

### Paths

`EntryPathProofs` proves `PathRefusalIsTrue` and `AcceptedPathStaysInside` for all
paths and limits. What `Path::components` hides can do no harm, since a leading
slash and every way up are components (`RootIsSeen`, `WayUpIsSeen`), and what it
shows is a piece of the path (`ComponentIs`). The invariant says of the components
behind the one looked at that they passed; once all have, the depth of a walk
has nothing to subtract (`NoWayUp`).

### The release

`ReleaseProofs` proves `ReleaseTagsAreOnMain`, `ReleaseVersionsCover` and
`ReleasePublishesTags` for any histories, kinds of commits and numbers of jobs.
Versions are ordered (`VersionTransitive`, `VersionTotal`), the next version is
greater and grows with the last (`NextIsGreater`, `NextIsMonotone`), and covering
composes along a history (`CoversJoin`): a version that covers everything since the
last tag covers everything since any tag before it. `ChoiceCovers` carries what
`Plan` has chosen over `CheckMain` to `Push`, which is sound although others push
to main meanwhile because only the run that has the group makes tags.
`TagsAreNumbered` (a tagged commit bears its version in Cargo.toml) makes tags with
the same history the same tag. `RunIsTagged` says that what a run publishes is
tagged; it uses that the branch for a retry is never taken, see Findings. For the
same reason `PublishedIsTagged` says nothing of retries or of an index that lags
behind a publish: no run asks for a version that an earlier one has published.

### What is only model-checked

All liveness (`Drains`, the ends of calls and readings, `EverythingIsReleased`) is
outside this prover's reach, as is `ENABLED`; so are the library's induction
theorems, which take operators. No safety property is left to the runs alone.

## Findings

`ReaderPaxDirectory`: docs/api.md:39-40 says "Directory and link entries with
nonzero body lengths are rejected". `open_entry` looks at the size field of the
header (open.rs:45-48), but a pax record may give the member another size
(guard.rs:73-77 applies it to every member type, and the parser streams a body
of that size). A directory with size field 0 and a pax size of 1 is lent with a
body of one byte. This rests on `header().size()` of tokio_tar being the raw
field, as open.rs:23 ("header-claimed body length, advisory only") says.

`ReleaseRetry`: docs/releasing.md:31-32 says "If a release stops after it pushes the
version tag, dispatch `release.yml` again from `main` to complete it." release.sh
takes the branch that completes it only if `git rev-parse HEAD` equals `git
rev-parse` of the tag (release.sh:92). The tag is made with `git tag -a`, so that
the latter is the name of the tag object, never that of a commit: the run ends
without publishing. In the model `AtTag` is therefore never true; the run stops a
job between push and publish, dispatches a run for the same main, and finds the
tag unpublished when it ends. `EverythingIsReleased` of the run `Release` holds
because it is about jobs that are not lost.

Noted without a run: `max_entry_bytes` bounds what a body gives its reader, not
what is skipped when the body is dropped unread; a body the stream cuts short
looks complete to `read_to_end` until the next call of `next_entry`; limits.rs:26
speaks of the bytes of entry bodies, while `Cap` counts every decoded byte,
headers and padding included.

## Assumptions about external code

* The parser reads an item (header, extension payload, skipped rest) with reads
  that end where the item does, treats end of file between headers as the end of
  the archive and inside anything else as an error, uses a pax size for the next
  member only and drops it when a record has none, and ends at the first zero
  block. It may refuse any header for reasons of its own.
* `Archive::into_inner` fails while anyone else holds the archive.
* `Builder` writes header, body, padding in this order and does not go on before
  its writes are taken; `ZstdEncoder` may hold back any part until shutdown.
* A guard that failed is not polled again: `next_entry` poisons the reader.
* A usize is a u64, so that the length of a payload in memory fits a u64.
* No source decodes to 2^64 bytes, so that the counters of open.rs do not wrap;
  how many bytes a decoder buffers or reads ahead is left open.
* `Builder` writes a name or link that does not fit its header as an extension
  record of its own before the header. What its `Drop` adds is not modelled.
* `Path::components` and path resolution are those of Linux.
* crates.io refuses a version it has, its index may lag or be out of reach;
  GitHub keeps of the waiting runs of a concurrency group the latest; `git push
  --atomic` moves both references or none; cargo-semver-checks and the message of
  a commit give it a kind.

## Not modelled, and the plan

What `Drop` of the external `Builder` does with an unfinished archive is not
modelled: `UnfinishedIsIncomplete` is about a writer that still lives, and
docs/api.md:15-16 tells callers not to publish the sink of a dropped one.
Limits, settings and the crate root hold no behaviour; the errors are the answers
of the modules that return them; pull request gates, benches and the fuzz target
hold no state. The zstd codec and the tar crate are external.

The operations of the crate that change state are all modelled, and every safety
property of a run is proved. What remains is to connect two of the proofs:
`ParsePaxSize` of `Tape` is given for the bytes of a whole payload, and
`PaxSize` says what those bytes mean; a tape that holds the bytes themselves would
make the one follow from the other.
