------------------------------- MODULE Release -------------------------------
(***************************************************************************)
(* scripts/release.sh inside the release workflow: it chooses a version    *)
(* from the commits since the last tag, pushes the release commit and its  *)
(* tag to main, publishes the crate and announces it on GitHub, while      *)
(* others push to main.  A job may stop between any two steps.             *)
(*                                                                         *)
(* A commit is the history that ends with it, so that a tag, a published   *)
(* crate and a checkout say exactly what they were made from.              *)
(***************************************************************************)
EXTENDS Integers, Sequences, SequencesExt, FiniteSetsExt

CONSTANTS
  FirstVersion,    \* the version in Cargo.toml of the first commit
  SetVersions,     \* versions a commit may set in Cargo.toml
  MaxCommits,      \* bound: commits pushed to main by others
  MaxStops,        \* bound: jobs that stop before their end
  MaxDispatches    \* bound: runs dispatched by hand

Version == Nat \X Nat \X Nat

ASSUME ReleaseAssumption ==
  /\ FirstVersion \in Version /\ SetVersions \subseteq Version
  /\ {MaxCommits, MaxStops, MaxDispatches} \subseteq Nat

(* What the message of a commit, or cargo-semver-checks, says of it.       *)
Kinds == <<"none", "patch", "minor", "major">>
Commit == [kind : ToSet(Kinds), version : Version, chore : BOOLEAN]

VARIABLES
  main,         \* refs/heads/main of the repository: a sequence of commits
  tags,         \* version tags of the repository: [version, history]
  index,        \* crates.io: [version, history] of every published crate
  releases,     \* versions with a GitHub release
  pending,      \* the run that waits in the concurrency group, if any
  run,          \* the run that has the group
  refused,      \* some run found the version set in Cargo.toml too small
  stops, dispatches

vars == <<main, tags, index, releases, pending, run, refused, stops, dispatches>>
remote == <<main, tags, index, releases>>
bounds == <<stops, dispatches>>

Event(h, hand) == [history |-> h, dispatch |-> hand]
At(v, h) == [version |-> v, history |-> h]

(* A repository before its first release, or with one that is complete.    *)
Init ==
  /\ main = <<[kind |-> "none", version |-> FirstVersion, chore |-> FALSE]>>
  /\ tags \in {{}, {At(FirstVersion, main)}}
  /\ index = tags
  /\ releases = {t.version : t \in tags}
  /\ pending = {Event(main, FALSE)}
  /\ run = [phase |-> "idle", history |-> <<>>, next |-> FirstVersion,
            dispatch |-> FALSE, retry |-> FALSE, fault |-> FALSE]
  /\ refused = FALSE /\ stops = 0 /\ dispatches = 0

-----------------------------------------------------------------------------
(* Versions.                                                               *)
VersionGE(a, b) ==
  \/ a[1] > b[1]
  \/ a[1] = b[1] /\ a[2] > b[2]
  \/ a[1] = b[1] /\ a[2] = b[2] /\ a[3] >= b[3]

NextVersion(v, kind) ==
  CASE kind = "major" /\ v[1] > 0 -> <<v[1] + 1, 0, 0>>
    [] kind = "minor" \/ (kind = "major" /\ v[1] = 0) -> <<v[1], v[2] + 1, 0>>
    [] kind = "patch" -> <<v[1], v[2], v[3] + 1>>

Strongest(commits) ==
  Kinds[Max({1} \cup {i \in DOMAIN Kinds : \E c \in ToSet(commits) : c.kind = Kinds[i]})]

(* git describe: the nearest tag on the way back from the end of h.        *)
Tagged(h) == {t \in tags : IsPrefix(t.history, h)}
LastTag(h) == CHOOSE t \in Tagged(h) : \A s \in Tagged(h) : IsPrefix(s.history, t.history)
Since(t, h) == SubSeq(h, Len(t.history) + 1, Len(h))
ReleaseKind(h) == Strongest(Since(LastTag(h), h))
Current(h) == Last(h).version

(* A version set in Cargo.toml must be newer than the tag, and by enough.  *)
NewerOnly(h) == VersionGE(Current(h), LastTag(h).version)     \* mutant
LargeEnough(h) ==
  /\ VersionGE(Current(h), LastTag(h).version)
  /\ ReleaseKind(h) # "none" =>
       VersionGE(Current(h), NextVersion(LastTag(h).version, ReleaseKind(h)))

(* git rev-parse HEAD against git rev-parse of the tag.  git tag -a makes  *)
(* a tag object, whose name is not that of the commit it points to.        *)
RevParseHead(h) == <<"commit", h>>
RevParseTag(t) == <<"tag", t>>
AtTagOrLater(h) == TRUE       \* mutant: later commits are not looked for
AtTag(h) == RevParseHead(h) = RevParseTag(LastTag(h))

-----------------------------------------------------------------------------
(* The concurrency group: one run at a time, and of those that wait the    *)
(* latest only.                                                            *)
KeepWaiting(e) == IF pending = {} THEN {e} ELSE pending   \* mutant: the first stays
Enqueue(e) == {e}

(* The job is skipped for a push that ends with a release commit.          *)
StartRun ==
  /\ run.phase = "idle"
  /\ \E e \in pending :
       run' = [run EXCEPT !.phase = IF e.dispatch \/ ~Last(e.history).chore
                                    THEN "plan" ELSE "idle",
                          !.history = e.history, !.dispatch = e.dispatch,
                          !.retry = FALSE, !.fault = FALSE]
  /\ pending' = {}
  /\ UNCHANGED <<remote, refused, bounds>>

GoOn(phase) == run' = [run EXCEPT !.phase = phase]
EndRun == GoOn("idle")

Choose(v, retry) == run' = [run EXCEPT !.phase = "check", !.next = v, !.retry = retry]

Plan ==
  LET h == run.history
  IN  /\ run.phase = "plan"
      /\ \/ /\ Tagged(h) = {}
            /\ Choose(Current(h), FALSE)
            /\ UNCHANGED refused
         \/ /\ Tagged(h) # {} /\ Current(h) # LastTag(h).version
            /\ IF LargeEnough(h) THEN Choose(Current(h), FALSE) ELSE EndRun
            /\ refused' = (refused \/ ~LargeEnough(h))
         \/ /\ Tagged(h) # {} /\ Current(h) = LastTag(h).version
            /\ ReleaseKind(h) # "none"
            /\ Choose(NextVersion(LastTag(h).version, ReleaseKind(h)), FALSE)
            /\ UNCHANGED refused
         \/ /\ Tagged(h) # {} /\ Current(h) = LastTag(h).version
            /\ ReleaseKind(h) = "none"
            /\ IF AtTag(h) THEN Choose(Current(h), TRUE) ELSE EndRun
            /\ UNCHANGED refused
      /\ UNCHANGED <<remote, pending, bounds>>

(* git ls-remote.                                                          *)
CheckMain ==
  /\ run.phase = "check"
  /\ IF main # run.history THEN EndRun
     ELSE GoOn(IF run.retry THEN "publish" ELSE "push")
  /\ UNCHANGED <<remote, pending, refused, bounds>>

ReleaseCommit == [kind |-> "none", version |-> run.next, chore |-> TRUE]

(* Mutant: the push is not atomic, main may refuse and the tag stay.       *)
PushRefs(h) ==
  /\ tags' = tags \cup {At(run.next, h)}
  /\ main' = IF main = run.history THEN h ELSE main
  /\ pending' = Enqueue(Event(h, FALSE))
  /\ run' = [run EXCEPT !.phase = "publish", !.history = h]

(* git push --atomic: both references, or none when main has moved.        *)
PushAtomic(h) ==
  \/ /\ main = run.history
     /\ main' = h
     /\ tags' = tags \cup {At(run.next, h)}
     /\ pending' = Enqueue(Event(h, FALSE))
     /\ run' = [run EXCEPT !.phase = "publish", !.history = h]
  \/ /\ main # run.history
     /\ EndRun
     /\ UNCHANGED <<main, tags, pending>>

Push ==
  /\ run.phase = "push"
  /\ PushAtomic(Append(run.history, ReleaseCommit))
  /\ UNCHANGED <<index, releases, refused, bounds>>

(* What published may answer: the index of crates.io lags, or cannot be    *)
(* reached, and then the answer is no.                                     *)
InIndex(v) == \E p \in index : p.version = v
Published(v) == {FALSE, InIndex(v)}

(* cargo publish refuses a version that is there.                          *)
Publish ==
  /\ run.phase = "publish"
  /\ \E known \in Published(run.next) :
       IF known THEN GoOn("announce") /\ UNCHANGED index
       ELSE IF InIndex(run.next) THEN EndRun /\ UNCHANGED index
       ELSE /\ index' = index \cup {At(run.next, run.history)}
            /\ GoOn("announce")
  /\ UNCHANGED <<main, tags, releases, pending, refused, bounds>>

Announce ==
  /\ run.phase = "announce"
  /\ releases' = releases \cup {run.next}
  /\ EndRun
  /\ UNCHANGED <<main, tags, index, pending, refused, bounds>>

Step == StartRun \/ Plan \/ CheckMain \/ Push \/ Publish \/ Announce

(* The runner is lost, the job times out, or a command fails.              *)
Stop ==
  /\ run.phase # "idle"
  /\ stops < MaxStops
  /\ stops' = stops + 1
  /\ run' = [run EXCEPT !.phase = "idle", !.fault = TRUE]
  /\ UNCHANGED <<remote, pending, refused, dispatches>>

(* Somebody else's commit reaches main.                                    *)
PushCommit ==
  /\ Cardinality({i \in DOMAIN main : ~main[i].chore}) <= MaxCommits
  /\ \E kind \in ToSet(Kinds), version \in SetVersions \cup {Current(main)} :
       main' = Append(main, [kind |-> kind, version |-> version, chore |-> FALSE])
  /\ pending' = Enqueue(Event(main', FALSE))
  /\ UNCHANGED <<tags, index, releases, run, refused, bounds>>

Dispatch ==
  /\ dispatches < MaxDispatches
  /\ dispatches' = dispatches + 1
  /\ pending' = Enqueue(Event(main, TRUE))
  /\ UNCHANGED <<remote, run, refused, stops>>

Next == Step \/ Stop \/ PushCommit \/ Dispatch

Spec == Init /\ [][Next]_vars

(* A runner that is not lost goes on, and a free group takes who waits.    *)
FairSpec == Spec /\ WF_vars(Step)

-----------------------------------------------------------------------------
(* Every tag is on main, also when main moved after git ls-remote had been *)
(* asked (release.sh:123, 153).                                            *)
TagsAreOnMain == \A t \in tags : IsPrefix(t.history, main)

(* Of two tags the later has the greater version, by at least what the     *)
(* commits between them call for, whatever was set by hand and however     *)
(* many runs stopped in between (release.sh:26-60, 75-88).                 *)
VersionsCover ==
  \A s, t \in tags :
    Len(s.history) < Len(t.history) =>
      LET kind == Strongest(Since(s, t.history))
      IN  IF kind = "none" THEN ~VersionGE(s.version, t.version)
          ELSE VersionGE(t.version, NextVersion(s.version, kind))

(* What is published under a version is the commit that bears its tag and  *)
(* its number, also when a job was lost behind its push and later commits  *)
(* are on main (release.sh:92, 157), and GitHub announces nothing that     *)
(* crates.io does not have (release.sh:156-163).  As AtTag is never true,  *)
(* no version is published a second time: retries and an index that lags   *)
(* behind a publish are not put to the test here.                          *)
PublishedIsTagged ==
  /\ index \subseteq tags
  /\ \A p \in index : Current(p.history) = p.version
  /\ \A v \in releases : InIndex(v)

(* If no job is lost and nobody sets a version that is too small, every    *)
(* change on main is in the end tagged, published and announced: a run     *)
(* that gives up because main moved, or never gets the group, is always    *)
(* followed by one for the newer main (release.sh:123; release.yml:8-10).  *)
Settled ==
  /\ Tagged(main) # {} /\ ReleaseKind(main) = "none"
  /\ \A t \in tags : t \in index /\ t.version \in releases
EverythingIsReleased == <>[](stops > 0 \/ refused \/ Settled)

(* docs/releasing.md:30: "If a release stops after it pushes the version   *)
(* tag, dispatch release.yml again from main to complete it."              *)
DispatchCompletes ==
  /\ run.phase = "idle" /\ run.dispatch /\ ~run.fault
  /\ run.history = main
  /\ Tagged(main) # {} /\ LastTag(main).history = main
  => LastTag(main) \in index /\ LastTag(main).version \in releases
=============================================================================
