----------------------------- MODULE EntryPath -----------------------------
(***************************************************************************)
(* Which paths of an archive are let in: validate_path of open.rs, which   *)
(* also bounds the length, over SafePath::new of entry.rs, which looks at  *)
(* the components std::path sees, one after another.                       *)
(*                                                                         *)
(* std::path does not show every piece of a path as a component, and a     *)
(* file system does not resolve a path as std::path takes it apart: that   *)
(* an accepted path stays below the directory it is joined to is stated    *)
(* over its characters.                                                    *)
(***************************************************************************)
EXTENDS Integers, Sequences, SequencesExt

CONSTANTS
  Paths,         \* the raw paths considered
  MaxPathLen     \* ReadLimits::max_path_len

Char == {"/", ".", "nul", "letter"}

ASSUME EntryPathAssumption ==
  /\ MaxPathLen \in Nat
  /\ \A p \in Paths : p \in Seq(Char)

VARIABLES
  path,       \* the raw path
  rest,       \* where the components not looked at yet end
  verdict     \* "checking", "components", "accepted" or an error

vars == <<path, rest, verdict>>

-----------------------------------------------------------------------------
(* The pieces of a path end at its slashes and behind its last character;  *)
(* a piece is known by where it ends.                                      *)
Ends(p) == {i \in 1 .. Len(p) + 1 : i = Len(p) + 1 \/ p[i] = "/"}
Start(p, e) == 1 + Max({0} \cup {d \in Ends(p) : d < e})
Piece(p, e) == SubSeq(p, Start(p, e), e - 1)

Dot == <<".">>
DotDot == <<".", ".">>
Absolute(p) == p # <<>> /\ p[1] = "/"

(* Path::components: a leading slash is a root, and a leading dot of a     *)
(* relative path is kept; other dots and repeated slashes are not seen.    *)
Components(p) ==
  {e \in Ends(p) :
     CASE Piece(p, e) = <<>> -> e = 1 /\ Absolute(p)
       [] Piece(p, e) = Dot  -> Start(p, e) = 1
       [] OTHER -> TRUE}

Component(p, e) ==
  CASE Piece(p, e) = <<>>   -> "RootDir"
    [] Piece(p, e) = Dot    -> "CurDir"
    [] Piece(p, e) = DotDot -> "ParentDir"
    [] OTHER -> "Normal"

-----------------------------------------------------------------------------
Init ==
  /\ path \in Paths
  /\ rest = Components(path)
  /\ verdict = "checking"

(* Mutant: only a path that begins by ascending is refused.                *)
LeadingOnly(component) ==
  CASE component = "RootDir" -> "AbsolutePath"
    [] component = "ParentDir" /\ rest = Components(path) -> "ParentEscape"
    [] OTHER -> "Ok"

(* Mutant: a dot is taken for a way out.                                   *)
AnyDot(component) ==
  CASE component = "RootDir" -> "AbsolutePath"
    [] component \in {"ParentDir", "CurDir"} -> "ParentEscape"
    [] OTHER -> "Ok"

RejectUnsafe(component) ==
  CASE component = "RootDir" -> "AbsolutePath"
    [] component = "ParentDir" -> "ParentEscape"
    [] component \in {"CurDir", "Normal"} -> "Ok"

Reject(why) == verdict' = why /\ UNCHANGED <<path, rest>>

(* The raw path is looked at as a whole, in this order.                    *)
WholePathError ==
  CASE Len(path) > MaxPathLen -> "max_path_len"
    [] path = <<>> -> "EmptyPath"
    [] OTHER -> IF Contains(path, "nul") THEN "NulPath" ELSE "Ok"

CheckWhole ==
  /\ verdict = "checking"
  /\ IF WholePathError # "Ok" THEN Reject(WholePathError)
     ELSE verdict' = "components" /\ UNCHANGED <<path, rest>>

(* Components are looked at in their order.                                *)
CheckComponent ==
  /\ verdict = "components"
  /\ rest # {}
  /\ LET e == Min(rest)
         why == RejectUnsafe(Component(path, e))
     IN  IF why # "Ok" THEN Reject(why)
         ELSE rest' = rest \ {e} /\ UNCHANGED <<path, verdict>>

Accept ==
  /\ verdict = "components"
  /\ rest = {}
  /\ verdict' = "accepted"
  /\ UNCHANGED <<path, rest>>

Next == CheckWhole \/ CheckComponent \/ Accept
Spec == Init /\ [][Next]_vars

-----------------------------------------------------------------------------
(* How deep below the directory it started from a walk along the pieces of *)
(* a path is behind the one that ends at k.                                *)
Depth(p, k) ==
  LET walked == {e \in Ends(p) : e <= k}
  IN  Cardinality({e \in walked : Piece(p, e) \notin {<<>>, Dot, DotDot}})
        - Cardinality({e \in walked : Piece(p, e) = DotDot})

(* An accepted path never leaves the directory it is joined to, not even   *)
(* on the way, and is nothing a C string would cut (entry.rs:89-110).      *)
AcceptedStaysInside ==
  verdict = "accepted" =>
    /\ path # <<>> /\ ~Absolute(path) /\ ~Contains(path, "nul")
    /\ Len(path) <= MaxPathLen
    /\ \A k \in Ends(path) : Depth(path, k) >= 0

(* A path is refused for a reason that it has, also when pieces of it that *)
(* look like one are hidden between slashes (entry.rs:104-110).            *)
RefusalIsTrue ==
  CASE verdict = "AbsolutePath" -> Absolute(path)
    [] verdict = "ParentEscape" -> \E e \in Ends(path) : Piece(path, e) = DotDot
    [] verdict = "NulPath" -> Contains(path, "nul")
    [] verdict = "EmptyPath" -> path = <<>>
    [] verdict = "max_path_len" -> Len(path) > MaxPathLen
    [] OTHER -> TRUE
=============================================================================
