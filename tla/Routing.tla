------------------------------ MODULE Routing ------------------------------
(***************************************************************************)
(* From a changed path to the tasks it runs: the matchers of rules.rs, the *)
(* planning of watches.rs and the cache of gitignore.rs.                   *)
(*                                                                         *)
(* A path is the sequence of its components from the filesystem root.  A   *)
(* pattern is [abs, segs]; the component "*" stands for any component with *)
(* a wildcard, and "**" for itself.  glob matches without requiring        *)
(* literal separators, so "*" spans directories too.                       *)
(***************************************************************************)
EXTENDS Plans

Workspace == <<"w">>

(***************************************************************************)
(* rules.rs                                                                *)
(***************************************************************************)
Drop(s, k) == SubSeq(s, k + 1, Len(s))

\* glob::Pattern::matches
RECURSIVE Matches(_, _)
Matches(segs, path) ==
  IF segs = <<>> THEN path = <<>>
  ELSE LET least == IF Head(segs) = "**" /\ Tail(segs) # <<>> THEN 0 ELSE 1
       IN  IF Head(segs) \in {"*", "**"}
           THEN \E k \in least..Len(path) : Matches(Tail(segs), Drop(path, k))
           ELSE path # <<>> /\ Head(segs) = Head(path) /\ Matches(Tail(segs), Tail(path))

\* normalize_paths: inside the workspace a path also has a relative form.
Inside(path) == IsPrefix(Workspace, path)
Relative(path) == Drop(path, Len(Workspace))

\* watch_absolute and ignore_absolute see the absolute path, watch_relative
\* and ignore_relative the relative one.
Hits(pattern, path) ==
  IF pattern.abs THEN Matches(pattern.segs, path)
  ELSE Inside(path) /\ Matches(pattern.segs, Relative(path))

Hitting(patterns, path) == {i \in DOMAIN patterns : Hits(patterns[i], path)}
Watched(rule, path) == Hitting(rule.change, path) # {}
Ignored(rule, path) == Hitting(rule.ignore, path) # {}

(***************************************************************************)
(* gitignore.rs: the matcher is built from all files, its cache key is the *)
(* mtime of the root file.                                                 *)
(***************************************************************************)
Build(git) == [ignored |-> git.ignored, key |-> git.rootMtime]
NeedsRebuild(matcher, git) == matcher.key # git.rootMtime
Refreshed(matcher, git) == IF NeedsRebuild(matcher, git) THEN Build(git) ELSE matcher
Gitignored(matcher, git, path) == Inside(path) /\ path \in Refreshed(matcher, git).ignored

(***************************************************************************)
(* watches.rs                                                              *)
(***************************************************************************)
\* watch_plan's filter; `excluded` says whether gitignore excludes the path.
Runs(rule, excluded, path) == ~Ignored(rule, path) /\ ~excluded /\ Watched(rule, path)

WatchPlan(rules, excluded, path) ==
  Filter(rules, {i \in DOMAIN rules : Runs(rules[i], excluded, path)})

\* watch_plan_batch: the plan of the first path, in the order of their names,
\* that has one; `order` lists the paths in that order.
Batch(rules, excluded, changed, order) ==
  LET planned == {p \in DOMAIN order : order[p] \in changed /\ WatchPlan(rules, excluded, order[p]) # <<>>}
  IN  IF planned = {} THEN <<>> ELSE <<order[Min(planned)], WatchPlan(rules, excluded, order[Min(planned)])>>

\* Mutant: gitignore is left out of the explanation.
ExplainWithoutGit(rules, excluded, path) ==
  LET hit == {i \in DOMAIN rules : Watched(rules[i], path)}
  IN  [matched |-> {i \in hit : ~Ignored(rules[i], path)},
       ignored |-> {i \in hit : Ignored(rules[i], path)},
       stages |-> WatchPlan(rules, excluded, path)]

\* explain: rules with a matching change pattern, split by what excludes
\* them, and the stages of the same plan.
Explain(rules, excluded, path) ==
  LET hit == {i \in DOMAIN rules : Watched(rules[i], path)}
      out == {i \in hit : Ignored(rules[i], path) \/ excluded}
  IN  [matched |-> hit \ out, ignored |-> out, stages |-> WatchPlan(rules, excluded, path)]

\* origin_for: is the first responsible pattern one inherited from `on`?
\* Absolute patterns are listed before relative ones.
Origin(rule, excluded, path) ==
  LET list == IF Ignored(rule, path) \/ excluded THEN rule.ignore ELSE rule.change
      hits == Hitting(list, path)
      absolute == {i \in hits : list[i].abs}
      first == list[Min(IF absolute = {} THEN hits ELSE absolute)]
  IN  IF hits # {} /\ first \in rule.inherited THEN "group" ELSE "task"

\* Targets: names are sequences of characters.
NameContains(name, target) == \E i \in 0..(Len(name) - Len(target)) :
                            SubSeq(name, i + 1, i + Len(target)) = target
Containing(rules, target) == {i \in DOMAIN rules : NameContains(rules[i].name, target)}

\* target_plan and select_target: every rule containing the target.
TargetPlan(rules, target) == Filter(rules, Containing(rules, target))

\* run_target_plan
RunTarget(rules, target) ==
  LET exact == {i \in DOMAIN rules : rules[i].name = target}
      some == Containing(rules, target)
      tag == target # <<>> /\ target[1] = "@"
  IN  CASE Cardinality(exact) > 1 -> [error |-> "ambiguous", keep |-> {}]
        [] Cardinality(exact) = 1 -> [error |-> "", keep |-> exact]
        [] exact = {} /\ some = {} -> [error |-> "missing", keep |-> {}]
        [] exact = {} /\ Cardinality(some) > 1 /\ ~tag -> [error |-> "ambiguous", keep |-> {}]
        [] OTHER -> [error |-> "", keep |-> some]

(***************************************************************************)
(* Subscription roots.  fs gives the existing directories and files.       *)
(***************************************************************************)
Absolute(pattern) == IF pattern.abs THEN pattern.segs ELSE Workspace \o pattern.segs

LiteralPrefix(path) ==
  LET wild == {i \in DOMAIN path : path[i] \in {"*", "**"}}
  IN  IF wild = {} THEN path ELSE SubSeq(path, 1, Min(wild) - 1)

\* The path if it is a directory, the parent of a file, else the nearest
\* existing ancestor, but never the filesystem root.
NearestExisting(path, fs) ==
  LET up == {k \in 1..(Len(path) - 1) : SubSeq(path, 1, k) \in fs.dirs \cup fs.files}
  IN  IF path \in fs.dirs THEN path
      ELSE IF path \in fs.files THEN SubSeq(path, 1, Len(path) - 1)
      ELSE IF up = {} THEN path ELSE SubSeq(path, 1, Max(up))

RootFor(pattern, fs) == NearestExisting(LiteralPrefix(Absolute(pattern)), fs)

\* Mutant: the narrower of two nested candidates is kept.
MinimalNarrow(candidates) ==
  {c \in candidates : ~\E other \in candidates : other # c /\ IsPrefix(c, other)}

\* Containment minimisation: drop what lies inside another candidate.
Minimal(candidates) ==
  {c \in candidates : ~\E other \in candidates : other # c /\ IsPrefix(other, c)}

Candidates(rules) == UNION {ToSet(rules[i].change) : i \in DOMAIN rules}

SubscriptionRoots(rules, fs) == Minimal({RootFor(p, fs) : p \in Candidates(rules)})

\* baseline_paths: the existing literal prefixes themselves.
BaselinePaths(rules, fs) ==
  Minimal({LiteralPrefix(Absolute(p)) : p \in Candidates(rules)} \cap (fs.dirs \cup fs.files))

CoveringRoots(rules, fs, path) == {r \in SubscriptionRoots(rules, fs) : IsPrefix(r, path)}
=============================================================================
