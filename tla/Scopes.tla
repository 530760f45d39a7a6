------------------------------- MODULE Scopes -------------------------------
(***************************************************************************)
(* Write scopes and the locks on them (orchestrator.py, pool.py): which    *)
(* files a scope stands for, when two scopes are said to overlap, and what *)
(* the locks that were granted by that answer keep apart.  Orchestrator    *)
(* has the locks' life in the project and takes a scope for the set of its *)
(* files; here it is a text, in the form normalize_repo_path leaves it in. *)
(***************************************************************************)
EXTENDS Integers, Sequences
Seqs == INSTANCE SequencesExt

CONSTANTS Writers,     \* agents that ask for a scope
          Letters,     \* characters of names
          MaxLength    \* bound on the length of a text

Separator == "/"
Wildcard == "*"        \* "?" and "[" are like it but for how much they match

ASSUME ScopesAssumption == {Separator, Wildcard} \cap Letters = {} /\ MaxLength \in Nat \ {0}

VARIABLES fileLocks    \* state.file_locks, of the agents that have started

-----------------------------------------------------------------------------
(* Texts. *)

\* Names between separators.
TextsOver(chars) ==
    {text \in UNION {[1..n -> chars \cup {Separator}] : n \in 1..MaxLength} :
        /\ text[1] # Separator /\ text[Len(text)] # Separator
        /\ \A i \in 2..Len(text) : Separator \in {text[i - 1], text[i]} => text[i - 1] # text[i]}

Paths == TextsOver(Letters)
Patterns == TextsOver(Letters \cup {Wildcard})

Below(path, directory) == path = directory \/ Seqs!IsPrefix(Append(directory, Separator), path)

Recursively == <<Separator, Wildcard, Wildcard>>

IsRecursive(scope) == Len(scope) > 3 /\ Seqs!IsSuffix(Recursively, scope)

\* fnmatch.fnmatchcase: every wildcard stands for a stretch of the path, which may be empty
\* and have separators in it, and what is between two of them for itself.  end is where the
\* stretches end.
FnMatch(path, pattern) ==
    LET wild == {i \in 1..Len(pattern) : pattern[i] = Wildcard}
        last(i) == CHOOSE w \in wild \cup {0} : w <= i /\ \A v \in wild : v <= i => v <= w
    IN \E end \in [wild \cup {0} -> 0..Len(path)] :
          LET at(i) == end[last(i)] + (i - last(i))
          IN /\ end[0] = 0 /\ at(Len(pattern)) = Len(path)
             /\ \A i \in 1..Len(pattern) :
                   IF i \in wild THEN at(i - 1) <= at(i)
                   ELSE at(i) <= Len(path) /\ path[at(i)] = pattern[i]

\* path_matches_scope: what ends in "/**" stands for a directory, taken by its letters.
PathMatchesScope(path, scope) ==
    IF IsRecursive(scope)
    THEN Below(path, SubSeq(scope, 1, Len(scope) - 3))
    ELSE FnMatch(path, scope)

FilesOf == [scope \in Patterns |-> {path \in Paths : PathMatchesScope(path, scope)}]

-----------------------------------------------------------------------------
(* Overlaps. *)

IsWild(scope) == \E i \in 1..Len(scope) : scope[i] = Wildcard

\* The text before the first wildcard, without a separator at its end.
ScopeAnchor(scope) ==
    LET first == CHOOSE i \in 1..Len(scope) :
                     scope[i] = Wildcard /\ \A k \in 1..(i - 1) : scope[k] # Wildcard
        last == IF first > 1 /\ scope[first - 1] = Separator THEN first - 2 ELSE first - 1
    IN IF IsWild(scope) THEN SubSeq(scope, 1, last) ELSE scope

\* Mutation: only the new scope's directory is looked for in the lock's.
ScopesOverlapOneWay(a, b) ==
    \/ ScopeAnchor(a) = <<>> \/ ScopeAnchor(b) = <<>> \/ Below(ScopeAnchor(a), ScopeAnchor(b))

\* The anchor of a recursive scope is taken for its directory.
ScopesOverlap(a, b) ==
    LET x == ScopeAnchor(a)
        y == ScopeAnchor(b)
    IN IF ~IsWild(a) /\ ~IsWild(b) THEN x = y
       ELSE IF IsRecursive(a) /\ ~IsWild(b) THEN Below(y, x)
       ELSE IF IsRecursive(b) /\ ~IsWild(a) THEN Below(x, y)
       ELSE \/ ~(IsRecursive(a) /\ IsRecursive(b)) /\ (x = <<>> \/ y = <<>>)
            \/ Below(x, y) \/ Below(y, x)

-----------------------------------------------------------------------------
(* Locks. *)

NoLocks == {}

\* start_agent and approve_spawn: _assert_scopes_available, _acquire_locks.
AcquireLock(w, scope) ==
    /\ \A lock \in fileLocks : lock.writer # w /\ ~ScopesOverlap(scope, lock.scope)
    /\ fileLocks' = fileLocks \cup {[writer |-> w, scope |-> scope]}

\* integrate_task, finalize_worker_integration, cancel_task: the task's locks go.
ReleaseLocks(w) ==
    /\ \E lock \in fileLocks : lock.writer = w
    /\ fileLocks' = {lock \in fileLocks : lock.writer # w}

ScopesInit == fileLocks = NoLocks

ScopesNext ==
    \E w \in Writers : ReleaseLocks(w) \/ \E scope \in Patterns : AcquireLock(w, scope)

ScopesSpec == ScopesInit /\ [][ScopesNext]_fileLocks

-----------------------------------------------------------------------------
(* Properties. *)

\* A wildcard in it begins a name, or is the second one of a final "/**".
WholeNames(scope) ==
    \A i \in 2..Len(scope) :
        scope[i] = Wildcard =>
            \/ scope[i - 1] = Separator
            \/ IsRecursive(scope) /\ i = Len(scope)

\* A file's path, or a directory's with "/**".
IsPlain(scope) ==
    ~IsWild(IF IsRecursive(scope) THEN SubSeq(scope, 1, Len(scope) - 3) ELSE scope)

Apart(a, b) == FilesOf[a] \cap FilesOf[b] = {}

\* Two agents never hold locks on scopes with a file in common, if the wildcards of both
\* begin a name (scopes_overlap on the anchors of the scopes).
WholeNamesAreKeptApart ==
    \A k, l \in fileLocks :
        k.writer # l.writer /\ WholeNames(k.scope) /\ WholeNames(l.scope)
            => Apart(k.scope, l.scope)

\* No agent is refused the path of a file or of a directory for a lock on another such
\* path with which it shares no file, and none is granted one with which it does.
PlainScopesAreExact ==
    \A l \in fileLocks : fileLocks = {l} /\ IsPlain(l.scope) =>
        \A scope \in Patterns :
            IsPlain(scope) => (ScopesOverlap(scope, l.scope) <=> ~Apart(scope, l.scope))

\* orchestrator.py:94, "Conservative overlap check for repository write scopes": scopes
\* that share a file are never locked by two agents.
OverlapIsConservative ==
    \A k, l \in fileLocks : k.writer # l.writer => Apart(k.scope, l.scope)
=============================================================================
