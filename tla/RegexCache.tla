----------------------------- MODULE RegexCache -----------------------------
(***************************************************************************)
(* The function re2_match (src/src/regex.rs): a cache of compiled regular  *)
(* expressions in a backend, least recently used out, behind a RefCell.    *)
(* A call that fails to compile its pattern unwinds out of the borrow; the *)
(* session goes on, and with it the cache.                                 *)
(***************************************************************************)
EXTENDS SqlValues, Integers, Sequences

CONSTANTS Patterns,
          Valid,        \* the patterns that compile
          CACHE_SIZE    \* 32 in the code

ASSUME RCAssumption == CACHE_SIZE \in Nat \ {0} /\ Valid \subseteq Patterns /\ None \notin Patterns

VARIABLES cache,     \* CompiledRegex entries [pattern, matcher], most recent first
          borrowed,  \* the RefCell is mutably borrowed
          request,   \* pattern of the call that runs, or None
          reply,     \* how the last call ended
          before     \* history: for a pattern, those whose last use came before its own

rcVars == <<cache, borrowed, request, reply, before>>

Positions(p) == {i \in DOMAIN cache : cache[i].pattern = p}

Without(s, i) == SubSeq(s, 1, i - 1) \o SubSeq(s, i + 1, Len(s))

Truncated(s, n) == IF Len(s) > n THEN SubSeq(s, 1, n) ELSE s

\* (mutant) a hit leaves the entry where it is.
LeaveInPlace(i) == cache

\* LRUCache: find moves the entry to the front, insert drops the last one.
Touch(i) == <<cache[i]>> \o Without(cache, i)

InsertEntry(p) == Truncated(<<[pattern |-> p, matcher |-> p]>> \o cache, CACHE_SIZE)

Used == DOMAIN before

Remember(p) == [q \in Used \cup {p} |-> IF q = p THEN Used \ {p} ELSE before[q] \ {p}]

RCInit == /\ cache = <<>> /\ borrowed = FALSE /\ request = None
          /\ reply = "none" /\ before = <<>>

CallMatch(p) ==
  /\ request = None
  /\ IF borrowed
     THEN reply' = "already borrowed" /\ UNCHANGED <<request, borrowed>>
     ELSE borrowed' = TRUE /\ request' = p /\ UNCHANGED reply
  /\ UNCHANGED <<cache, before>>

\* (mutant) an error leaves the cell borrowed.
EndIfAnswered(result) ==
  borrowed' = (result # "answered") /\ request' = None /\ reply' = result

\* The guard of the RefCell goes out of scope, also when error!() unwinds.
EndOfCall(result) == borrowed' = FALSE /\ request' = None /\ reply' = result

Hit == \E i \in Positions(request) :
         /\ cache' = Touch(i)
         /\ before' = Remember(request)
         /\ EndOfCall("answered")

Compile == /\ Positions(request) = {} /\ request \in Valid
           /\ cache' = InsertEntry(request)
           /\ before' = Remember(request)
           /\ EndOfCall("answered")

CompileError == /\ request # None
                /\ Positions(request) = {} /\ request \notin Valid
                /\ EndOfCall("unable to compile regular expression")
                /\ UNCHANGED <<cache, before>>

RCNext == \/ \E p \in Patterns : CallMatch(p)
          \/ Hit \/ Compile \/ CompileError

RCSpec == RCInit /\ [][RCNext]_rcVars

----------------------------------------------------------------------------
(* Properties *)

UsedSince(p) == Used \ before[p]

Cached(n) == {cache[i].pattern : i \in 1..n}

\* The cache holds the patterns used last, each once, in the order of use and
\* with its own matcher, never more than its size and fewer only if no more were
\* used; one that does not compile leaves it as it was.
KeepsMostRecent ==
  /\ Len(cache) <= CACHE_SIZE
  /\ Len(cache) < CACHE_SIZE => Used = Cached(Len(cache))
  /\ \A i \in DOMAIN cache :
       /\ cache[i].matcher = cache[i].pattern
       /\ Positions(cache[i].pattern) = {i}
       /\ UsedSince(cache[i].pattern) = Cached(i)

\* A pattern that fails to compile does not kill the session
\* (regex.rs:98, test_regex_too_large_does_not_kill_session).
SessionSurvives == reply # "already borrowed"

=============================================================================
