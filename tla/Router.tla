------------------------------- MODULE Router -------------------------------
(***************************************************************************)
(* The route table of justapi-core/src/router.rs: one matchit tree per     *)
(* method, a 405 answer when only another method matches, and a FIFO cache *)
(* in front of the lookup that remembers parameter-free hits and misses.   *)
(*                                                                         *)
(* A path is the sequence of its tokens, "/" being one of them, so that    *)
(* the code's starts_with is IsPrefix: </app/x> is                         *)
(* <<"/", "app", "/", "x">> and </apple> may be <<"/", "app", "le">>.      *)
(* A pattern may hold the tokens "{}" (one segment) and "{*}" (the rest).  *)
(***************************************************************************)
EXTENDS Naturals, Sequences, FiniteSets, SequencesExt

(* matchit's matching of one pattern (external). *)
RECURSIVE PatternMatches(_, _)
PatternMatches(pattern, path) ==
    CASE pattern = <<>> -> path = <<>>
      [] pattern # <<>> /\ Head(pattern) = "{*}" -> path # <<>>
      [] pattern # <<>> /\ Head(pattern) = "{}" ->
            \E n \in 1 .. Len(path) :
                /\ \A i \in 1 .. n : path[i] # "/"
                /\ PatternMatches(Tail(pattern), SubSeq(path, n + 1, Len(path)))
      [] OTHER -> /\ path # <<>>
                  /\ Head(path) = Head(pattern)
                  /\ PatternMatches(Tail(pattern), Tail(path))

HasParams(pattern) == \E i \in 1 .. Len(pattern) : pattern[i] \in {"{}", "{*}"}

Looseness(token) == CASE token = "{*}" -> 2 [] token = "{}" -> 1 [] OTHER -> 0

(* matchit prefers a literal over a parameter over a catch-all, left to    *)
(* right (external).                                                       *)
Tighter(p, q) ==
    \E i \in 1 .. Len(p) \cap 1 .. Len(q) :
        /\ SubSeq(p, 1, i - 1) = SubSeq(q, 1, i - 1)
        /\ Looseness(p[i]) < Looseness(q[i])

NewRouter(capacity) ==
    [routes |-> {}, fallback |-> "none", cache |-> <<>>, capacity |-> capacity]

Registered(r, method, pattern) ==
    \E x \in r.routes : x.method = method /\ x.pattern = pattern

(* Router::insert: a second registration of a pattern is an error, and a   *)
(* GET route is offered for HEAD too, whose own error is dropped.  Nothing *)
(* touches the cache.                                                      *)
InsertRoute(r, method, pattern, handler) ==
    LET route(m) == [method |-> m, pattern |-> pattern, handler |-> handler]
        head == IF method = "GET" /\ ~Registered(r, "HEAD", pattern)
                THEN {route("HEAD")} ELSE {}
    IN  [r EXCEPT !.routes = @ \cup {route(method)} \cup head]

MatchesOf(r, method, path) ==
    {x \in r.routes : x.method = method /\ PatternMatches(x.pattern, path)}

Resolution(kind, handler, params) ==
    [kind |-> kind, handler |-> handler, params |-> params]

(* Router::at and raw_resolve: a hit, else 405 if any other method has the *)
(* path, else 404.                                                         *)
RawResolve(r, method, path) ==
    LET own == MatchesOf(r, method, path)
        best == CHOOSE x \in own : \A y \in own \ {x} : Tighter(x.pattern, y.pattern)
    IN  CASE own # {} -> Resolution("hit", best.handler, HasParams(best.pattern))
          [] own = {} /\ \E x \in r.routes : PatternMatches(x.pattern, path) ->
                Resolution("405", "none", FALSE)
          [] OTHER -> Resolution("404", "none", FALSE)

CacheKey_NoMethod(method, path) == <<"any", path>>

CacheKey(method, path) == <<method, path>>

Cached(r, key) == SelectSeq(r.cache, LAMBDA e : e.key = key)

(* RouteCache::insert: a new key goes to the back, and the oldest one goes *)
(* when the order list outgrows the capacity.                              *)
CacheInsert(r, key, entry) ==
    LET grown == Append(r.cache, [key |-> key, entry |-> entry])
    IN  [r EXCEPT !.cache = IF Len(grown) > r.capacity THEN Tail(grown) ELSE grown]

Cacheable(res) == res.kind = "404" \/ (res.kind = "hit" /\ ~res.params)

(* Router::resolve: the cached answer if there is one; otherwise a fresh   *)
(* match, remembered when it is a parameter-free hit or a definite miss.   *)
Resolve(r, method, path) ==
    LET key == CacheKey(method, path)
        old == Cached(r, key)
        res == RawResolve(r, method, path)
    IN  IF old # <<>>
        THEN [res |-> Head(old).entry, router |-> r]
        ELSE [res |-> res,
              router |-> IF Cacheable(res) THEN CacheInsert(r, key, res) ELSE r]

(* The cache is transparent: what it would answer for a request is what a  *)
(* fresh match answers now, and it never outgrows its capacity.            *)
CacheTransparent(r, methods, paths) ==
    /\ Len(r.cache) <= r.capacity
    /\ \A m \in methods, p \in paths :
          Resolve(r, m, p).res = RawResolve(r, m, p)
=============================================================================
