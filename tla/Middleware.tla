----------------------------- MODULE Middleware -----------------------------
(***************************************************************************)
(* The middleware of justapi-core/src/middleware.rs, compress.rs and       *)
(* gateway.rs.  handle(req, next) is split where it calls next: Before     *)
(* tells whether the middleware answers itself or passes a request on,     *)
(* After what it does to the answer that comes back up.                    *)
(*                                                                         *)
(* A middleware is a record whose kind selects the type and whose other    *)
(* fields are the fields of that type's struct.  sh is what middleware     *)
(* shares between requests: the cells left in each rate-limit bucket and   *)
(* the gateway's hot-reloaded route table.                                 *)
(***************************************************************************)
EXTENDS Router

None == "none"

NoHeaders == [vary |-> None, origin |-> None, creds |-> FALSE, secure |-> FALSE,
              encoding |-> None]

(* json_error, error_response, json_response: src names who answered.      *)
Reply(status, src) ==
    [status |-> status, src |-> src, hdr |-> NoHeaders, large |-> FALSE,
     endless |-> FALSE]

(* An Err travelling up the chain has no status yet; the server makes it a *)
(* 500 in the end.                                                         *)
Error == Reply(0, "error")

Pass(req, sh) == [stop |-> FALSE, reply |-> Error, req |-> req, sh |-> sh]
Halt(reply, req, sh) == [stop |-> TRUE, reply |-> reply, req |-> req, sh |-> sh]

-----------------------------------------------------------------------------
(* Rate limiting: governor's bucket is external; check() takes a cell.     *)

Charge(key, req, sh) ==
    IF sh.cells[key] > 0
    THEN Pass(req, [sh EXCEPT !.cells[key] = @ - 1])
    ELSE Halt(Reply(429, key), req, sh)

(* IpRateLimiter: the key is the SocketAddr extension.  handle_request     *)
(* stores an Option<SocketAddr>, a different type, so get::<SocketAddr>()  *)
(* finds nothing and every client is "unknown".                            *)
IpKey(req) == "unknown"

IpRateBefore(req, sh) == Charge(IpKey(req), req, sh)

(* find_rule: the first rule whose prefix and method fit.                  *)
RuleFits(rule, req) ==
    IsPrefix(rule.prefix, req.path) /\ rule.method \in {None, req.method}

PerRouteKey(mw, req) ==
    LET fits == {i \in 1 .. Len(mw.rules) : RuleFits(mw.rules[i], req)}
    IN  IF fits = {} THEN mw.fallback
        ELSE mw.rules[CHOOSE i \in fits : \A j \in fits : i <= j].bucket

PerRouteBefore(mw, req, sh) ==
    LET key == PerRouteKey(mw, req)
    IN  IF key = None THEN Pass(req, sh) ELSE Charge(key, req, sh)

-----------------------------------------------------------------------------
(* Authentication.                                                         *)

(* JwtAuth's constructors differ in key and algorithm only, which is the   *)
(* token's affair here; all of them require a token by default.            *)
JwtAuth(rules) == [kind |-> "jwt", default |-> [kind |-> "required"], rules |-> rules]

(* ApiKeyAuth::new, with_key, with_query_param, require_for.               *)
ApiKeyAuth(keys, query, rules) ==
    [kind |-> "apikey", default |-> [kind |-> "required"], keys |-> keys,
     query |-> query, rules |-> rules]

(* requirement_for_path: the first rule by prefix, else the default.       *)
RequirementFor(mw, path) ==
    LET fits == {i \in 1 .. Len(mw.rules) : IsPrefix(mw.rules[i].prefix, path)}
    IN  IF fits = {} THEN mw.default
        ELSE mw.rules[CHOOSE i \in fits : \A j \in fits : i <= j].need

(* check_claims: any one of the wanted roles or scopes is enough; a token  *)
(* without the claim has none.                                             *)
CheckClaims(claims, need) ==
    CASE need.kind = "roles" -> need.any \cap claims.roles # {}
      [] need.kind = "scopes" -> need.any \cap claims.scopes # {}
      [] OTHER -> TRUE

(* JwtAuth::handle.  req.token is the decoded bearer token: valid is what  *)
(* jsonwebtoken says of signature, issuer, audience and expiry.            *)
JwtBefore(mw, req, sh) ==
    LET need == RequirementFor(mw, req.path)
    IN  CASE need.kind = "none" -> Pass(req, sh)
          [] need.kind # "none" /\ ~(req.token.bearer /\ req.token.valid) ->
                Halt(Reply(401, "jwt"), req, sh)
          [] need.kind # "none" /\ req.token.bearer /\ req.token.valid
                /\ ~CheckClaims(req.token, need) -> Halt(Reply(403, "jwt"), req, sh)
          [] OTHER -> Pass([req EXCEPT !.claims = "jwt"], sh)

(* ApiKeyAuth::extract_key: the header hides the query parameter.          *)
ExtractKey(mw, req) ==
    IF req.key # None THEN req.key
    ELSE IF mw.query THEN req.qkey ELSE None

KeyRequired(mw, path) == RequirementFor(mw, path).kind = "required"

ApiKeyBefore(mw, req, sh) ==
    CASE ~KeyRequired(mw, req.path) -> Pass(req, sh)
      [] KeyRequired(mw, req.path) /\ ExtractKey(mw, req) \in mw.keys ->
            Pass([req EXCEPT !.claims = "key"], sh)
      [] OTHER -> Halt(Reply(401, "key"), req, sh)

-----------------------------------------------------------------------------
(* Cross-origin headers.                                                   *)

(* Cors::new, permissive, allow_origin and allow_credentials: "*" is alone *)
(* in the list or absent from it.                                          *)
Cors(origins, creds) == [kind |-> "cors", origins |-> origins, creds |-> creds]

MatchedOrigin(mw, origin) ==
    CASE "*" \in mw.origins /\ mw.creds -> origin
      [] "*" \in mw.origins /\ ~mw.creds -> "*"
      [] origin \in mw.origins -> origin
      [] OTHER -> None

CorsHeaders(mw, req, reply) ==
    LET o == MatchedOrigin(mw, req.origin)
    IN  [reply EXCEPT
            !.hdr.origin = o,
            !.hdr.creds = @ \/ mw.creds,
            !.hdr.vary = IF "*" \in mw.origins THEN @ ELSE "Origin"]

(* A preflight of an accepted origin is answered here, next is not called. *)
CorsBefore(mw, req, sh) ==
    IF MatchedOrigin(mw, req.origin) # None /\ req.method = "OPTIONS"
    THEN Halt(CorsHeaders(mw, req, Reply(204, "cors")), req, sh)
    ELSE Pass(req, sh)

CorsAfter(mw, req, reply) ==
    IF MatchedOrigin(mw, req.origin) = None THEN reply ELSE CorsHeaders(mw, req, reply)

(* SecurityHeaders: the configured headers go onto every Ok answer.        *)
SecureAfter(reply) == [reply EXCEPT !.hdr.secure = TRUE]

-----------------------------------------------------------------------------
(* Compression.                                                            *)

(* Encoding::from_accept_encoding in the default build (gzip and deflate   *)
(* only): accept maps a coding to its quality in tenths.  The best quality *)
(* wins, ties go to gzip, deflate, "*", then the codings this build lacks. *)
Preference(coding) ==
    CASE coding = "gzip" -> 2 [] coding = "deflate" -> 3 [] coding = "*" -> 4
      [] OTHER -> 5

Negotiated(accept) ==
    LET offers == {c \in DOMAIN accept : accept[c] > 0}
        best == CHOOSE c \in offers : \A d \in offers :
                    \/ accept[c] > accept[d]
                    \/ accept[c] = accept[d] /\ Preference(c) <= Preference(d)
    IN  CASE offers = {} -> "identity"
          [] offers # {} /\ best \in {"gzip", "*"} -> "gzip"
          [] offers # {} /\ best = "deflate" -> "deflate"
          [] OTHER -> "identity"

(* CompressionMiddleware: a body below min_size, already encoded or not    *)
(* shrinking is left alone; the whole body is collected first, so an       *)
(* endless stream of a compressible type never comes up (CanAscend).       *)
Collects(req, reply) == Negotiated(req.accept) # "identity" /\ reply.hdr.encoding = None

CompressAfter(req, reply) ==
    IF Collects(req, reply) /\ reply.large
    THEN [reply EXCEPT !.hdr.encoding = Negotiated(req.accept),
                       !.hdr.vary = "accept-encoding"]
    ELSE reply

-----------------------------------------------------------------------------
(* GatewayMiddleware: a match in the current table is answered here.       *)
GatewayBefore(req, sh) ==
    IF RawResolve(sh.gateway, req.method, req.path).kind = "hit"
    THEN Halt(Reply(200, "gateway"), req, sh)
    ELSE Pass(req, sh)

(* AccessLogger leaves request and answer alone and notes the status.      *)
Logs(mw) == mw.kind = "log"

-----------------------------------------------------------------------------
(* The chain: Next::run calls the middleware at its index with the rest of *)
(* the chain; each kind is one impl Middleware.                            *)

Before(mw, req, sh) ==
    CASE mw.kind = "cors" -> CorsBefore(mw, req, sh)
      [] mw.kind = "jwt" -> JwtBefore(mw, req, sh)
      [] mw.kind = "apikey" -> ApiKeyBefore(mw, req, sh)
      [] mw.kind = "rate" -> Charge(mw.bucket, req, sh)
      [] mw.kind = "iprate" -> IpRateBefore(req, sh)
      [] mw.kind = "perroute" -> PerRouteBefore(mw, req, sh)
      [] mw.kind = "gateway" -> GatewayBefore(req, sh)
      [] OTHER -> Pass(req, sh)

(* Every After works on an Ok answer only: next.run(req).await? hands an   *)
(* Err on untouched.                                                       *)
After(mw, req, reply) ==
    CASE reply.status = 0 -> reply
      [] reply.status # 0 /\ mw.kind = "cors" -> CorsAfter(mw, req, reply)
      [] reply.status # 0 /\ mw.kind = "secure" -> SecureAfter(reply)
      [] reply.status # 0 /\ mw.kind = "compress" -> CompressAfter(req, reply)
      [] OTHER -> reply

(* What must be over before After can run: compression awaits the body.    *)
CanAscend(mw, req, reply) ==
    ~(mw.kind = "compress" /\ reply.endless /\ Collects(req, reply))
=============================================================================
