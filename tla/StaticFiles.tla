---------------------------- MODULE StaticFiles ----------------------------
(***************************************************************************)
(* Serving one file (justapi-core/src/static_files.rs) while it is being   *)
(* replaced: StaticDir::handle, with If-None-Match and Range, and          *)
(* StaticDir::serve_file, without.  Metadata is read first, the bytes      *)
(* later.  A body is the set of the offsets it holds and their version.    *)
(***************************************************************************)
EXTENDS Integers, FiniteSets

CONSTANTS
    Requests,
    MaxLen,         \* the longest the file gets
    Small,          \* files up to this length are read at once, others streamed
    MaxEdits, MaxAge,
    Ranges          \* Range headers, parsed into numbers: [form, first, last]

VARIABLES
    file,           \* [len, version]; no length: there is no file
    age,            \* seconds since it was modified
    serving         \* the requests

vars == <<file, age, serving>>

Unanswered == [status |-> 0]
Gone == -1
Mixed == -1         \* the version of bytes that come from several

Init ==
    /\ file \in [len : 0..MaxLen, version : {0}]
    /\ age = 0
    /\ serving = [r \in Requests |-> [pc |-> "new", reply |-> Unanswered]]

Edit(n) ==
    /\ file.version < MaxEdits
    /\ file' = [len |-> n, version |-> file.version + 1]
    /\ age' = 0
    /\ UNCHANGED serving

Tick ==
    /\ age < MaxAge
    /\ age' = age + 1
    /\ UNCHANGED <<file, serving>>

-----------------------------------------------------------------------------

\* The length and the age of the file, not its time of change.
MakeEtag == <<file.len, age>>

SaturatingSub(a, b) == IF a > b THEN a - b ELSE 0

\* parse_range: no range, or a form that the length does not rule out.
ParseRange(h, total) ==
    \/ h.form = "suffix" /\ h.last # 0 /\ h.last <= total
    \/ h.form = "from"
    \/ h.form = "both" /\ h.first <= h.last

AtMost(n, top) == IF n < top THEN n ELSE top
AtLeast(n, low) == IF n > low THEN n ELSE low

IntoAbsRange_PastEnd(h, total) ==
    CASE h.form = "both"   -> <<AtMost(h.first, total), AtLeast(AtMost(h.last, total), h.first)>>
      [] h.form = "from"   -> <<AtMost(h.first, total), total>>
      [] h.form = "suffix" -> <<SaturatingSub(total, h.last), total>>

\* Clamped to the file; a first byte beyond the end becomes the last byte.
IntoAbsRange(h, total) ==
    LET top == SaturatingSub(total, 1)
        first == AtMost(h.first, top)
    IN CASE h.form = "both"   -> <<first, AtLeast(AtMost(h.last, top), first)>>
         [] h.form = "from"   -> <<first, top>>
         [] h.form = "suffix" -> <<SaturatingSub(total, h.last), top>>

-----------------------------------------------------------------------------

\* The metadata.  Without a file handle answers 404 and serve_file fails (an
\* error is a 500 here; the server asks the next mount or its router instead);
\* handle answers 304 if the client's tag is the tag of this moment.
Stat(r, range, tag, plain) ==
    /\ serving[r].pc = "new"
    /\ LET seen == [pc |-> "read", len |-> file.len, version |-> file.version, etag |-> MakeEtag,
                    range |-> range, plain |-> plain, opened |-> 0, reply |-> Unanswered]
           Ends(code) == [seen EXCEPT !.pc = "done", !.reply = [status |-> code]]
       IN serving' = [serving EXCEPT ![r] = IF file.len = Gone THEN Ends(IF plain THEN 500 ELSE 404)
                                            ELSE IF ~plain /\ tag = MakeEtag THEN Ends(304)
                                            ELSE seen]
    /\ UNCHANGED <<file, age>>

Answers(r, reply) == serving' = [serving EXCEPT ![r] = [@ EXCEPT !.pc = "done", !.reply = reply]]

Ranged(r) == ~serving[r].plain /\ ParseRange(serving[r].range, serving[r].len)

\* serve_range: read_exact fails when the file has become too short.
ServeRange(r) ==
    /\ serving[r].pc = "read" /\ Ranged(r)
    /\ LET abs == IntoAbsRange(serving[r].range, serving[r].len)
       IN Answers(r, IF abs[2] < file.len
                     THEN [status |-> 206, body |-> abs[1]..abs[2], length |-> abs[2] - abs[1] + 1,
                           version |-> file.version]
                     ELSE [status |-> 500])
    /\ UNCHANGED <<file, age>>

\* serve_file, and the tail of handle: the length is the one of the metadata.
\* A file that was long then is opened, and its body follows.
ServeFile(r) ==
    /\ serving[r].pc = "read" /\ ~Ranged(r)
    /\ IF file.len # Gone /\ serving[r].len > Small
       THEN serving' = [serving EXCEPT ![r] = [@ EXCEPT !.pc = "stream", !.opened = file.version]]
       ELSE Answers(r, IF file.len = Gone THEN [status |-> 500]
                       ELSE [status |-> 200, body |-> 0..(file.len - 1), length |-> serving[r].len,
                             version |-> file.version])
    /\ UNCHANGED <<file, age>>

\* The ReaderStream to its end: a file that was edited in the meantime, in
\* place or by a rename, may give any mixture.
StreamBody(r) ==
    /\ serving[r].pc = "stream"
    /\ LET same == file.version = serving[r].opened
       IN \E n \in IF same THEN {file.len} ELSE 0..MaxLen :
             Answers(r, [status |-> 200, body |-> 0..(n - 1), length |-> serving[r].len,
                         version |-> IF same THEN file.version ELSE Mixed])
    /\ UNCHANGED <<file, age>>

Next ==
    \/ Tick
    \/ \E n \in {Gone} \cup 0..MaxLen : Edit(n)
    \/ \E r \in Requests :
          \/ \E range \in Ranges, tag \in (0..MaxLen) \X (0..MaxAge), plain \in BOOLEAN :
                Stat(r, range, tag, plain)
          \/ ServeRange(r) \/ ServeFile(r) \/ StreamBody(r)

Spec == Init /\ [][Next]_vars

-----------------------------------------------------------------------------

\* The bytes a Range header asks for, of a file of this length.
Asked(h, total) ==
    {i \in 0..(total - 1) : \/ h.form = "both" /\ h.first <= i /\ i <= h.last
                            \/ h.form = "from" /\ h.first <= i
                            \/ h.form = "suffix" /\ total - h.last <= i}

\* A 206 holds the bytes it declares; of the file whose metadata was read they
\* are the ones asked for, or the last byte when none of those exists.
PartialIsExact(q) ==
    q.reply.status = 206 =>
        /\ q.reply.length = Cardinality(q.reply.body)
        /\ q.len = 0 \/ q.reply.body \subseteq 0..(q.len - 1)
        /\ q.reply.version = q.version =>
              q.reply.body = IF Asked(q.range, q.len) = {} THEN {q.len - 1} ELSE Asked(q.range, q.len)

\* A 200 of the file whose metadata was read is the whole of it.
WholeIsExact(q) ==
    q.reply.status = 200 /\ q.reply.version = q.version => q.reply.body = 0..(q.len - 1) /\ q.reply.length = q.len

\* A 206 declares the bytes it holds, even if the file was replaced since its
\* metadata was read; if it was not, they are the ones asked for.  A 200 is the
\* whole file, with its length, unless the file was replaced before its last
\* byte was read; and only an empty file, a missing one, or one that shrank or
\* went, turns a request into an error.
RepliesAreExact ==
    \A r \in Requests : serving[r].pc = "done" =>
        /\ PartialIsExact(serving[r]) /\ WholeIsExact(serving[r])
        /\ serving[r].reply.status = 500 => serving[r].len \in {0, Gone} \/ file.version # serving[r].version

=============================================================================
