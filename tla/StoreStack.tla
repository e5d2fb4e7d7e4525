----------------------------- MODULE StoreStack -----------------------------
(***************************************************************************)
(* The object store of one process (crates/store, crates/store-s3): the    *)
(* encrypting decorator with its header cache, the key cache in front of   *)
(* the key service, and the backend (a local directory or a bucket).       *)
(*                                                                         *)
(* The bytes of an object are a sequence, so the chunk arithmetic of range *)
(* reads is the code's.  A data key is a number, a nonce prefix is the     *)
(* object's number; decryption checks both, and the chunk's place.         *)
(***************************************************************************)
EXTENDS Integers, Sequences, SequencesExt, FiniteSets

CONSTANTS
    Client,        \* threads of the process that call the store
    Doc,           \* paths that are put, read, deleted and put again
    Cas,           \* paths that are only ever created, by put_if_absent
    Lens,          \* sizes of what is stored
    Ranges,        \* <<offset, len>> of range reads
    MaxUses,       \* CachingKms::max_uses
    MaxObjects,    \* bound: objects sealed
    MaxReads,      \* bound: reads started
    Exclusive,     \* whether a put has its path to itself
    LostPuts       \* whether a put that landed may be answered with an error

VARIABLES
    object,   \* the backend: path -> object, or None
    headers,  \* EncryptingStore::headers: path -> header, or None
    slot,     \* CachingKms::slot: the data key in use and its uses
    sealed,   \* number of objects sealed
    reads,    \* number of reads started
    call,     \* client -> the call it is in
    focus,    \* the path this behaviour is about: paths share only the key slot
    held      \* client -> what its path held since its call began

vars == <<object, headers, slot, sealed, reads, call, focus, held>>

Path == Doc \cup Cas
None == [id |-> -1]
Plain == [id |-> 0]
CHUNK_SIZE == 2
TAG_LEN == 1
HEADER_LEN == 1

\* The bytes a caller stores under an object's number.
Text(id, len) == [j \in 1 .. len |-> <<id, j>>]
div_ceil(a, b) == (a + b - 1) \div b
Lesser(a, b) == IF a < b THEN a ELSE b

\* One ciphertext chunk: the bytes of the plaintext and a tag that binds
\* key, nonce prefix and place (aad and chunk_nonce).
Chunk(id, dek, i, text) == text \o << <<id, dek, "tag", i>> >>
ChunkOf(text, i) == SubSeq(text, i * CHUNK_SIZE + 1, Lesser((i + 1) * CHUNK_SIZE, Len(text)))

\* seal: the object and the header that goes into the cache once it is stored.
seal(id, dek, len) ==
    LET text == Text(id, len)
    IN  [id |-> id,
         bytes |-> << <<id, dek, "header", len>> >> \o
                   FlattenSeq([i \in 1 .. div_ceil(len, CHUNK_SIZE) |->
                                   Chunk(id, dek, i - 1, ChunkOf(text, i - 1))])]
Header(id, dek, len) == [id |-> id, dek |-> dek, plen |-> len]

\* An object from before encryption was switched on: no magic.
PlainObject(len) == [id |-> 0, bytes |-> Text(0, len)]

\* parse_header, on the leading bytes of an object.
parse_header(bytes) ==
    IF bytes = <<>> \/ Len(Head(bytes)) # 4 THEN Plain
    ELSE Header(Head(bytes)[1], Head(bytes)[2], Head(bytes)[4])

\* decrypt_chunk: fails unless the tag is the one of this key, object and place.
Authentic(h, i, ct) == ct # <<>> /\ Last(ct) = <<h.id, h.dek, "tag", i>>

\* What is no plaintext: told apart from it by its shape.
Failed == << <<"decryption", "failed", "">> >>
Missing == << <<"no", "such", "key">> >>
Size(n) == << <<n>> >>

\* Splits raw ciphertext the way slice::chunks does and decrypts from chunk
\* `first` on.
decrypt(h, first, raw) ==
    LET ct == CHUNK_SIZE + TAG_LEN
        n == div_ceil(Len(raw), ct)
        Piece(i) == SubSeq(raw, (i - 1) * ct + 1, Lesser(i * ct, Len(raw)))
    IN  IF \E i \in 1 .. n : ~Authentic(h, first + i - 1, Piece(i)) THEN Failed
        ELSE FlattenSeq([i \in 1 .. n |-> Front(Piece(i))])

\* LocalStore::get_range and S3Store::get_range: a short read at the end,
\* nothing past it.
inner_range(o, offset, len) ==
    SubSeq(o.bytes, offset + 1, Lesser(offset + len, Len(o.bytes)))

\* EncryptingStore::get, on the bytes read.
open_whole(bytes) ==
    LET h == parse_header(bytes)
        out == decrypt(h, 0, SubSeq(bytes, HEADER_LEN + 1, Len(bytes)))
    IN  IF h = Plain THEN bytes
        ELSE IF out = Failed \/ Len(out) # h.plen THEN Failed ELSE out

\* EncryptingStore::get_range, with the header it was given, on the object
\* found at that time.
open_range(h, o, offset, len) ==
    LET end == Lesser(offset + len, h.plen)
        first == offset \div CHUNK_SIZE
        last == (end - 1) \div CHUNK_SIZE
        n_chunks == div_ceil(h.plen, CHUNK_SIZE)
        ct == CHUNK_SIZE + TAG_LEN
        last_pt == IF last = n_chunks - 1 THEN h.plen - last * CHUNK_SIZE ELSE CHUNK_SIZE
        ct_len == (last - first) * ct + last_pt + TAG_LEN
        raw == inner_range(o, HEADER_LEN + first * ct, ct_len)
        plain == decrypt(h, first, raw)
        skip == offset - first * CHUNK_SIZE
    IN  IF h = Plain THEN inner_range(o, offset, len)
        ELSE IF offset >= end THEN <<>>
        ELSE IF Len(raw) # ct_len \/ plain = Failed THEN Failed
        ELSE SubSeq(plain, skip + 1, skip + (end - offset))
-----------------------------------------------------------------------------
Quiet == [pc |-> "idle"]
NoKey == [dek |-> 0, uses |-> 0]

\* Documents may be left from before encryption; nothing is cached yet.
Init ==
    /\ object \in {[p \in Path |-> o] : o \in {None} \cup {PlainObject(n) : n \in Lens}}
    /\ headers = [p \in Path |-> None]
    /\ slot = NoKey
    /\ sealed = 0
    /\ reads = 0
    /\ call = [c \in Client |-> Quiet]
    /\ focus \in Path
    /\ held = [c \in Client |-> {}]

Calls(p) == {c \in Client : call[c].pc # "idle" /\ call[c].path = p}
Free(p) == Exclusive => Calls(p) = {}
NoPut(p) == Exclusive => \A c \in Calls(p) : call[c].op # "put"

\* CachingKms::generate: the slot's key until it is used up or too old, then
\* a new one (AwsKms::generate or the default generate of the trait).
generate(aged) ==
    IF slot.dek # 0 /\ slot.uses < MaxUses /\ ~aged
    THEN [slot EXCEPT !.uses = @ + 1]
    ELSE [dek |-> slot.dek + 1, uses |-> 1]

\* put and put_if_absent start by sealing under a key from the cache.
Seal(c, op, p, len, aged) ==
    /\ call[c] = Quiet
    /\ sealed < MaxObjects
    /\ slot' = generate(aged)
    /\ sealed' = sealed + 1
    /\ call' = [call EXCEPT ![c] =
                    [pc |-> "store", op |-> op, path |-> p,
                     object |-> seal(sealed + 1, slot'.dek, len),
                     header |-> Header(sealed + 1, slot'.dek, len)]]
    /\ held' = [held EXCEPT ![c] = {object[p]}]
    /\ UNCHANGED <<object, headers, reads>>

\* The backend changes under everyone who is in a call on that path.
Store(p, o) ==
    /\ object' = [object EXCEPT ![p] = o]
    /\ held' = [c \in Client |-> IF c \in Calls(p) THEN held[c] \cup {o} ELSE held[c]]

\* LocalStore::put renames a finished file, S3Store::put replaces the object.
PutInner(c) ==
    /\ call[c].pc = "store" /\ call[c].op = "put"
    /\ Store(call[c].path, call[c].object)
    /\ call' = [call EXCEPT ![c].pc = "remember"]
    /\ UNCHANGED <<headers, slot, sealed, reads>>

\* The error of the backend ends the call.  A local directory then still has
\* the old object; a bucket may have the new one.
PutFails(c) ==
    /\ call[c].pc = "store" /\ call[c].op = "put"
    /\ IF LostPuts THEN Store(call[c].path, call[c].object) ELSE UNCHANGED <<object, held>>
    /\ call' = [call EXCEPT ![c] = Quiet]
    /\ UNCHANGED <<headers, slot, sealed, reads>>

\* put_if_absent: hard_link or If-None-Match; the winner goes on to cache its
\* header, the loser leaves with false.
CasInner_loser_caches(c) ==
    /\ call[c].pc = "store" /\ call[c].op = "cas"
    /\ IF object[call[c].path] = None
       THEN Store(call[c].path, call[c].object)
       ELSE UNCHANGED <<object, held>>
    /\ call' = [call EXCEPT ![c].pc = "remember"]
    /\ UNCHANGED <<headers, slot, sealed, reads>>

CasInner(c) ==
    /\ call[c].pc = "store" /\ call[c].op = "cas"
    /\ IF object[call[c].path] = None
       THEN /\ Store(call[c].path, call[c].object)
            /\ call' = [call EXCEPT ![c].pc = "remember"]
       ELSE /\ call' = [call EXCEPT ![c] = Quiet]
            /\ UNCHANGED <<object, held>>
    /\ UNCHANGED <<headers, slot, sealed, reads>>

\* 409: another conditional write was in flight.  The four retries change
\* nothing; the fifth conflict is an error.
CasConflict(c) ==
    /\ call[c].pc = "store" /\ call[c].op = "cas"
    /\ \E d \in Calls(call[c].path) \ {c} : call[d].op = "cas"
    /\ call' = [call EXCEPT ![c] = Quiet]
    /\ UNCHANGED <<object, held, headers, slot, sealed, reads>>

\* The bucket stored the object but the answer was lost: the caller sees an
\* error, and its header is not cached.
CasAnswerLost(c) ==
    /\ call[c].pc = "store" /\ call[c].op = "cas"
    /\ object[call[c].path] = None
    /\ Store(call[c].path, call[c].object)
    /\ call' = [call EXCEPT ![c] = Quiet]
    /\ UNCHANGED <<headers, slot, sealed, reads>>

\* cache_put after the write landed.
Remember(c) ==
    /\ call[c].pc = "remember"
    /\ headers' = [headers EXCEPT ![call[c].path] = call[c].header]
    /\ call' = [call EXCEPT ![c] = Quiet]
    /\ UNCHANGED <<object, held, slot, sealed, reads>>
-----------------------------------------------------------------------------
StartRead(c, op, p, range) ==
    /\ call[c] = Quiet
    /\ reads < MaxReads
    /\ reads' = reads + 1
    /\ call' = [call EXCEPT ![c] =
                    [pc |-> "fetch", op |-> op, path |-> p, range |-> range,
                     header |-> None, out |-> <<>>]]
    /\ held' = [held EXCEPT ![c] = {object[p]}]
    /\ UNCHANGED <<object, headers, slot, sealed>>

Answer(c, bytes) == [call[c] EXCEPT !.pc = "answered", !.out = bytes]

\* get: the whole object, parsed anew; the header is cached when it opened.
GetInner(c) ==
    /\ call[c].pc = "fetch" /\ call[c].op = "get"
    /\ LET o == object[call[c].path]
       IN  call' = [call EXCEPT ![c] =
                       IF o = None THEN Answer(c, Missing)
                       ELSE [@ EXCEPT !.pc = "opened", !.out = o.bytes]]
    /\ UNCHANGED <<object, held, headers, slot, sealed, reads>>

GetDone(c) ==
    /\ call[c].pc = "opened"
    /\ LET h == parse_header(call[c].out)
           out == open_whole(call[c].out)
       IN  /\ call' = [call EXCEPT ![c] = Answer(c, out)]
           /\ headers' = IF out = Failed \/ h = Plain THEN headers
                         ELSE [headers EXCEPT ![call[c].path] = h]
    /\ UNCHANGED <<object, held, slot, sealed, reads>>

\* header(): from the cache, or from a probe of the object's head that is
\* cached in a second step.
HeaderOf(c) ==
    /\ call[c].pc = "fetch" /\ call[c].op \in {"range", "size"}
    /\ LET p == call[c].path
           h == IF headers[p] # None THEN headers[p] ELSE parse_header(object[p].bytes)
       IN  call' = [call EXCEPT ![c] =
                       IF headers[p] = None /\ object[p] = None THEN Answer(c, Missing)
                       ELSE [@ EXCEPT !.pc = IF headers[p] = None THEN "probed" ELSE "read",
                                      !.header = h]]
    /\ UNCHANGED <<object, held, headers, slot, sealed, reads>>

Probed(c) ==
    /\ call[c].pc = "probed"
    /\ headers' = [headers EXCEPT ![call[c].path] = call[c].header]
    /\ call' = [call EXCEPT ![c].pc = "read"]
    /\ UNCHANGED <<object, held, slot, sealed, reads>>

\* get_range with that header on what the backend holds by now.
RangeDone(c) ==
    /\ call[c].pc = "read" /\ call[c].op = "range"
    /\ LET o == object[call[c].path]
           past == call[c].header # Plain /\ call[c].range[1] >= call[c].header.plen
       IN  call' = [call EXCEPT ![c] =
                       Answer(c, IF o = None /\ ~past THEN Missing
                                 ELSE IF past THEN <<>>
                                 ELSE open_range(call[c].header, o,
                                                 call[c].range[1], call[c].range[2]))]
    /\ UNCHANGED <<object, held, headers, slot, sealed, reads>>

\* size: the plaintext length in the header, or the object's own.
SizeDone(c) ==
    /\ call[c].pc = "read" /\ call[c].op = "size"
    /\ LET o == object[call[c].path]
       IN  call' = [call EXCEPT ![c] =
                       Answer(c, IF call[c].header # Plain THEN Size(call[c].header.plen)
                                 ELSE IF o = None THEN Missing ELSE Size(Len(o.bytes)))]
    /\ UNCHANGED <<object, held, headers, slot, sealed, reads>>

Finish(c) ==
    /\ call[c].pc = "answered"
    /\ call' = [call EXCEPT ![c] = Quiet]
    /\ held' = [held EXCEPT ![c] = {}]
    /\ UNCHANGED <<object, headers, slot, sealed, reads>>

\* delete: first the cached header, then the object; a missing one is no error.
Forget(c, p) ==
    /\ call[c] = Quiet
    /\ object[p] # None
    /\ headers' = [headers EXCEPT ![p] = None]
    /\ call' = [call EXCEPT ![c] = [pc |-> "delete", op |-> "delete", path |-> p]]
    /\ UNCHANGED <<object, held, slot, sealed, reads>>

DeleteInner(c) ==
    /\ call[c].pc = "delete"
    /\ Store(call[c].path, None)
    /\ call' = [call EXCEPT ![c] = Quiet]
    /\ UNCHANGED <<headers, slot, sealed, reads>>

Next ==
  /\ UNCHANGED focus
  /\ \E c \in Client :
        \/ /\ focus \in Doc /\ Free(focus)
           /\ \E len \in Lens, aged \in BOOLEAN : Seal(c, "put", focus, len, aged)
        \/ focus \in Cas /\ \E len \in Lens : Seal(c, "cas", focus, len, FALSE)
        \/ PutInner(c) \/ PutFails(c) \/ CasInner(c) \/ CasConflict(c)
        \/ CasAnswerLost(c) \/ Remember(c)
        \/ NoPut(focus) /\ \E op \in {"get", "size"} : StartRead(c, op, focus, <<>>)
        \/ NoPut(focus) /\ \E r \in Ranges : StartRead(c, "range", focus, r)
        \/ GetInner(c) \/ GetDone(c) \/ HeaderOf(c) \/ Probed(c)
        \/ RangeDone(c) \/ SizeDone(c) \/ Finish(c)
        \/ focus \in Doc /\ NoPut(focus) /\ Forget(c, focus)
        \/ DeleteInner(c)

Spec == Init /\ [][Next]_vars
-----------------------------------------------------------------------------
\* The plaintext a caller would have read had the path held o.
PlainText(o) ==
    IF o = None THEN Missing
    ELSE IF o.id = 0 THEN o.bytes ELSE Text(o.id, Head(o.bytes)[4])
Slice(t, r) == SubSeq(t, r[1] + 1, Lesser(r[1] + r[2], Len(t)))

Expected(c, o) ==
    LET t == PlainText(o)
    IN  CASE t = Missing -> Missing
          [] call[c].op = "get" -> t
          [] call[c].op = "range" -> Slice(t, call[c].range)
          [] OTHER -> Size(Len(t))

(***************************************************************************)
(* A read answers with the plaintext of an object its path held while the  *)
(* read was in progress: never with the bytes of another, with ciphertext  *)
(* taken for data, or with a failure to decrypt what this process or a     *)
(* competing writer sealed.  Only where the object was absent for a time   *)
(* may the answer be about one deleted before (a size, an empty range),    *)
(* because a probe may cache the header of an object being deleted.        *)
(* encrypt.rs get, get_range and the header cache; store-s3 lib.rs.        *)
(***************************************************************************)
ReadsAreHonest ==
    \A c \in Client : call[c].pc = "answered" =>
        \/ \E o \in held[c] : call[c].out = Expected(c, o)
        \/ None \in held[c] /\ call[c].out # Failed
                            /\ (call[c].op = "size" \/ call[c].out = <<>>)
=============================================================================
