----------------------------- MODULE Containers -----------------------------
(***************************************************************************)
(* What the proxy keeps its data in: the buffer of a connection, which     *)
(* read_to_vchar fills, and the map from requests to responses, into which *)
(* cache puts a copy of every complete response. Responses are looked up   *)
(* only in builds with CACHED. Every request has the same hash, so that    *)
(* the map has one bucket; a request is cached only if it was sent         *)
(* somewhere, hence has a Host.                                            *)
(***************************************************************************)
EXTENDS Vector

CONSTANTS
  MIN_READ_BUFF_SIZE,   \* 10000
  MaxBytes,             \* bound on what is read into the buffer
  Key,                  \* what request_equals compares: Host, type, version, uri
  Headers,              \* the rest of a request
  Response,
  Nothing               \* NULL

Pair == [request : [key : Key, headers : Headers], response : Response]

(* NULL is neither a response nor a vector.                                *)
ContainersAssumption ==
  /\ MIN_READ_BUFF_SIZE \in Nat \ {0} /\ MaxBytes \in Nat
  /\ Nothing \notin Response
  /\ Nothing \notin [ptr : Seq(Pair \cup {Garbage}), cnt : Nat, capacity : Nat]

Nul == 0

VARIABLES
  buff,        \* a buffer; byte k of its stream is the number k
  bucket,      \* the bucket of the map, or Nothing before the first put
  latest       \* what was put last with each key

vars == <<buff, bucket, latest>>

Init ==
  /\ buff = ForcedAlloc(NewVector)
  /\ bucket = Nothing
  /\ latest = [key \in Key |-> Nothing]

-----------------------------------------------------------------------------
(* read_to_vchar: a read of n bytes and the end of a string after them.    *)
JustEnough == MIN_READ_BUFF_SIZE
Reserve == MIN_READ_BUFF_SIZE + 1
Filled(v, n) ==
  [ptr |-> [k \in DOMAIN v.ptr |-> IF k \in v.cnt + 1 .. v.cnt + n THEN k ELSE v.ptr[k]],
   cnt |-> v.cnt + n, capacity |-> v.capacity]
ReadToVchar ==
  /\ \E n \in 1 .. MIN_READ_BUFF_SIZE :
       LET filled == Filled(Alloc2(buff, Reserve), n)
       IN /\ filled.cnt <= MaxBytes
          /\ buff' = Assign(filled, filled.cnt + 1, Nul)
  /\ UNCHANGED <<bucket, latest>>

-----------------------------------------------------------------------------
request_equals(r1, r2) == r1.key = r2.key

Bucket == IF bucket = Nothing THEN NewVector ELSE bucket

(* The first pair with an equal request. *)
Places(request) == {k \in 1 .. Bucket.cnt : request_equals(Bucket.ptr[k].request, request)}
FirstPlace(request) == CHOOSE k \in Places(request) : \A j \in Places(request) : k <= j

hash_map_get(request) ==
  IF Places(request) = {} THEN Nothing ELSE Bucket.ptr[FirstPlace(request)].response

Replaced(request, pair) == Assign(Bucket, FirstPlace(request), pair)
hash_map_put(request, response) ==
  LET pair == [request |-> request, response |-> response]
  IN IF Places(request) = {} THEN PushBack(Bucket, pair) ELSE Replaced(request, pair)

Cache ==
  /\ \E request \in [key : Key, headers : Headers], response \in Response :
       /\ bucket' = hash_map_put(request, response)
       /\ latest' = [latest EXCEPT ![request.key] = response]
  /\ UNCHANGED buff

Next == ReadToVchar \/ Cache
Spec == Init /\ [][Next]_vars

-----------------------------------------------------------------------------
TypeOK ==
  /\ buff.cnt \in 0 .. MaxBytes
  /\ latest \in [Key -> Response \cup {Nothing}]

(* A buffer holds what was read, in order, and a zero after it, on which   *)
(* the parser's strstr relies; the map gives back the response that was    *)
(* put last for a request, whatever its other headers, and has no second   *)
(* pair for it; and neither writes outside what it has allocated, at any   *)
(* size it grows through.                                                  *)
StoredAsGiven ==
  /\ InItsCells(buff) /\ Contents(buff) = [k \in 1 .. buff.cnt |-> k]
  /\ buff.cnt > 0 => buff.ptr[buff.cnt + 1] = Nul
  /\ InItsCells(Bucket)
  /\ \A request \in [key : Key, headers : Headers] :
       hash_map_get(request) = latest[request.key]
  /\ \A j, k \in 1 .. Bucket.cnt :
       request_equals(Bucket.ptr[j].request, Bucket.ptr[k].request) => j = k

=============================================================================
