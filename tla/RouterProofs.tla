---------------------------- MODULE RouterProofs ----------------------------
(***************************************************************************)
(* For every setup of workers and clients: the load the router keeps for a *)
(* worker is the number of requests it has under way, so the router sends  *)
(* a request to the least busy worker and never counts below zero; and for *)
(* all texts and tokenizers the cache keeps tokens under the texts they    *)
(* spell, counts what it keeps, and collects only what is old.             *)
(***************************************************************************)
EXTENDS Router, DataInduction

Known == ToSet(worker_urls)

\* A request that has been counted and not yet taken off.
Counted(r, w) == r.worker = w /\ r.pc \in {"body", "sent"}

Active(w) == {c \in Clients : Counted(client[c], w)}

Fields == {"pc", "kind", "text", "tokens", "mask", "worker", "try", "output", "version"}

IsRequest(r) == r = [f \in Fields |-> r[f]]

(***************************************************************************)
(* The inductive invariant.  A request is counted for a worker the router  *)
(* knows, and no request leaks before its worker is known: a worker that   *)
(* registers starts from a load of zero.                                   *)
(***************************************************************************)
PoolTyped ==
    /\ args \in Configurations
    /\ worker_urls \in Seq(Workers)
    /\ worker_request_counts \in [Known -> Int]
    /\ leaked \in [Workers -> Nat]
    /\ client = [c \in Clients |-> client[c]]
    /\ \A c \in Clients : IsRequest(client[c])

OnlyKnownCounted ==
    /\ \A c \in Clients : client[c].pc \in {"body", "sent"} => client[c].worker \in Known
    /\ \A w \in Workers \ Known : leaked[w] = 0

LoadInv ==
    PoolTyped /\ OnlyKnownCounted
        /\ \A w \in Known : worker_request_counts[w] = leaked[w] + Cardinality(Active(w))

(* A setup has finitely many clients.                                      *)
LEMMA ClientsFinite ==
    ASSUME PoolTyped
    PROVE  IsFiniteSet(Clients)
  BY RouterAssumption DEF PoolTyped, IsConfiguration, Clients

(* A client's step counts or uncounts its own request only.                *)
LEMMA ActiveChange ==
    ASSUME PoolTyped, NEW c \in Clients, NEW r, args' = args, client' = [client EXCEPT ![c] = r], NEW w
    PROVE  /\ Cardinality(Active(w)) \in Nat
           /\ Cardinality(Active(w)') = Cardinality(Active(w))
                - (IF Counted(client[c], w) THEN 1 ELSE 0) + (IF Counted(r, w) THEN 1 ELSE 0)
  <1> DEFINE A == Active(w)
             B == Active(w)'
             rest == A \ {c}
  <1>1. Clients' = Clients /\ IsFiniteSet(Clients)
    BY ClientsFinite DEF Clients
  <1>2. client'[c] = r /\ \A d \in Clients \ {c} : client'[d] = client[d]
    BY DEF PoolTyped
  <1>3. B = {d \in Clients : Counted(client'[d], w)}
    BY <1>1 DEF Active, Counted
  <1>4. /\ c \in A <=> Counted(client[c], w)
        /\ c \in B <=> Counted(r, w)
        /\ B \ {c} = rest
    BY <1>2, <1>3 DEF Active
  <1>5. A \subseteq Clients /\ B \subseteq Clients
    BY <1>3 DEF Active
  <1> HIDE DEF A, B
  <1>6. IsFiniteSet(A) /\ IsFiniteSet(B)
    BY <1>1, <1>5, FS_Subset
  <1>7. /\ Cardinality(rest) = IF c \in A THEN Cardinality(A) - 1 ELSE Cardinality(A)
        /\ Cardinality(B \ {c}) = IF c \in B THEN Cardinality(B) - 1 ELSE Cardinality(B)
    BY <1>6, FS_RemoveElement
  <1>8. Cardinality(A) \in Nat /\ Cardinality(B) \in Nat
    BY <1>6, FS_CardinalityType
  <1>9. Cardinality(B \ {c}) = Cardinality(rest)
    BY <1>4
  <1> HIDE DEF rest
  <1>10. Cardinality(B) = Cardinality(A) - (IF Counted(client[c], w) THEN 1 ELSE 0)
                                         + (IF Counted(r, w) THEN 1 ELSE 0)
    BY <1>4, <1>7, <1>8, <1>9
  <1> QED
    BY <1>8, <1>10 DEF A, B

(* A step of one client's request.                                         *)
LEMMA RequestMoves ==
    ASSUME LoadInv, NEW c \in Clients, NEW r, IsRequest(r), client' = [client EXCEPT ![c] = r],
           UNCHANGED <<args, worker_urls>>,
           worker_request_counts' \in [Known -> Int], leaked' \in [Workers -> Nat],
           r.pc \in {"body", "sent"} => r.worker \in Known,
           \A w \in Workers \ Known : leaked'[w] = 0,
           \A w \in Known :
              worker_request_counts'[w] - leaked'[w] = worker_request_counts[w] - leaked[w]
                - (IF Counted(client[c], w) THEN 1 ELSE 0) + (IF Counted(r, w) THEN 1 ELSE 0)
    PROVE  LoadInv'
  <1>1. Known' = Known /\ Workers' = Workers /\ Clients' = Clients
    BY DEF Known, Workers, Clients
  <1>2. PoolTyped
    BY DEF LoadInv
  <1>3. client'[c] = r /\ \A d \in Clients \ {c} : client'[d] = client[d]
    BY <1>2 DEF PoolTyped
  <1>4. PoolTyped'
    <2>1. client' = [d \in Clients |-> client'[d]]
      BY <1>2, <1>3 DEF PoolTyped
    <2>2. \A d \in Clients : IsRequest(client'[d])
      BY <1>2, <1>3 DEF PoolTyped
    <2>3. \A d \in Clients : IsRequest(client[d])'
      BY <2>2 DEF IsRequest, Request
    <2> QED
      BY <1>1, <1>2, <2>1, <2>3 DEF PoolTyped
  <1>5. OnlyKnownCounted'
    BY <1>1, <1>3 DEF LoadInv, OnlyKnownCounted
  <1>6. ASSUME NEW w \in Known
        PROVE  worker_request_counts'[w] = leaked'[w] + Cardinality(Active(w)')
    <2>1. w \in Workers
      BY <1>2 DEF PoolTyped, Known, ToSet
    <2>2. /\ worker_request_counts'[w] \in Int /\ leaked'[w] \in Int
          /\ worker_request_counts[w] \in Int /\ leaked[w] \in Int
      BY <1>2, <2>1 DEF PoolTyped
    <2>3. /\ Cardinality(Active(w)) \in Nat
          /\ Cardinality(Active(w)') = Cardinality(Active(w))
                - (IF Counted(client[c], w) THEN 1 ELSE 0) + (IF Counted(r, w) THEN 1 ELSE 0)
      BY <1>2, ActiveChange
    <2>4. worker_request_counts[w] = leaked[w] + Cardinality(Active(w))
      BY DEF LoadInv
    <2> QED
      BY <2>2, <2>3, <2>4
  <1> QED
    BY <1>1, <1>4, <1>5, <1>6 DEF LoadInv

(* A request whose worker is done with it, in whichever way, is taken off  *)
(* the load of that worker.                                                *)
LEMMA RequestFinished ==
    ASSUME LoadInv, NEW c \in Clients, client[c].pc = "sent", _finish_url(c),
           NEW r, IsRequest(r), r.pc \notin {"body", "sent"}, client' = [client EXCEPT ![c] = r],
           UNCHANGED <<args, worker_urls, leaked>>
    PROVE  LoadInv'
  <1> DEFINE v == client[c].worker
  <1>1. v \in Known /\ worker_request_counts \in [Known -> Int]
    BY DEF LoadInv, PoolTyped, OnlyKnownCounted
  <1>2. worker_request_counts' = [worker_request_counts EXCEPT ![v] = @ - 1]
    BY DEF _finish_url
  <1>3. \A w : (Counted(client[c], w) <=> w = v) /\ ~Counted(r, w)
    BY DEF Counted
  <1>4. worker_request_counts' \in [Known -> Int] /\ leaked' \in [Workers -> Nat]
    BY <1>1, <1>2 DEF LoadInv, PoolTyped
  <1> HIDE DEF v
  <1>5. ASSUME NEW w \in Known
        PROVE  worker_request_counts'[w] - leaked'[w] = worker_request_counts[w] - leaked[w]
                    - (IF Counted(client[c], w) THEN 1 ELSE 0) + (IF Counted(r, w) THEN 1 ELSE 0)
    <2>1. w \in Workers /\ leaked[w] \in Int /\ worker_request_counts[w] \in Int
      <3>1. w \in Workers
        BY DEF LoadInv, PoolTyped, Known, ToSet
      <3> QED
        BY <1>1, <3>1 DEF LoadInv, PoolTyped
    <2>2. worker_request_counts'[w] = IF w = v THEN worker_request_counts[w] - 1
                                               ELSE worker_request_counts[w]
      BY <1>1, <1>2
    <2> QED
      BY <1>3, <2>1, <2>2
  <1> QED
    BY <1>4, <1>5, RequestMoves DEF LoadInv, OnlyKnownCounted

(* A request that is not counted before nor after changes no load.         *)
LEMMA RequestUncounted ==
    ASSUME LoadInv, NEW c \in Clients, client[c].pc \notin {"body", "sent"},
           NEW r, IsRequest(r), r.pc \notin {"body", "sent"}, client' = [client EXCEPT ![c] = r],
           UNCHANGED <<args, worker_urls, worker_request_counts, leaked>>
    PROVE  LoadInv'
  <1>1. \A w : ~Counted(client[c], w) /\ ~Counted(r, w)
    BY DEF Counted
  <1>2. worker_request_counts' \in [Known -> Int] /\ leaked' \in [Workers -> Nat]
    BY DEF LoadInv, PoolTyped
  <1>3. ASSUME NEW w \in Known
        PROVE  worker_request_counts'[w] - leaked'[w] = worker_request_counts[w] - leaked[w]
                    - (IF Counted(client[c], w) THEN 1 ELSE 0) + (IF Counted(r, w) THEN 1 ELSE 0)
    <2>1. w \in Workers
      BY DEF LoadInv, PoolTyped, Known, ToSet
    <2>2. worker_request_counts[w] \in Int /\ leaked[w] \in Int
      BY <2>1 DEF LoadInv, PoolTyped
    <2> QED
      BY <1>1, <2>2
  <1> QED
    BY <1>1, <1>2, <1>3, RequestMoves DEF LoadInv, OnlyKnownCounted

(* What does not touch requests, workers or loads.                         *)
LEMMA LoadUntouched ==
    ASSUME LoadInv, UNCHANGED <<args, worker_urls, worker_request_counts, client, leaked>>
    PROVE  LoadInv'
  BY DEF LoadInv, PoolTyped, OnlyKnownCounted, IsRequest, Fields, Known, Workers, Clients, Active, Counted

(* A worker that registers is new, and starts from zero, or is known.      *)
LEMMA LoadRegisters ==
    ASSUME LoadInv, NEW w \in Workers, add_worker(w)
    PROVE  LoadInv'
  <1>1. /\ UNCHANGED <<args, client, leaked>> /\ worker_urls \in Seq(Workers)
        /\ worker_urls' = IF w \in Known THEN worker_urls ELSE Append(worker_urls, w)
        /\ worker_request_counts' =
              [x \in Known \cup {w} |-> IF x \in Known THEN worker_request_counts[x] ELSE 0]
    BY DEF add_worker, LoadInv, PoolTyped, Known
  <1>2. Workers' = Workers /\ Clients' = Clients /\ Known \subseteq Workers
    BY <1>1 DEF Workers, Clients, Known, ToSet
  <1>3. worker_urls' \in Seq(Workers) /\ Known' = Known \cup {w}
    <2>1. CASE w \in Known
      BY <1>1, <2>1 DEF Known
    <2>2. CASE w \notin Known
      <3>1. /\ worker_urls' \in Seq(Workers) /\ Len(worker_urls') = Len(worker_urls) + 1
            /\ Len(worker_urls) \in Nat /\ worker_urls'[Len(worker_urls) + 1] = w
            /\ \A i \in 1..Len(worker_urls) : worker_urls'[i] = worker_urls[i]
        BY <1>1, <2>2
      <3>2. /\ DOMAIN worker_urls = 1..Len(worker_urls)
            /\ DOMAIN worker_urls' = 1..(Len(worker_urls) + 1)
        BY <1>1, <3>1
      <3> QED
        BY <3>1, <3>2 DEF Known, ToSet
    <2> QED
      BY <2>1, <2>2
  <1>4. PoolTyped'
    BY <1>1, <1>2, <1>3 DEF LoadInv, PoolTyped, IsRequest, Fields
  <1>5. OnlyKnownCounted'
    BY <1>1, <1>2, <1>3 DEF LoadInv, OnlyKnownCounted
  <1>6. \A x : Active(x)' = Active(x)
    BY <1>1, <1>2 DEF Active, Counted
  <1>7. ASSUME NEW x \in Known \cup {w}
        PROVE  worker_request_counts'[x] = leaked'[x] + Cardinality(Active(x)')
    <2>1. CASE x \in Known
      BY <1>1, <1>6, <2>1 DEF LoadInv
    <2>2. CASE x \notin Known
      <3>1. Active(x) = {} /\ leaked[x] = 0
        BY <1>2, <2>2, <1>7 DEF LoadInv, OnlyKnownCounted, Active, Counted
      <3>2. Cardinality(Active(x)') = 0
        BY <1>6, <3>1, FS_EmptySet
      <3> QED
        BY <1>1, <2>2, <1>7, <3>1, <3>2
    <2> QED
      BY <2>1, <2>2
  <1> QED
    BY <1>3, <1>4, <1>5, <1>7 DEF LoadInv

(* Every step keeps the loads.                                             *)
LEMMA LoadStep ==
    ASSUME LoadInv, [Next]_vars
    PROVE  LoadInv'
  <1> USE DEF poolVars, treeVars
  <1>1. \A c \in Clients : IsRequest(client[c])
    BY DEF LoadInv, PoolTyped
  <1>2. IsRequest(Request) /\ Request.pc \notin {"body", "sent"}
    BY DEF IsRequest, Request, Fields
  <1>3. CASE HealthStep \/ UNCHANGED vars \/ NewWeights
    BY <1>3, LoadUntouched DEF HealthStep, StartChecks, CheckReturns, ApplyChecks, NewWeights, vars
  <1>4. ASSUME NEW w \in Workers, add_worker(w) \/ Crash(w) \/ Restart(w)
        PROVE  LoadInv'
    BY <1>4, LoadRegisters, LoadUntouched DEF Crash, Restart
  <1>5. ASSUME NEW c \in Clients, NEW text, Generate(c, text)
        PROVE  LoadInv'
    <2> DEFINE found == retrieve_from_text(tree, text,
                            [t \in {SubSeq(text, i, Len(text)) : i \in 1..(Len(text) + 1)} |-> tokenizer(t)],
                            args.limits)
               r == [Request EXCEPT !.pc = "proxy", !.kind = "generate", !.text = text, !.try = 1,
                                    !.tokens = found.tokens, !.mask = found.mask]
    <2>1. client[c].pc = "idle" /\ client' = [client EXCEPT ![c] = r]
      BY <1>5 DEF Generate
    <2> HIDE DEF found
    <2>2. IsRequest(r) /\ r.pc = "proxy"
      BY <1>1, <1>2 DEF IsRequest, Fields
    <2> HIDE DEF r
    <2> QED
      BY <1>5, <2>1, <2>2, RequestUncounted DEF Generate
  <1>6. ASSUME NEW c \in Clients, Proxy(c)
        PROVE  LoadInv'
    <2> DEFINE r == [Request EXCEPT !.pc = "proxy"]
    <2>1. IsRequest(r) /\ r.pc = "proxy"
      BY <1>1, <1>2 DEF IsRequest, Fields
    <2>2. client[c].pc = "idle" /\ client' = [client EXCEPT ![c] = r]
      BY <1>6 DEF Proxy
    <2> HIDE DEF r
    <2> QED
      BY <1>6, <2>1, <2>2, RequestUncounted DEF Proxy
  <1>7. ASSUME NEW c \in Clients, NoWorker(c) \/ Cache(c)
        PROVE  LoadInv'
    BY <1>2, <1>7, RequestUncounted DEF NoWorker, Cache, Returns
  <1>8. ASSUME NEW c \in Clients, NEW w \in Workers, _use_url(c, w)
        PROVE  LoadInv'
    <2> DEFINE pc == IF client[c].kind = "proxy" THEN "body" ELSE "sent"
               r == [client[c] EXCEPT !.pc = pc, !.worker = w]
    <2>1. /\ client[c].pc = "proxy" /\ w \in Known
          /\ worker_request_counts' = [worker_request_counts EXCEPT ![w] = @ + 1]
          /\ UNCHANGED <<args, worker_urls, leaked>>
      BY <1>8 DEF _use_url, Preferred, Known, ToSet
    <2>2. client' = [client EXCEPT ![c] = r]
      BY <1>8 DEF _use_url, LoadInv, PoolTyped
    <2> HIDE DEF pc
    <2>3. IsRequest(r) /\ r.pc = pc /\ r.worker = w
      BY <1>1, <1>2 DEF IsRequest, Fields
    <2> HIDE DEF r
    <2>4. \A x : ~Counted(client[c], x) /\ (Counted(r, x) <=> x = w)
      BY <2>1, <2>3 DEF Counted, pc
    <2>5. worker_request_counts' \in [Known -> Int] /\ leaked' \in [Workers -> Nat]
      BY <2>1 DEF LoadInv, PoolTyped
    <2>6. ASSUME NEW x \in Known
          PROVE  worker_request_counts'[x] - leaked'[x] = worker_request_counts[x] - leaked[x]
                    - (IF Counted(client[c], x) THEN 1 ELSE 0) + (IF Counted(r, x) THEN 1 ELSE 0)
      <3>1. x \in Workers
        BY DEF LoadInv, PoolTyped, Known, ToSet
      <3>2. worker_request_counts[x] \in Int /\ leaked[x] \in Int
        BY <3>1 DEF LoadInv, PoolTyped
      <3>3. worker_request_counts'[x] = IF x = w THEN worker_request_counts[x] + 1
                                                 ELSE worker_request_counts[x]
        BY <2>1 DEF LoadInv, PoolTyped
      <3> QED
        BY <2>1, <2>4, <3>2, <3>3
    <2> QED
      BY <2>1, <2>2, <2>3, <2>5, <2>6, RequestMoves DEF LoadInv, OnlyKnownCounted
  <1>9. ASSUME NEW c \in Clients, BodyArrives(c)
        PROVE  LoadInv'
    <2> DEFINE r == [client[c] EXCEPT !.pc = "sent"]
    <2>1. /\ client[c].pc = "body" /\ UNCHANGED <<args, worker_urls, worker_request_counts, leaked>>
          /\ client' = [client EXCEPT ![c] = r]
      BY <1>9 DEF BodyArrives
    <2>2. IsRequest(r) /\ r.pc = "sent" /\ r.worker = client[c].worker
      BY <1>1, <1>2 DEF IsRequest, Fields
    <2> HIDE DEF r
    <2>3. \A x : Counted(client[c], x) <=> Counted(r, x)
      BY <2>1, <2>2 DEF Counted
    <2>4. worker_request_counts' \in [Known -> Int] /\ leaked' \in [Workers -> Nat]
      BY <2>1 DEF LoadInv, PoolTyped
    <2>5. r.worker \in Known
      BY <2>1, <2>2 DEF LoadInv, OnlyKnownCounted
    <2>6. ASSUME NEW x \in Known
          PROVE  worker_request_counts'[x] - leaked'[x] = worker_request_counts[x] - leaked[x]
                    - (IF Counted(client[c], x) THEN 1 ELSE 0) + (IF Counted(r, x) THEN 1 ELSE 0)
      <3>1. x \in Workers
        BY DEF LoadInv, PoolTyped, Known, ToSet
      <3>2. worker_request_counts[x] \in Int /\ leaked[x] \in Int
        BY <3>1 DEF LoadInv, PoolTyped
      <3> QED
        BY <2>1, <2>3, <3>2
    <2> QED
      BY <2>1, <2>2, <2>4, <2>5, <2>6, RequestMoves DEF LoadInv, OnlyKnownCounted
  <1>10. ASSUME NEW c \in Clients, Disconnects(c)
         PROVE  LoadInv'
    <2> DEFINE v == client[c].worker
    <2>1. /\ client[c].pc = "body" /\ UNCHANGED <<args, worker_urls, worker_request_counts>>
          /\ client' = [client EXCEPT ![c] = Request] /\ v \in Known /\ v \in Workers
          /\ leaked' = [leaked EXCEPT ![v] = @ + 1]
      BY <1>10 DEF Disconnects, LoadInv, PoolTyped, OnlyKnownCounted, Known, ToSet
    <2>2. \A x : (Counted(client[c], x) <=> x = v) /\ ~Counted(Request, x)
      BY <1>2, <2>1 DEF Counted
    <2> HIDE DEF v
    <2>3. worker_request_counts' \in [Known -> Int] /\ leaked' \in [Workers -> Nat]
      BY <2>1 DEF LoadInv, PoolTyped
    <2>4. \A x \in Workers \ Known : leaked'[x] = 0
      BY <2>1 DEF LoadInv, PoolTyped, OnlyKnownCounted
    <2>5. ASSUME NEW x \in Known
          PROVE  worker_request_counts'[x] - leaked'[x] = worker_request_counts[x] - leaked[x]
                    - (IF Counted(client[c], x) THEN 1 ELSE 0) + (IF Counted(Request, x) THEN 1 ELSE 0)
      <3>1. x \in Workers
        BY DEF LoadInv, PoolTyped, Known, ToSet
      <3>2. worker_request_counts[x] \in Int /\ leaked[x] \in Int
        BY <3>1 DEF LoadInv, PoolTyped
      <3>3. leaked'[x] = IF x = v THEN leaked[x] + 1 ELSE leaked[x]
        BY <2>1, <3>1 DEF LoadInv, PoolTyped
      <3> QED
        BY <2>1, <2>2, <3>2, <3>3
    <2> QED
      BY <1>2, <2>1, <2>3, <2>4, <2>5, RequestMoves
  <1>11. ASSUME NEW c \in Clients, ProxyFails(c) \/ Answers(c)
         PROVE  LoadInv'
    BY <1>2, <1>11, RequestFinished DEF ProxyFails, Answers
  <1>12. ASSUME NEW c \in Clients, NEW output, NEW version, client[c].pc = "sent", _finish_url(c),
                client' = [client EXCEPT ![c] = [client[c] EXCEPT !.pc = "answered", !.output = output,
                                                                  !.version = version]],
                UNCHANGED <<args, poolVars, leaked>>
         PROVE  LoadInv'
    <2> DEFINE r == [client[c] EXCEPT !.pc = "answered", !.output = output, !.version = version]
    <2>1. IsRequest(r) /\ r.pc = "answered"
      BY <1>1, <1>2 DEF IsRequest, Fields
    <2>2. client' = [client EXCEPT ![c] = r]
      BY <1>12
    <2> HIDE DEF r
    <2> QED
      BY <1>12, <2>1, <2>2, RequestFinished
  <1>13. ASSUME NEW c \in Clients, Generated(c)
         PROVE  LoadInv'
    <2>1. PICK output \in args.outputs :
            client' = [client EXCEPT ![c].pc = "answered", ![c].output = output,
              ![c].version = weight_version]
      BY <1>13 DEF Generated
    <2>2. client' = [client EXCEPT ![c] = [client[c] EXCEPT !.pc = "answered", !.output = output,
                                                            !.version = weight_version]]
      BY <2>1 DEF LoadInv, PoolTyped
    <2> QED
      BY <1>12, <1>13, <2>2 DEF Generated
  <1>14. ASSUME NEW c \in Clients, Aborted(c)
         PROVE  LoadInv'
    <2>1. CASE client[c].try < args.tries
      <3> DEFINE n == client[c].try + 1
                 r == [client[c] EXCEPT !.pc = "proxy", !.try = n]
      <3>1. client' = [client EXCEPT ![c] = r]
        BY <1>14, <2>1 DEF Aborted
      <3> HIDE DEF n
      <3>2. IsRequest(r) /\ r.pc = "proxy"
        BY <1>1, <1>2 DEF IsRequest, Fields
      <3> HIDE DEF r
      <3> QED
        BY <1>14, <3>1, <3>2, RequestFinished DEF Aborted
    <2>2. CASE ~(client[c].try < args.tries)
      <3>1. PICK output \in args.outputs \cup {<<>>} :
                \/ client' = [client EXCEPT ![c] = [client[c] EXCEPT !.pc = "answered", !.output = output,
                                                                     !.version = weight_version]]
                \/ client' = [client EXCEPT ![c] = Request]
        BY <1>14, <2>2 DEF Aborted
      <3>2. CASE client' = [client EXCEPT ![c] = Request]
        BY <1>2, <1>14, <3>2, RequestFinished DEF Aborted
      <3>3. CASE client' = [client EXCEPT ![c] = [client[c] EXCEPT !.pc = "answered", !.output = output,
                                                                   !.version = weight_version]]
        BY <1>12, <1>14, <3>3 DEF Aborted
      <3> QED
        BY <3>1, <3>2, <3>3
    <2> QED
      BY <2>1, <2>2
  <1> QED
    BY <1>3, <1>4, <1>5, <1>6, <1>7, <1>8, <1>9, <1>10, <1>11, <1>13, <1>14
    DEF Next, RequestStep, Environment

(* At first no worker is known, and no request is under way.               *)
LEMMA LoadStart ==
    ASSUME Init
    PROVE  LoadInv
  <1>1. Known = {}
    BY DEF Init, Known, ToSet
  <1>2. IsRequest(Request) /\ Request.pc = "idle"
    BY DEF IsRequest, Fields, Request
  <1>3. \A c \in Clients : client[c] = Request
    BY DEF Init
  <1>4. PoolTyped
    BY <1>1, <1>2, <1>3 DEF Init, PoolTyped
  <1>5. OnlyKnownCounted
    BY <1>2, <1>3 DEF Init, OnlyKnownCounted
  <1> QED
    BY <1>1, <1>4, <1>5 DEF LoadInv

(* The load a worker is chosen by is what it has to do: requests that end  *)
(* by an answer, an error, an abortion or a lost worker are taken off, and *)
(* only a client that leaves before its body came is not.                  *)
THEOREM LoadsAreActive == Spec => []CountsAreActive
  <1>1. LoadInv => CountsAreActive
    BY DEF LoadInv, CountsAreActive, Known, Active, Counted
  <1> QED
    BY <1>1, LoadStart, LoadStep, PTL DEF Spec

(***************************************************************************)
(* Texts and their characters.                                             *)
(***************************************************************************)
\* A text in tokens of one character each.
Chars(text) == [i \in DOMAIN text |-> <<text[i]>>]

Keys(C) == Seq(C) \ {<<>>}

(* There are as many of these tokens as characters, in any part of a text. *)
LEMMA CharsOf ==
    ASSUME NEW C, NEW x \in Seq(C), NEW y \in Seq(C)
    PROVE  /\ Chars(x) \in Seq(Seq(C)) /\ Len(Chars(x)) = Len(x)
           /\ Chars(x \o y) = Chars(x) \o Chars(y)
           /\ Chars(x) = <<>> <=> x = <<>>
  <1> DEFINE T == Seq(C)
  <1>1. ASSUME NEW z \in Seq(C)
          PROVE Chars(z) \in Seq(T) /\ Len(Chars(z)) = Len(z) /\ \A i \in 1..Len(z) : Chars(z)[i] = <<z[i]>>
    <2>1. \A i \in 1..Len(z) : <<z[i]>> \in T
      OBVIOUS
    <2>2. Chars(z) = [i \in 1..Len(z) |-> <<z[i]>>] /\ Len(z) \in Nat
      BY DEF Chars
    <2> HIDE DEF T
    <2> QED
      BY <2>1, <2>2
  <1>2. x \o y \in Seq(C) /\ Len(x \o y) = Len(x) + Len(y)
    OBVIOUS
  <1>3. Chars(x \o y) = Chars(x) \o Chars(y)
    <2> DEFINE a == Chars(x \o y)
               b == Chars(x)
               d == Chars(y)
    <2>1. /\ a \in Seq(T) /\ Len(a) = Len(x) + Len(y)
          /\ \A i \in 1..(Len(x) + Len(y)) : a[i] = <<(x \o y)[i]>>
      BY <1>1, <1>2
    <2>2. /\ b \in Seq(T) /\ Len(b) = Len(x) /\ \A i \in 1..Len(x) : b[i] = <<x[i]>>
          /\ d \in Seq(T) /\ Len(d) = Len(y) /\ \A i \in 1..Len(y) : d[i] = <<y[i]>>
      BY <1>1
    <2>3. \A i \in 1..(Len(x) + Len(y)) : (x \o y)[i] = IF i <= Len(x) THEN x[i] ELSE y[i - Len(x)]
      OBVIOUS
    <2>4. Len(x) \in Nat /\ Len(y) \in Nat
      OBVIOUS
    <2> HIDE DEF a, b, d, T
    <2>5. b \o d \in Seq(T) /\ Len(b \o d) = Len(x) + Len(y)
      <3>1. b \in Seq(T) /\ d \in Seq(T)
        BY <2>2
      <3>2. b \o d \in Seq(T) /\ Len(b \o d) = Len(b) + Len(d)
        BY <3>1, ConcatProperties
      <3> QED
        BY <3>2, <2>2
    <2>6. ASSUME NEW i \in 1..(Len(x) + Len(y)) PROVE a[i] = (b \o d)[i]
      <3>1. (b \o d)[i] = IF i <= Len(x) THEN b[i] ELSE d[i - Len(x)]
        BY <2>2, <2>4
      <3>2. CASE i <= Len(x)
        <4>1. i \in 1..Len(x)
          BY <3>2, <2>4
        <4>2. a[i] = <<x[i]>>
          BY <3>2, <2>1, <2>3
        <4> QED
          BY <4>1, <4>2, <3>1, <3>2, <2>2
      <3>3. CASE ~(i <= Len(x))
        <4>1. i - Len(x) \in 1..Len(y)
          BY <3>3, <2>4
        <4> QED
          BY <4>1, <3>1, <3>3, <2>1, <2>2, <2>3
      <3> QED
        BY <3>2, <3>3
    <2>7. a = b \o d
      BY <2>1, <2>5, <2>6, SeqEqual
    <2> QED
      BY <2>7 DEF a, b, d
  <1>4. Chars(x) = <<>> <=> x = <<>>
    <2>1. Chars(x) \in Seq(T) /\ Len(Chars(x)) = Len(x)
      BY <1>1
    <2> HIDE DEF T
    <2> QED
      BY <2>1
  <1> QED
    BY <1>1, <1>3, <1>4

(* They spell it; and the tokens of texts that are joined are joined.      *)
LEMMA CharsJoined ==
    ASSUME NEW C
    PROVE  /\ \A x \in Seq(C) : FlattenSeq(Chars(x)) = x
           /\ \A q \in Seq(Seq(C)) :
                  FlattenSeq([i \in 1..Len(q) |-> Chars(q[i])]) = Chars(FlattenSeq(q))
  <1> DEFINE T == Seq(C)
             TT == Seq(T)
             each(q) == [i \in 1..Len(q) |-> Chars(q[i])]
  <1>0. Chars(<<>>) = <<>> /\ FlattenSeq(<<>>) = <<>>
    BY FlattenEmpty DEF Chars
  <1>1. \A x \in Seq(C) : FlattenSeq(Chars(x)) = x
    <2> DEFINE Q == {x \in Seq(C) : FlattenSeq(Chars(x)) = x}
    <2>1. <<>> \in Q
      BY <1>0
    <2>2. ASSUME NEW x \in Q, NEW e \in C PROVE Append(x, e) \in Q
      <3>1. Append(x, e) = x \o <<e>> /\ <<e>> \in Seq(C) /\ x \in Seq(C) /\ Append(x, e) \in Seq(C)
        OBVIOUS
      <3>2. Chars(Append(x, e)) = Chars(x) \o Chars(<<e>>) /\ Chars(x) \in Seq(T)
        BY <3>1, CharsOf
      <3>3. Chars(<<e>>) = <<<<e>>>>
        BY DEF Chars
      <3>4. Chars(x) \o <<<<e>>>> = Append(Chars(x), <<e>>)
        <4>1. Chars(x) \in Seq(T) /\ <<e>> \in T
          BY <3>1, <3>2
        <4> HIDE DEF T
        <4> QED
          BY <4>1, AppendIsConcat
      <3>5. FlattenSeq(Append(Chars(x), <<e>>)) = FlattenSeq(Chars(x)) \o <<e>>
        BY <3>1, <3>2, FlattenAppend
      <3> QED
        BY <3>1, <3>2, <3>3, <3>4, <3>5
    <2>3. Q = Seq(C)
      <3>1. Q \in SUBSET Seq(C)
        OBVIOUS
      <3> HIDE DEF Q
      <3> QED
        BY <3>1, <2>1, <2>2, SequenceInduction
    <2> QED
      BY <2>3
  <1>2. \A q \in Seq(T) : FlattenSeq(each(q)) = Chars(FlattenSeq(q))
    <2> DEFINE Q == {q \in Seq(T) : FlattenSeq(each(q)) = Chars(FlattenSeq(q))}
    <2>1. <<>> \in Q
      <3>1. each(<<>>) = <<>> /\ <<>> \in Seq(T)
        OBVIOUS
      <3> QED
        BY <3>1, <1>0
    <2>2. ASSUME NEW q \in Q, NEW x \in T PROVE Append(q, x) \in Q
      <3>0. q \in Seq(T)
        OBVIOUS
      <3>1. \A y \in T : Chars(y) \in TT
        BY CharsOf
      <3> HIDE DEF TT, T
      <3>2. each(q) \in Seq(TT)
        BY <3>0, <3>1
      <3>3. each(Append(q, x)) = Append(each(q), Chars(x)) /\ Append(q, x) \in Seq(T)
        <4>1. /\ Append(q, x) \in Seq(T) /\ Len(Append(q, x)) = Len(q) + 1 /\ Len(q) \in Nat
              /\ Append(q, x)[Len(q) + 1] = x /\ \A i \in 1..Len(q) : Append(q, x)[i] = q[i]
          BY <3>0
        <4>2. Len(each(q)) = Len(q) /\ \A i \in 1..Len(q) : each(q)[i] = Chars(q[i])
          BY <3>0
        <4> DEFINE a == each(Append(q, x))
                   b == Append(each(q), Chars(x))
        <4>3. a \in Seq(TT) /\ Len(a) = Len(q) + 1 /\ \A i \in 1..(Len(q) + 1) : a[i] = Chars(Append(q, x)[i])
          <5>1. \A i \in 1..(Len(q) + 1) : Append(q, x)[i] \in T
            BY <4>1
          <5> QED
            BY <5>1, <3>1, <4>1
        <4>4. b \in Seq(TT) /\ Len(b) = Len(q) + 1
                /\ b[Len(q) + 1] = Chars(x) /\ \A i \in 1..Len(q) : b[i] = Chars(q[i])
          <5>1. Chars(x) \in TT
            BY <3>1
          <5>2. Len(q) \in Nat
            BY <3>0
          <5> HIDE DEF each
          <5> QED
            BY <5>1, <5>2, <3>2, <4>2
        <4>5. \A i \in 1..(Len(q) + 1) : a[i] = b[i]
          <5> HIDE DEF a, b
          <5>1. \A i \in 1..(Len(q) + 1) : i \in 1..Len(q) \/ i = Len(q) + 1
            BY <4>1
          <5> QED
            BY <5>1, <4>1, <4>3, <4>4
        <4> HIDE DEF a, b
        <4>6. a = b
          BY <4>3, <4>4, <4>5, SeqEqual
        <4> QED
          BY <4>1, <4>6 DEF a, b
      <3>4. FlattenSeq(Append(each(q), Chars(x))) = FlattenSeq(each(q)) \o Chars(x)
        <4>1. each(q) \in Seq(Seq(T)) /\ Chars(x) \in Seq(T)
          BY <3>1, <3>2 DEF TT
        <4> HIDE DEF each
        <4> QED
          BY <4>1, FlattenAppend
      <3>5. FlattenSeq(Append(q, x)) = FlattenSeq(q) \o x /\ FlattenSeq(q) \in Seq(C)
        BY <3>0, FlattenAppend, FlattenType DEF T
      <3>6. Chars(FlattenSeq(q) \o x) = Chars(FlattenSeq(q)) \o Chars(x)
        BY <3>5, CharsOf DEF T
      <3> HIDE DEF each
      <3> QED
        BY <3>3, <3>4, <3>5, <3>6
    <2>3. Q = Seq(T)
      <3>1. Q \in SUBSET Seq(T)
        OBVIOUS
      <3> HIDE DEF Q, T
      <3> QED
        BY <3>1, <2>1, <2>2, SequenceInduction
    <2> QED
      BY <2>3
  <1> QED
    BY <1>1, <1>2

(* What a text starts with, and the rest of it.                            *)
LEMMA PrefixRest ==
    ASSUME NEW C, NEW x \in Seq(C), NEW y \in Seq(C)
    PROVE  /\ IsPrefix(x, y) => /\ Len(x) <= Len(y) /\ y = x \o SubSeq(y, Len(x) + 1, Len(y))
                                /\ SubSeq(y, Len(x) + 1, Len(y)) \in Seq(C)
           /\ \A z \in Seq(C) : y = x \o z => IsPrefix(x, y)
           /\ IsPrefix(<<>>, y) /\ y = <<>> \o y
  <1>1. ASSUME IsPrefix(x, y)
        PROVE  /\ Len(x) <= Len(y) /\ y = x \o SubSeq(y, Len(x) + 1, Len(y))
               /\ SubSeq(y, Len(x) + 1, Len(y)) \in Seq(C)
    <2>1. Len(x) <= Len(y) /\ SubSeq(x, 1, Len(x)) = SubSeq(y, 1, Len(x))
      BY <1>1 DEF IsPrefix
    <2>2. x = SubSeq(y, 1, Len(x))
      BY <2>1, SubSeqFull
    <2>3. SubSeq(y, Len(x) + 1, Len(y)) \in Seq(C)
      OBVIOUS
    <2>4. \A i \in 1..Len(x) : x[i] = y[i]
      BY <2>1, <2>2
    <2> DEFINE z == SubSeq(y, Len(x) + 1, Len(y))
    <2>5. Len(z) = Len(y) - Len(x) /\ \A i \in 1..(Len(y) - Len(x)) : z[i] = y[Len(x) + i]
      BY <2>1
    <2> HIDE DEF z
    <2>6. x \o z \in Seq(C) /\ Len(x \o z) = Len(y) /\ z \in Seq(C)
      BY <2>3, <2>5 DEF z
    <2>7. ASSUME NEW i \in 1..Len(y) PROVE y[i] = (x \o z)[i]
      <3>1. CASE i <= Len(x)
        BY <3>1, <2>4, <2>6
      <3>2. CASE ~(i <= Len(x))
        <4>1. (x \o z)[i] = z[i - Len(x)]
          BY <3>2, <2>5, <2>6
        <4>2. i - Len(x) \in 1..(Len(y) - Len(x)) /\ Len(x) + (i - Len(x)) = i
          BY <3>2
        <4>3. z[i - Len(x)] = y[Len(x) + (i - Len(x))]
          BY <4>2, <2>5
        <4> QED
          BY <4>1, <4>2, <4>3
      <3> QED
        BY <3>1, <3>2
    <2>8. y = x \o z
      BY <2>6, <2>7, SeqEqual
    <2> QED
      BY <2>1, <2>3, <2>8 DEF z
  <1>2. ASSUME NEW z \in Seq(C), y = x \o z PROVE IsPrefix(x, y)
    <2>1. Len(x) <= Len(y) /\ \A i \in 1..Len(x) : y[i] = x[i]
      BY <1>2
    <2>2. SubSeq(x, 1, Len(x)) = x
      OBVIOUS
    <2> DEFINE u == SubSeq(y, 1, Len(x))
    <2>3. u \in Seq(C) /\ Len(u) = Len(x) /\ \A i \in 1..Len(x) : u[i] = y[i]
      BY <2>1
    <2> HIDE DEF u
    <2>4. u = x
      BY <2>1, <2>3, SeqEqual
    <2> QED
      BY <2>1, <2>2, <2>4 DEF IsPrefix, u
  <1>3. IsPrefix(<<>>, y) /\ y = <<>> \o y
    BY DEF IsPrefix
  <1> QED
    BY <1>1, <1>2, <1>3

(* What comes before the last element, and that element.                   *)
LEMMA FrontLast ==
    ASSUME NEW T, NEW f \in Seq(T), NEW k \in T
    PROVE  /\ Front(Append(f, k)) = f /\ Last(Append(f, k)) = k /\ Len(Append(f, k)) = Len(f) + 1
           /\ Append(f, k) \in Seq(T) /\ Append(f, k) # <<>> /\ Len(f) \in Nat
  <1> DEFINE a == Append(f, k)
  <1>0. a \in Seq(T) /\ a # <<>> /\ Len(f) \in Nat
    OBVIOUS
  <1>1. a = f \o <<k>> /\ <<k>> \in Seq(T) /\ Len(a) = Len(f) + 1 /\ a[Len(f) + 1] = k
    BY AppendIsConcat
  <1> HIDE DEF a
  <1>2. SubSeq(a, 1, Len(f)) = f
    <2>1. CASE f = <<>>
      BY <2>1, SubSeqEmpty
    <2>2. CASE f # <<>>
      <3>1. 1 \in 1..Len(f) /\ Len(f) \in 1..Len(f)
        BY <2>2
      <3>2. SubSeq(a, 1, Len(f)) = SubSeq(f, 1, Len(f))
        BY <1>1, <3>1, SubSeqOfConcat1
      <3> QED
        BY <3>2, SubSeqFull
    <2> QED
      BY <2>1, <2>2
  <1>3. Len(a) - 1 = Len(f)
    BY <1>1
  <1> QED
    BY <1>0, <1>1, <1>2, <1>3 DEF Front, Last, a

(* A sequence starts with its parts, and with what they start with.        *)
LEMMA PartOf ==
    ASSUME NEW T, NEW p \in Seq(T), NEW m \in 1..Len(p)
    PROVE  /\ SubSeq(p, 1, m) \in Seq(T) /\ Len(SubSeq(p, 1, m)) = m
           /\ Last(SubSeq(p, 1, m)) = p[m]
           /\ m > 1 => Front(SubSeq(p, 1, m)) = SubSeq(p, 1, m - 1)
           /\ \A a \in Seq(T) : Len(a) <= m /\ IsPrefix(a, p) => IsPrefix(a, SubSeq(p, 1, m))
           /\ \A a \in Seq(T) : Len(a) = m /\ IsPrefix(a, p) => SubSeq(p, 1, m) = a
           /\ \A a \in Seq(T) : IsPrefix(a, SubSeq(p, 1, m)) => IsPrefix(a, p)
  <1> DEFINE s == SubSeq(p, 1, m)
  <1>1. s \in Seq(T) /\ Len(s) = m /\ s[m] = p[m] /\ \A i \in 1..m : s[i] = p[i]
    OBVIOUS
  <1>2. Last(s) = p[m]
    BY <1>1 DEF Last
  <1>3. ASSUME m > 1 PROVE Front(s) = SubSeq(p, 1, m - 1)
    <2>1. Front(s) = SubSeq(s, 1, m - 1)
      BY <1>1 DEF Front
    <2>2. 1 \in 1..Len(p) /\ m \in 1..Len(p) /\ 1 \in 1..(m - 1 + 1) /\ m - 1 \in 1..(m - 1 + 1)
      BY <1>3
    <2>3. SubSeq(s, 1, m - 1) = SubSeq(p, 1 + 1 - 1, 1 + (m - 1) - 1)
      BY <2>2, SubSeqOfSubSeq
    <2>4. 1 + 1 - 1 = 1 /\ 1 + (m - 1) - 1 = m - 1
      OBVIOUS
    <2> QED
      BY <2>1, <2>3, <2>4
  <1> HIDE DEF s
  <1>4. ASSUME NEW a \in Seq(T), NEW x \in Seq(T)
        PROVE  IsPrefix(a, x) <=> Len(a) <= Len(x) /\ \A i \in 1..Len(a) : a[i] = x[i]
    <2>1. CASE Len(a) <= Len(x)
      <3> DEFINE b == SubSeq(x, 1, Len(a))
      <3>1. b \in Seq(T) /\ Len(b) = Len(a) /\ \A i \in 1..Len(a) : b[i] = x[i]
        BY <2>1
      <3>2. SubSeq(a, 1, Len(a)) = a
        BY SubSeqFull
      <3> HIDE DEF b
      <3>3. a = b <=> \A i \in 1..Len(a) : a[i] = x[i]
        BY <3>1, SeqEqual
      <3> QED
        BY <2>1, <3>2, <3>3 DEF IsPrefix, b
    <2> QED
      BY <2>1 DEF IsPrefix
  <1>5. \A a \in Seq(T) : Len(a) <= m /\ IsPrefix(a, p) => IsPrefix(a, s)
    <2> SUFFICES ASSUME NEW a \in Seq(T), Len(a) <= m, IsPrefix(a, p) PROVE IsPrefix(a, s)
      OBVIOUS
    <2>1. \A i \in 1..Len(a) : a[i] = p[i] /\ i \in 1..m
      BY <1>4
    <2> QED
      BY <2>1, <1>1, <1>4
  <1>6. \A a \in Seq(T) : Len(a) = m /\ IsPrefix(a, p) => s = a
    BY <1>1, <1>4, SeqEqual
  <1>7. \A a \in Seq(T) : IsPrefix(a, s) => IsPrefix(a, p)
    <2> SUFFICES ASSUME NEW a \in Seq(T), IsPrefix(a, s) PROVE IsPrefix(a, p)
      OBVIOUS
    <2>1. Len(a) <= m /\ \A i \in 1..Len(a) : a[i] = s[i] /\ i \in 1..m
      BY <1>1, <1>4
    <2> QED
      BY <2>1, <1>1, <1>4
  <1> QED
    BY <1>1, <1>2, <1>3, <1>5, <1>6, <1>7 DEF s

(***************************************************************************)
(* Trees.                                                                  *)
(***************************************************************************)
IsNode(n, C) ==
    /\ n = [tokens |-> n.tokens, mask |-> n.mask, weight_version |-> n.weight_version, born |-> n.born]
    /\ n.tokens \in Seq(Seq(C)) /\ n.weight_version \in Int

\* A tree has the nodes on the way to every node.
Shaped(t, C) ==
    /\ t = [nodes |-> t.nodes, cur_cache_size |-> t.cur_cache_size,
            total_entries |-> t.total_entries, born |-> t.born]
    /\ t.nodes = [p \in Nodes(t) |-> t.nodes[p]]
    /\ IsFiniteSet(Nodes(t))
    /\ \A p \in Nodes(t) :
          /\ p \in Seq(Keys(C)) /\ p # <<>> /\ IsNode(t.nodes[p], C)
          /\ Len(p) > 1 => Front(p) \in Nodes(t)

(* Paths are sequences of texts, and no shorter than what they spell.      *)
LEMMA PathsSpell ==
    ASSUME NEW C, NEW p \in Seq(Keys(C))
    PROVE  /\ p \in Seq(Seq(C)) /\ FlattenSeq(p) \in Seq(C)
           /\ Len(p) <= Len(FlattenSeq(p))
           /\ \A k \in Keys(C) : FlattenSeq(Append(p, k)) = FlattenSeq(p) \o k
  <1>1. p \in Seq(Seq(C))
    <2>1. Keys(C) \subseteq Seq(C)
      BY DEF Keys
    <2> QED
      BY <2>1, SeqMonotonic
  <1>2. FlattenSeq(p) \in Seq(C)
    BY <1>1, FlattenType
  <1>3. Len(p) <= Len(FlattenSeq(p))
    <2>1. \A i \in 1..Len(p) : p[i] # <<>>
      <3>1. \A i \in 1..Len(p) : p[i] \in Keys(C)
        OBVIOUS
      <3> QED
        BY <3>1 DEF Keys
    <2>2. Len(FlattenSeq(p)) >= Len(p)
      BY <1>1, <2>1, FlattenLength
    <2>3. Len(p) \in Nat /\ Len(FlattenSeq(p)) \in Nat
      BY <1>2
    <2> QED
      BY <2>2, <2>3
  <1>4. \A k \in Keys(C) : FlattenSeq(Append(p, k)) = FlattenSeq(p) \o k
    BY <1>1, FlattenAppend DEF Keys
  <1> QED
    BY <1>1, <1>2, <1>3, <1>4

\* Where the way down a tree with a text ends, and what is left of the text.
WayDown(t, C, text, w) ==
    /\ w.path = <<>> \/ w.path \in Nodes(t)
    /\ w.path \in Seq(Keys(C)) /\ w.rest \in Seq(C)
    /\ text = FlattenSeq(w.path) \o w.rest
    /\ w.rest # <<>> => w.rest \in Keys(C) /\ Append(w.path, w.rest) \notin Nodes(t)
    /\ \E i \in 1..(Len(text) + 1) : w.rest = SubSeq(text, i, Len(text))

(* The way down a tree ends where the text has no node of its own behind   *)
(* the last one: what is left of it can be a new node.                     *)
LEMMA WalkIs ==
    ASSUME NEW C, NEW t, Shaped(t, C), NEW text \in Seq(C)
    PROVE  WayDown(t, C, text, Walk(t, text))
  <1> DEFINE ways == {p \in Nodes(t) : IsPrefix(FlattenSeq(p), text) /\ Greedy(t, p, text)} \cup {<<>>}
             Longest(p) == \A q \in ways : Len(q) <= Len(p)
             path == CHOOSE p \in ways : Longest(p)
             rest == SubSeq(text, Len(FlattenSeq(path)) + 1, Len(text))
             w == Walk(t, text)
  <1>1. w = [path |-> path, rest |-> rest]
    BY DEF Walk
  <1>2. \A p \in ways : p \in Seq(Keys(C)) /\ IsPrefix(FlattenSeq(p), text)
    <2>1. <<>> \in Seq(Keys(C)) /\ IsPrefix(FlattenSeq(<<>>), text)
      BY FlattenEmpty, PrefixRest
    <2> QED
      BY <2>1 DEF Shaped
  <1>3. \A p \in ways : Len(p) \in Nat /\ Len(p) <= Len(text)
    <2> SUFFICES ASSUME NEW p \in ways PROVE Len(p) \in Nat /\ Len(p) <= Len(text)
      OBVIOUS
    <2>1. p \in Seq(Keys(C)) /\ IsPrefix(FlattenSeq(p), text)
      BY <1>2
    <2>2. FlattenSeq(p) \in Seq(C) /\ Len(p) <= Len(FlattenSeq(p))
      BY <2>1, PathsSpell
    <2>3. Len(FlattenSeq(p)) <= Len(text)
      BY <2>1, <2>2, PrefixRest
    <2>4. Len(p) \in Nat /\ Len(FlattenSeq(p)) \in Nat /\ Len(text) \in Nat
      BY <2>1, <2>2
    <2> QED
      BY <2>2, <2>3, <2>4
  <1>4. <<>> \in ways
    OBVIOUS
  <1> HIDE DEF ways
  <1>5. \E p \in ways : Longest(p)
    <2> DEFINE lengths == {Len(p) : p \in ways}
    <2>1. lengths \in SUBSET Nat /\ lengths # {} /\ \A n \in lengths : n <= Len(text)
      BY <1>3, <1>4
    <2>2. Len(text) \in Nat
      OBVIOUS
    <2> HIDE DEF lengths
    <2>3. PICK n \in lengths : \A m \in lengths : m <= n
      BY <2>1, <2>2, GreatestNumber
    <2>4. PICK p \in ways : n = Len(p)
      BY DEF lengths
    <2>5. \A q \in ways : Len(q) \in lengths
      BY DEF lengths
    <2> QED
      BY <2>3, <2>4, <2>5
  <1>6. path \in ways /\ Longest(path)
    BY <1>5
  <1> HIDE DEF path, Longest
  <1>7. path \in Seq(Keys(C)) /\ IsPrefix(FlattenSeq(path), text) /\ FlattenSeq(path) \in Seq(C)
    BY <1>2, <1>6, PathsSpell
  <1>8. text = FlattenSeq(path) \o rest /\ rest \in Seq(C)
    BY <1>7, PrefixRest
  <1>9. Len(FlattenSeq(path)) <= Len(text) /\ Len(FlattenSeq(path)) \in Nat
    BY <1>7, PrefixRest
  <1>10. \E i \in 1..(Len(text) + 1) : rest = SubSeq(text, i, Len(text))
    <2>1. Len(FlattenSeq(path)) + 1 \in 1..(Len(text) + 1)
      BY <1>9
    <2> QED
      BY <2>1
  <1> HIDE DEF rest
  <1>11. ASSUME rest # <<>>, Append(path, rest) \in Nodes(t) PROVE FALSE
    <2> DEFINE q == Append(path, rest)
               n == Len(path) + 1
    <2>1. rest \in Keys(C)
      BY <1>8, <1>11 DEF Keys
    <2>2. FlattenSeq(q) = text
      BY <1>7, <1>8, <2>1, PathsSpell
    <2>3. IsPrefix(FlattenSeq(q), text)
      BY <2>2 DEF IsPrefix
    <2>4. Len(q) = n /\ q[n] = rest /\ n \in Nat
            /\ \A i \in 1..Len(path) : SubSeq(q, 1, i - 1) = SubSeq(path, 1, i - 1) /\ q[i] = path[i]
      <3>1. path \in Seq(Keys(C)) /\ rest \in Keys(C)
        BY <1>7, <2>1
      <3>2. Len(q) = n /\ q[n] = rest /\ n \in Nat /\ \A i \in 1..Len(path) : q[i] = path[i]
        BY <3>1
      <3>3. ASSUME NEW i \in 1..Len(path) PROVE SubSeq(q, 1, i - 1) = SubSeq(path, 1, i - 1)
        <4>1. q = path \o <<rest>> /\ <<rest>> \in Seq(Keys(C))
          BY <3>1, AppendIsConcat
        <4>2. CASE i = 1
          BY <4>2, SubSeqEmpty
        <4>3. CASE i # 1
          <5>1. 1 \in 1..Len(path) /\ i - 1 \in 1..Len(path)
            BY <4>3
          <5> HIDE DEF q
          <5> QED
            BY <4>1, <5>1, <3>1, SubSeqOfConcat1
        <4> QED
          BY <4>2, <4>3
      <3> QED
        BY <3>2, <3>3
    <2>5. Front(q) = path
      BY <1>7, <2>1, FrontLast
    <2>6. Greedy(t, q, text)
      <3> SUFFICES ASSUME NEW i \in DOMAIN q, NEW o \in Nodes(t),
                          Len(o) = i, Front(o) = SubSeq(q, 1, i - 1), IsPrefix(FlattenSeq(o), text)
                   PROVE  Len(o[i]) <= Len(q[i])
        BY DEF Greedy
      <3>1. i \in 1..n
        <4>1. DOMAIN q = 1..Len(q)
          <5>1. path \in Seq(Keys(C)) /\ rest \in Keys(C)
            BY <1>7, <2>1
          <5> QED
            BY <5>1
        <4> QED
          BY <4>1, <2>4
      <3>2. CASE i = n
        <4>1. o \in Seq(Keys(C)) /\ o # <<>>
          BY DEF Shaped
        <4>2. PICK f \in Seq(Keys(C)), k \in Keys(C) : o = Append(f, k) /\ Len(f) = Len(o) - 1
          BY <4>1, LastElement
        <4>3. k = o[i]
          BY <4>2
        <4>4. FlattenSeq(o) = FlattenSeq(f) \o k /\ FlattenSeq(f) \in Seq(C)
          BY <4>2, PathsSpell
        <4>5. f = path
          <5>1. SubSeq(q, 1, i - 1) = path
            BY <2>4, <2>5, <3>2 DEF Front
          <5>2. Front(o) = f
            BY <4>2, FrontLast
          <5> QED
            BY <5>1, <5>2
        <4>6. Len(FlattenSeq(o)) = Len(FlattenSeq(path)) + Len(k) /\ FlattenSeq(o) \in Seq(C) /\ k \in Seq(C)
          BY <4>2, <4>4, <4>5 DEF Keys
        <4>7. Len(FlattenSeq(o)) <= Len(text)
          BY <4>6, PrefixRest
        <4>8. Len(text) = Len(FlattenSeq(path)) + Len(rest)
          BY <1>7, <1>8
        <4>9. Len(k) <= Len(rest)
          BY <4>6, <4>7, <4>8, <1>8, <1>9
        <4> QED
          BY <4>3, <4>9, <2>4, <3>2
      <3>3. CASE i # n
        <4>1. i \in 1..Len(path)
          BY <3>1, <3>3, <2>4
        <4>2. path \in ways /\ path # <<>>
          BY <4>1, <1>6
        <4>3. Greedy(t, path, text)
          BY <4>2 DEF ways
        <4>4. SubSeq(q, 1, i - 1) = SubSeq(path, 1, i - 1) /\ q[i] = path[i]
          BY <4>1, <2>4
        <4>5. i \in DOMAIN path
          BY <4>1, <1>7
        <4> HIDE DEF q
        <4> QED
          BY <4>3, <4>4, <4>5 DEF Greedy
      <3> QED
        BY <3>2, <3>3
    <2>7. q \in ways
      BY <1>11, <2>3, <2>6 DEF ways
    <2>8. Len(q) <= Len(path)
      BY <2>7, <1>6 DEF Longest
    <2> QED
      BY <2>4, <2>8, <1>7
  <1>12. path = <<>> \/ path \in Nodes(t)
    BY <1>6 DEF ways
  <1>13. rest # <<>> => rest \in Keys(C)
    BY <1>8 DEF Keys
  <1>14. w.path = path /\ w.rest = rest
    BY <1>1
  <1> HIDE DEF path, rest, w
  <1>15. WayDown(t, C, text, w)
    BY <1>7, <1>8, <1>10, <1>11, <1>12, <1>13, <1>14 DEF WayDown
  <1> QED
    BY <1>15 DEF w

\* Where tokens are characters, the nodes hold the texts they are for.
Spelled(t) == \A p \in Nodes(t) : t.nodes[p].tokens = Chars(Last(p))

\* A version is one there was; text that went in without one is at the top.
Versioned(t, latest) ==
    \A p \in Nodes(t) :
        /\ t.nodes[p].weight_version <= latest
        /\ IF Len(p) > 1 THEN t.nodes[p].weight_version # NoVersion ELSE t.nodes[p].tokens # <<>>

(* The nodes on the way to a node, and what they hold together.            *)
LEMMA AlongIs ==
    ASSUME NEW C, NEW t, Shaped(t, C), NEW path, path = <<>> \/ path \in Nodes(t)
    PROVE  /\ \A i \in 1..Len(path) : SubSeq(path, 1, i) \in Nodes(t)
           /\ Along(t, path, "tokens") \in Seq(Seq(C))
           /\ path = <<>> => Along(t, path, "tokens") = <<>>
           /\ \A latest : path # <<>> /\ Versioned(t, latest) => Along(t, path, "tokens") # <<>>
           /\ Spelled(t) => Along(t, path, "tokens") = Chars(FlattenSeq(path))
  <1> DEFINE K == Keys(C)
             TT == Seq(Seq(C))
             n == Len(path)
             held == [i \in 1..n |-> t.nodes[SubSeq(path, 1, i)]["tokens"]]
  <1>1. path \in Seq(K) /\ n \in Nat
    <2>1. path \in Seq(K)
      <3> HIDE DEF K
      <3>1. <<>> \in Seq(K)
        OBVIOUS
      <3>2. \A p \in Nodes(t) : p \in Seq(K)
        BY DEF Shaped, K
      <3> QED
        BY <3>1, <3>2
    <2> QED
      BY <2>1
  <1>2. ASSUME NEW m \in 1..n
        PROVE  /\ SubSeq(path, 1, m) \in Seq(K) /\ Len(SubSeq(path, 1, m)) = m
               /\ Last(SubSeq(path, 1, m)) = path[m]
               /\ m > 1 => Front(SubSeq(path, 1, m)) = SubSeq(path, 1, m - 1)
    <2> HIDE DEF K
    <2> QED
      BY <1>1, PartOf
  <1>3. \A i \in 1..n : SubSeq(path, 1, i) \in Nodes(t)
    <2> DEFINE P == {k \in Nat : k < n => SubSeq(path, 1, n - k) \in Nodes(t)}
    <2>1. 0 \in P
      <3>1. ASSUME 0 < n PROVE SubSeq(path, 1, n - 0) \in Nodes(t)
        <4>1. SubSeq(path, 1, n) = path
          BY <1>1, SubSeqFull
        <4>2. n - 0 = n /\ path # <<>>
          BY <1>1, <3>1
        <4> QED
          BY <4>1, <4>2
      <3> QED
        BY <3>1
    <2>2. ASSUME NEW k \in P PROVE k + 1 \in P
      <3>0. k \in Nat
        OBVIOUS
      <3>1. ASSUME k + 1 < n PROVE SubSeq(path, 1, n - (k + 1)) \in Nodes(t)
        <4>1. SubSeq(path, 1, n - k) \in Nodes(t) /\ n - k \in 1..n /\ n - k > 1
          BY <3>0, <3>1, <1>1
        <4>2. Front(SubSeq(path, 1, n - k)) = SubSeq(path, 1, (n - k) - 1) /\ Len(SubSeq(path, 1, n - k)) > 1
          BY <4>1, <1>2
        <4>3. (n - k) - 1 = n - (k + 1)
          BY <3>0, <1>1
        <4>4. Front(SubSeq(path, 1, n - k)) \in Nodes(t)
          BY <4>1, <4>2 DEF Shaped
        <4> QED
          BY <4>2, <4>3, <4>4
      <3> QED
        BY <3>0, <3>1
    <2>3. P = Nat
      <3> HIDE DEF P
      <3>1. P \in SUBSET Nat
        BY DEF P
      <3> QED
        BY <3>1, <2>1, <2>2, Induction
    <2>4. ASSUME NEW i \in 1..n PROVE SubSeq(path, 1, i) \in Nodes(t)
      <3>1. n - i \in Nat /\ n - i < n /\ n - (n - i) = i
        BY <1>1
      <3>2. n - i \in P
        BY <2>3, <3>1
      <3> QED
        BY <3>1, <3>2
    <2> QED
      BY <2>4
  <1>4. Along(t, path, "tokens") = FlattenSeq(held)
    BY DEF Along
  <1>5. \A i \in 1..n : t.nodes[SubSeq(path, 1, i)]["tokens"] \in TT
    BY <1>3 DEF Shaped, IsNode
  <1>6. held \in Seq(TT) /\ Len(held) = n /\ \A i \in 1..n : held[i] = t.nodes[SubSeq(path, 1, i)].tokens
    <2> HIDE DEF TT
    <2> QED
      BY <1>1, <1>5
  <1> HIDE DEF held
  <1>7. Along(t, path, "tokens") \in TT
    BY <1>4, <1>6, FlattenType
  <1>8. ASSUME path = <<>> PROVE Along(t, path, "tokens") = <<>>
    <2>1. held = <<>>
      <3>1. Len(held) = 0
        BY <1>6, <1>8
      <3> HIDE DEF TT
      <3> QED
        BY <1>6, <3>1
    <2> QED
      BY <1>4, <2>1, FlattenEmpty
  <1>9. ASSUME NEW latest, path # <<>>, Versioned(t, latest) PROVE Along(t, path, "tokens") # <<>>
    <2>1. 1 \in 1..n /\ held # <<>>
      <3>1. n # 0
        BY <1>9, <1>1
      <3> QED
        BY <3>1, <1>1, <1>6
    <2>2. held[1] # <<>>
      <3>1. SubSeq(path, 1, 1) \in Nodes(t) /\ Len(SubSeq(path, 1, 1)) = 1
        BY <2>1, <1>2, <1>3
      <3>2. t.nodes[SubSeq(path, 1, 1)].tokens # <<>>
        <4> DEFINE p == SubSeq(path, 1, 1)
        <4>1. p \in Nodes(t) /\ ~(Len(p) > 1)
          BY <3>1
        <4> HIDE DEF p
        <4>2. t.nodes[p].tokens # <<>>
          BY <4>1, <1>9 DEF Versioned
        <4> QED
          BY <4>2 DEF p
      <3> QED
        BY <3>2, <2>1, <1>6
    <2>3. held[1] \in TT
      BY <2>1, <1>5, <1>6
    <2>4. Len(held[1]) > 0
      BY <2>2, <2>3
    <2>5. Len(FlattenSeq(held)) >= Len(held[1])
      BY <2>1, <1>6, FlattenLength
    <2>6. Len(FlattenSeq(held)) \in Nat /\ Len(held[1]) \in Nat
      BY <1>4, <1>7, <2>3
    <2> QED
      BY <1>4, <2>4, <2>5, <2>6
  <1>10. ASSUME Spelled(t) PROVE Along(t, path, "tokens") = Chars(FlattenSeq(path))
    <2> DEFINE chars == [i \in 1..Len(path) |-> Chars(path[i])]
    <2>1. path \in Seq(Seq(C))
      BY <1>1, PathsSpell
    <2>2. \A i \in 1..n : held[i] = Chars(path[i])
      <3> TAKE i \in 1..n
      <3>1. SubSeq(path, 1, i) \in Nodes(t) /\ Last(SubSeq(path, 1, i)) = path[i]
        BY <1>2, <1>3
      <3>2. t.nodes[SubSeq(path, 1, i)].tokens = Chars(path[i])
        BY <3>1, <1>10 DEF Spelled
      <3> QED
        BY <3>2, <1>6
    <2>3. held = chars
      BY <2>2 DEF held
    <2>4. FlattenSeq(chars) = Chars(FlattenSeq(path))
      BY <2>1, CharsJoined
    <2> QED
      BY <1>4, <2>3, <2>4
  <1> QED
    BY <1>3, <1>7, <1>8, <1>9, <1>10

\* The counters agree with what is in the tree.
Sizes(t) == [p \in Nodes(t) |-> Len(t.nodes[p].tokens)]

CountersAgree(t) == t.cur_cache_size = SumAll(Sizes(t)) /\ t.total_entries = Cardinality(Nodes(t))

(* Sizes are natural numbers, and so are their sums integers.              *)
LEMMA SizesTyped ==
    ASSUME NEW C, NEW t, Shaped(t, C)
    PROVE  /\ Sizes(t) \in [Nodes(t) -> Int] /\ SumAll(Sizes(t)) \in Int
           /\ IsFiniteSet(Nodes(t)) /\ Cardinality(Nodes(t)) \in Nat
  <1>1. \A p \in Nodes(t) : Len(t.nodes[p].tokens) \in Int
    <2> TAKE p \in Nodes(t)
    <2>1. t.nodes[p].tokens \in Seq(Seq(C))
      BY DEF Shaped, IsNode
    <2> QED
      BY <2>1
  <1>2. Sizes(t) \in [Nodes(t) -> Int]
    BY <1>1 DEF Sizes
  <1>3. IsFiniteSet(Nodes(t))
    BY DEF Shaped
  <1> QED
    BY <1>2, <1>3, SumIs, FS_CardinalityType

(* A node is what it is made of.                                           *)
LEMMA NodeIs ==
    ASSUME NEW C, NEW x \in Seq(Seq(C)), NEW y, NEW v \in Int, NEW d
    PROVE  IsNode(Node(x, y, v, d), C) /\ Node(x, y, v, d).tokens = x /\ Node(x, y, v, d).weight_version = v
  BY DEF Node, IsNode

\* What an insertion makes of a tree.
Inserts(t, u, C, text, tokens, version) ==
    /\ Shaped(u, C) /\ Nodes(t) \subseteq Nodes(u)
    /\ \A p \in Nodes(t) : u.nodes[p].weight_version = t.nodes[p].weight_version
    /\ CountersAgree(t) => CountersAgree(u)
    /\ Spelled(t) /\ tokens = Chars(text) => Spelled(u)
    /\ \A latest :
          /\ Versioned(t, latest) /\ version <= latest
          /\ version = NoVersion => find_longest_prefix(t, text).tokens = <<>>
          => Versioned(u, latest)

(* Inserting takes no node away, and keeps the tree in shape.              *)
LEMMA InsertIs ==
    ASSUME NEW C, NEW t, Shaped(t, C), NEW text \in Seq(C), NEW tokens \in Seq(Seq(C)), NEW mask,
           text # <<>>, tokens # <<>>, NEW version \in Int, NEW u, u = _insert(t, text, tokens, mask, version)
    PROVE  Inserts(t, u, C, text, tokens, version)
  <1> DEFINE w == Walk(t, text)
             skip == Len(Along(t, w.path, "tokens"))
             behind == SubSeq(tokens, skip + 1, Len(tokens))
             behindMask == SubSeq(mask, skip + 1, Len(mask))
             new == Append(w.path, w.rest)
             N == Nodes(t)
  <1>1. /\ w.path = <<>> \/ w.path \in Nodes(t)
        /\ w.path \in Seq(Keys(C)) /\ w.rest \in Seq(C)
        /\ text = FlattenSeq(w.path) \o w.rest
        /\ w.rest # <<>> => w.rest \in Keys(C) /\ new \notin Nodes(t)
    <2>1. WayDown(t, C, text, w)
      BY WalkIs
    <2> HIDE DEF w
    <2> QED
      BY <2>1 DEF WayDown
  <1>2. /\ Along(t, w.path, "tokens") \in Seq(Seq(C))
        /\ w.path = <<>> => Along(t, w.path, "tokens") = <<>>
        /\ \A latest : w.path # <<>> /\ Versioned(t, latest) => Along(t, w.path, "tokens") # <<>>
        /\ Spelled(t) => Along(t, w.path, "tokens") = Chars(FlattenSeq(w.path))
    <2> HIDE DEF w
    <2> QED
      BY <1>1, AlongIs
  <1>3. find_longest_prefix(t, text).tokens = Along(t, w.path, "tokens")
    BY DEF find_longest_prefix
  <1>4. /\ behind \in Seq(Seq(C)) /\ skip \in Nat
        /\ w.path = <<>> => behind # <<>>
        /\ Spelled(t) /\ tokens = Chars(text) => behind = Chars(w.rest)
    <2> HIDE DEF w
    <2>1. skip \in Nat
      BY <1>2
    <2>2. behind \in Seq(Seq(C))
      <3> DEFINE TT == Seq(C)
      <3>1. tokens \in Seq(TT)
        OBVIOUS
      <3> HIDE DEF TT, skip
      <3>2. behind \in Seq(TT)
        BY <2>1, <3>1
      <3> QED
        BY <3>2 DEF TT
    <2>3. ASSUME w.path = <<>> PROVE behind # <<>>
      <3>1. skip = 0
        BY <1>2, <2>3
      <3>2. behind = tokens
        BY <3>1, SubSeqFull
      <3> QED
        BY <3>2
    <2>4. ASSUME Spelled(t), tokens = Chars(text) PROVE behind = Chars(w.rest)
      <3> DEFINE a == Chars(FlattenSeq(w.path))
                 b == Chars(w.rest)
                 TT == Seq(C)
      <3>1. FlattenSeq(w.path) \in Seq(C)
        BY <1>1, PathsSpell
      <3>2. tokens = a \o b /\ a \in Seq(TT) /\ b \in Seq(TT)
        <4> DEFINE f == FlattenSeq(w.path)
                   d == w.rest
        <4>1. f \in Seq(C) /\ d \in Seq(C) /\ text = f \o d
          BY <1>1, <3>1
        <4> HIDE DEF f, d
        <4>2. Chars(f \o d) = Chars(f) \o Chars(d) /\ Chars(f) \in Seq(TT) /\ Chars(d) \in Seq(TT)
          BY <4>1, CharsOf
        <4> QED
          BY <2>4, <4>1, <4>2 DEF f, d
      <3>3. skip = Len(a)
        BY <1>2, <2>4
      <3> HIDE DEF a, b, skip, TT
      <3>4. Len(tokens) = Len(a) + Len(b) /\ Len(a) \in Nat /\ Len(b) \in Nat
              /\ \A i \in 1..Len(b) : tokens[Len(a) + i] = b[i]
        BY <3>2
      <3>5. SubSeq(tokens, Len(a) + 1, Len(tokens)) = b
        <4> DEFINE z == SubSeq(tokens, Len(a) + 1, Len(tokens))
        <4>1. tokens \in Seq(TT)
          BY <3>2
        <4>2. z \in Seq(TT) /\ Len(z) = Len(b) /\ \A i \in 1..Len(b) : z[i] = tokens[Len(a) + i]
          <5> DEFINE m == Len(a) + 1
                     k == Len(tokens)
          <5>1. m \in 1..(k + 1) /\ k = Len(tokens) /\ k - m + 1 = Len(b)
                /\ \A i \in 1..Len(b) : m + i - 1 = Len(a) + i /\ m + i - 1 \in 1..k
            BY <3>4
          <5> HIDE DEF m, k
          <5>2. \A i \in 1..Len(b) : tokens[m + i - 1] \in TT
            <6>1. \A j \in 1..Len(tokens) : tokens[j] \in TT
              BY <4>1
            <6> QED
              BY <5>1, <6>1
          <5>3. /\ SubSeq(tokens, m, k) \in Seq(TT) /\ Len(SubSeq(tokens, m, k)) = Len(b)
                /\ \A i \in 1..Len(b) : SubSeq(tokens, m, k)[i] = tokens[m + i - 1]
            BY <3>4, <4>1, <5>1, <5>2
          <5> QED
            BY <5>1, <5>3 DEF m, k
        <4> HIDE DEF z
        <4>3. z = b
          BY <3>2, <3>4, <4>2, SeqEqual
        <4> QED
          BY <4>3 DEF z
      <3> QED
        BY <3>3, <3>5 DEF b
    <2> QED
      BY <2>1, <2>2, <2>3, <2>4
  <1> HIDE DEF behind, behindMask
  <1>10. CASE w.rest # <<>>
    <2>1. /\ new \in Seq(Keys(C)) /\ new # <<>> /\ Front(new) = w.path /\ Last(new) = w.rest
          /\ Len(new) = Len(w.path) + 1 /\ Len(w.path) \in Nat /\ new \notin N
      <3> HIDE DEF w
      <3>1. w.path \in Seq(Keys(C)) /\ w.rest \in Keys(C) /\ new \notin N
        BY <1>1, <1>10
      <3> DEFINE f == w.path
                 k == w.rest
      <3>2. f \in Seq(Keys(C)) /\ k \in Keys(C)
        BY <3>1
      <3> HIDE DEF f, k
      <3>3. /\ Append(f, k) \in Seq(Keys(C)) /\ Append(f, k) # <<>>
            /\ Front(Append(f, k)) = f /\ Last(Append(f, k)) = k
            /\ Len(Append(f, k)) = Len(f) + 1 /\ Len(f) \in Nat
        BY <3>2, FrontLast
      <3> QED
        BY <3>1, <3>3 DEF f, k
    <2> DEFINE node == Node(behind, behindMask, version, t.born)
    <2>2. u = [nodes |-> [p \in N \cup {new} |-> IF p = new THEN node ELSE t.nodes[p]],
               cur_cache_size |-> t.cur_cache_size + Len(behind),
               total_entries |-> t.total_entries + 1, born |-> t.born + 1]
      <3> HIDE DEF w
      <3> QED
        BY <1>10 DEF _insert, w, behind, behindMask
    <2>3. IsNode(node, C) /\ node.tokens = behind /\ node.weight_version = version
      BY <1>4 DEF IsNode, Node
    <2> HIDE DEF w, new, node, N, skip
    <2>4. /\ Nodes(u) = N \cup {new} /\ u.nodes[new] = node /\ \A p \in N : u.nodes[p] = t.nodes[p]
          /\ u.cur_cache_size = t.cur_cache_size + Len(behind) /\ u.total_entries = t.total_entries + 1
      BY <2>1, <2>2 DEF Nodes
    <2>40. IsFiniteSet(N) /\ IsFiniteSet(N \cup {new}) /\ Cardinality(N \cup {new}) = Cardinality(N) + 1
      <3>1. IsFiniteSet(N)
        BY DEF Shaped, N
      <3> QED
        BY <3>1, <2>1, FS_AddElement
    <2>5. Shaped(u, C)
      <3>1. u = [nodes |-> u.nodes, cur_cache_size |-> u.cur_cache_size,
                 total_entries |-> u.total_entries, born |-> u.born]
        BY <2>2
      <3>2. u.nodes = [p \in Nodes(u) |-> u.nodes[p]]
        BY <2>2 DEF Nodes
      <3>3. IsFiniteSet(Nodes(u))
        BY <2>4, <2>40
      <3>4. ASSUME NEW p \in Nodes(u)
            PROVE  /\ p \in Seq(Keys(C)) /\ p # <<>> /\ IsNode(u.nodes[p], C)
                   /\ Len(p) > 1 => Front(p) \in Nodes(u)
        <4>1. CASE p = new
          <5>1. Len(p) > 1 => w.path # <<>>
            BY <4>1, <2>1
          <5> QED
            BY <4>1, <5>1, <2>1, <2>3, <2>4, <1>1 DEF N
        <4>2. CASE p \in N
          BY <4>2, <2>4 DEF Shaped, N
        <4> QED
          BY <4>1, <4>2, <2>4
      <3> QED
        BY <3>1, <3>2, <3>3, <3>4 DEF Shaped
    <2>6. ASSUME CountersAgree(t) PROVE CountersAgree(u)
      <3>1. Sizes(u) \in [Nodes(u) -> Int] /\ IsFiniteSet(Nodes(u))
        BY <2>5, SizesTyped
      <3>2. SumAll(Sizes(u)) = Sizes(u)[new] + SumAll(On(Sizes(u), Nodes(u) \ {new}))
        <4> DEFINE M == Nodes(u)
                   g == Sizes(u)
        <4>1. g \in [M -> Int] /\ IsFiniteSet(M) /\ new \in M
          BY <3>1, <2>4
        <4> HIDE DEF M, g
        <4>2. SumAll(g) = g[new] + SumAll(On(g, M \ {new}))
          BY <4>1, SumTake
        <4> QED
          BY <4>2 DEF M, g
      <3>3. On(Sizes(u), Nodes(u) \ {new}) = Sizes(t) /\ Sizes(u)[new] = Len(behind)
        BY <2>1, <2>3, <2>4 DEF On, Sizes, N
      <3>4. SumAll(Sizes(t)) \in Int /\ Len(behind) \in Nat
        BY <1>4, SizesTyped
      <3>5. Cardinality(Nodes(u)) = Cardinality(N) + 1
        BY <2>4, <2>40
      <3> QED
        BY <2>4, <2>6, <3>2, <3>3, <3>4, <3>5 DEF CountersAgree, N
    <2>7. ASSUME Spelled(t), tokens = Chars(text) PROVE Spelled(u)
      BY <2>1, <2>3, <2>4, <2>7, <1>4 DEF Spelled, N
    <2>8. ASSUME NEW latest, Versioned(t, latest), version <= latest,
                 version = NoVersion => find_longest_prefix(t, text).tokens = <<>>
          PROVE  Versioned(u, latest)
      <3> SUFFICES ASSUME NEW p \in Nodes(u)
                   PROVE  /\ u.nodes[p].weight_version <= latest
                          /\ IF Len(p) > 1 THEN u.nodes[p].weight_version # NoVersion
                             ELSE u.nodes[p].tokens # <<>>
        BY DEF Versioned
      <3>1. CASE p \in N
        BY <3>1, <2>4, <2>8 DEF Versioned, N
      <3>2. CASE p = new
        <4>1. u.nodes[p].weight_version = version /\ u.nodes[p].tokens = behind
          BY <3>2, <2>3, <2>4
        <4>2. CASE Len(p) > 1
          <5>1. w.path # <<>>
            BY <4>2, <3>2, <2>1
          <5>2. version # NoVersion
            BY <5>1, <2>8, <1>2, <1>3
          <5> QED
            BY <4>1, <4>2, <5>2, <2>8
        <4>3. CASE ~(Len(p) > 1)
          <5>1. w.path = <<>>
            <6>1. Len(w.path) = 0
              BY <4>3, <3>2, <2>1
            <6> QED
              BY <6>1, <1>1
          <5>2. behind # <<>>
            BY <5>1, <1>4
          <5> QED
            BY <4>1, <4>3, <5>2, <2>8
        <4> QED
          BY <4>2, <4>3
      <3> QED
        BY <3>1, <3>2, <2>4
    <2> QED
      BY <2>4, <2>5, <2>6, <2>7, <2>8 DEF N, Inserts
  <1>20. CASE w.rest = <<>>
    <2> DEFINE path == w.path
               old == t.nodes[path]
               taken == old.tokens = <<>>
               node == Node(behind, behindMask, old.weight_version, old.born)
    <2>1. path \in N /\ path # <<>>
      <3>1. w.path # <<>>
        <4>1. ASSUME w.path = <<>> PROVE FALSE
          <5>1. text = <<>> \o <<>>
            BY <4>1, <1>1, <1>20, FlattenEmpty
          <5>2. <<>> \o <<>> = <<>>
            OBVIOUS
          <5> QED
            BY <5>1, <5>2
        <4> QED
          BY <4>1
      <3> QED
        BY <1>1, <3>1
    <2>2. u = [nodes |-> [p \in N \cup {path} |-> IF p = path /\ taken THEN node ELSE t.nodes[p]],
               cur_cache_size |-> t.cur_cache_size + (IF taken THEN Len(behind) ELSE 0),
               total_entries |-> t.total_entries + 0, born |-> t.born + 0]
      <3> HIDE DEF w
      <3> QED
        BY <1>20 DEF _insert, Filled, w, behind, behindMask
    <2>3. IsNode(old, C)
      BY <2>1 DEF Shaped, N
    <2>4. IsNode(node, C) /\ node.tokens = behind /\ node.weight_version = old.weight_version
      <3>1. old.weight_version \in Int
        BY <2>3 DEF IsNode
      <3> HIDE DEF w, old
      <3> QED
        BY <1>4, <3>1, NodeIs
    <2> HIDE DEF w, new, node, N, skip, path
    <2>5. /\ Nodes(u) = N
          /\ \A p \in N : u.nodes[p] = IF p = path /\ taken THEN node ELSE t.nodes[p]
          /\ u.cur_cache_size = t.cur_cache_size + (IF taken THEN Len(behind) ELSE 0)
          /\ u.total_entries = t.total_entries + 0
      BY <2>1, <2>2 DEF Nodes
    <2>6. Shaped(u, C)
      <3>1. u = [nodes |-> u.nodes, cur_cache_size |-> u.cur_cache_size,
                 total_entries |-> u.total_entries, born |-> u.born]
        BY <2>2
      <3>2. u.nodes = [p \in Nodes(u) |-> u.nodes[p]]
        BY <2>2 DEF Nodes
      <3>3. \A p \in N : IsNode(u.nodes[p], C)
        BY <2>4, <2>5 DEF Shaped, N
      <3> QED
        BY <3>1, <3>2, <3>3, <2>5 DEF Shaped, N
    <2>7. ASSUME CountersAgree(t) PROVE CountersAgree(u)
      <3>1. /\ Sizes(u) \in [N -> Int] /\ IsFiniteSet(N) /\ Sizes(t) \in [N -> Int]
            /\ t.cur_cache_size = SumAll(Sizes(t)) /\ t.total_entries = Cardinality(N)
            /\ Cardinality(N) \in Nat
        BY <2>5, <2>6, <2>7, SizesTyped DEF N, CountersAgree
      <3>2. CASE taken
        <4>1. /\ SumAll(Sizes(u)) = Sizes(u)[path] + SumAll(On(Sizes(u), N \ {path}))
              /\ SumAll(Sizes(t)) = Sizes(t)[path] + SumAll(On(Sizes(t), N \ {path}))
          BY <2>1, <3>1, SumTake
        <4>2. On(Sizes(u), N \ {path}) = On(Sizes(t), N \ {path})
          BY <2>5 DEF On, Sizes, N
        <4>3. Sizes(u)[path] = Len(behind) /\ Sizes(t)[path] = 0
          BY <2>1, <2>4, <2>5, <3>2 DEF Sizes, N
        <4>4. SumAll(Sizes(t)) \in Int /\ Len(behind) \in Nat
          BY <1>4, SizesTyped
        <4>5. SumAll(On(Sizes(t), N \ {path})) \in Int
          <5>1. On(Sizes(t), N \ {path}) \in [N \ {path} -> Int] /\ IsFiniteSet(N \ {path})
            BY <3>1, FS_RemoveElement DEF On
          <5> QED
            BY <5>1, SumIs
        <4>6. u.cur_cache_size = SumAll(Sizes(u))
          BY <2>5, <3>1, <3>2, <4>1, <4>2, <4>3, <4>4, <4>5
        <4> QED
          BY <4>6, <2>5, <3>1 DEF CountersAgree
      <3>3. CASE ~taken
        <4>1. Sizes(u) = Sizes(t)
          BY <2>5, <3>3 DEF Sizes, N
        <4>2. SumAll(Sizes(t)) \in Int
          BY SizesTyped
        <4> QED
          BY <4>1, <4>2, <2>5, <3>1, <3>3 DEF CountersAgree
      <3> QED
        BY <3>2, <3>3
    <2>8. ASSUME Spelled(t) PROVE Spelled(u)
      <3>1. ~taken
        <4>1. old.tokens = Chars(Last(path))
          BY <2>1, <2>8 DEF Spelled, N
        <4>2. path \in Seq(Keys(C)) /\ path # <<>>
          BY <2>1 DEF Shaped, N
        <4>3. Last(path) \in Keys(C)
          BY <4>2 DEF Last
        <4>4. Chars(Last(path)) # <<>>
          BY <4>3, CharsOf DEF Keys
        <4> QED
          BY <4>1, <4>4
      <3> QED
        BY <3>1, <2>5, <2>8 DEF Spelled, N
    <2>9. ASSUME NEW latest, Versioned(t, latest) PROVE Versioned(u, latest)
      <3>1. taken => Len(path) > 1
        BY <2>1, <2>9 DEF Versioned, N
      <3> QED
        BY <3>1, <2>1, <2>4, <2>5, <2>9 DEF Versioned, N
    <2>10. \A p \in N : u.nodes[p].weight_version = t.nodes[p].weight_version
      BY <2>4, <2>5
    <2> QED
      BY <2>5, <2>6, <2>7, <2>8, <2>9, <2>10 DEF N, Inserts
  <1> QED
    BY <1>10, <1>20

(* What the nodes of a part of the tree hold is the sum of their sizes.    *)
LEMMA SizeOfPart ==
    ASSUME NEW C, NEW t, Shaped(t, C), NEW A \in SUBSET Nodes(t)
    PROVE  /\ MapThenSumSet(LAMBDA p : Len(t.nodes[p].tokens), A) = SumAll(On(Sizes(t), A))
           /\ IsFiniteSet(A) /\ On(Sizes(t), A) \in [A -> Int]
  <1> DEFINE g == On(Sizes(t), A)
             Adds(it) == it = [s \in SUBSET A |-> IF s = {} THEN 0
                                   ELSE LET x == CHOOSE x \in s : TRUE
                                        IN  Len(t.nodes[x].tokens) + it[s \ {x}]]
             jt == CHOOSE it : Adds(it)
  <1>1. IsFiniteSet(A) /\ g \in [A -> Int]
    BY SizesTyped, FS_Subset DEF On
  <1>2. \A x \in A : g[x] = Len(t.nodes[x].tokens)
    BY DEF On, Sizes
  <1> HIDE DEF g
  <1>3. \A it : Adds(it) <=> Sums(it, A, g)
    <2> DEFINE one(s) == CHOOSE x \in s : TRUE
    <2>1. \A s \in SUBSET A : s # {} => one(s) \in A
      OBVIOUS
    <2> HIDE DEF one
    <2> TAKE it
    <2>2. [s \in SUBSET A |-> IF s = {} THEN 0 ELSE Len(t.nodes[one(s)].tokens) + it[s \ {one(s)}]]
              = [s \in SUBSET A |-> IF s = {} THEN 0 ELSE g[one(s)] + it[s \ {one(s)}]]
      BY <1>2, <2>1
    <2> QED
      BY <2>2 DEF Sums, one
  <1>4. PICK it : Sums(it, A, g)
    BY <1>1, SumsExist
  <1>5. MapThenSumSet(LAMBDA p : Len(t.nodes[p].tokens), A) = jt[A]
    BY DEF MapThenSumSet, MapThenFoldSet
  <1>6. Adds(jt)
    <2>1. Adds(it)
      BY <1>3, <1>4
    <2> HIDE DEF Adds
    <2> QED
      BY <2>1
  <1> HIDE DEF jt, Adds
  <1>7. jt[A] = SumAll(g)
    BY <1>1, <1>3, <1>6, SumIs
  <1> QED
    BY <1>1, <1>5, <1>7 DEF g

\* What is below some nodes.
Gone(t, tops) == UNION {Subtree(t, p) : p \in tops}

(* Removing nodes with what is below them keeps the tree in shape.         *)
LEMMA CleanIs ==
    ASSUME NEW C, NEW t, Shaped(t, C), NEW tops \in SUBSET Nodes(t), NEW u, u = _clean_node_subtree(t, tops)
    PROVE  /\ Nodes(u) = Nodes(t) \ Gone(t, tops) /\ Shaped(u, C)
           /\ CountersAgree(t) => CountersAgree(u)
           /\ Spelled(t) => Spelled(u)
           /\ \A latest : Versioned(t, latest) => Versioned(u, latest)
  <1> DEFINE gone == Gone(t, tops)
             N == Nodes(t)
             M == N \ gone
  <1>1. gone \in SUBSET N
    BY DEF Gone, Subtree
  <1>2. u = [nodes |-> [p \in M |-> t.nodes[p]],
             cur_cache_size |-> t.cur_cache_size - SumAll(On(Sizes(t), gone)),
             total_entries |-> t.total_entries - Cardinality(gone), born |-> t.born]
    <2>1. MapThenSumSet(LAMBDA p : Len(t.nodes[p].tokens), gone) = SumAll(On(Sizes(t), gone))
      BY <1>1, SizeOfPart
    <2> QED
      BY <2>1 DEF _clean_node_subtree, Gone, Restrict
  <1>3. /\ Nodes(u) = M /\ \A p \in M : u.nodes[p] = t.nodes[p]
        /\ u.cur_cache_size = t.cur_cache_size - SumAll(On(Sizes(t), gone))
        /\ u.total_entries = t.total_entries - Cardinality(gone)
    BY <1>2 DEF Nodes
  <1>4. ASSUME NEW p \in M, Len(p) > 1 PROVE Front(p) \in M
    <2>1. Front(p) \in N /\ p \in Seq(Keys(C))
      BY <1>4 DEF Shaped
    <2>2. ASSUME Front(p) \in gone PROVE FALSE
      <3>1. PICK q \in tops : IsPrefix(q, Front(p))
        BY <2>2 DEF Gone, Subtree
      <3>2. q \in Seq(Keys(C)) /\ Len(p) - 1 \in 1..Len(p) /\ Front(p) = SubSeq(p, 1, Len(p) - 1)
        BY <1>4, <2>1 DEF Shaped, Front
      <3>3. IsPrefix(q, p)
        <4> DEFINE K == Keys(C)
                   m == Len(p) - 1
        <4>1. p \in Seq(K) /\ q \in Seq(K) /\ m \in 1..Len(p) /\ IsPrefix(q, SubSeq(p, 1, m))
          BY <2>1, <3>1, <3>2
        <4> HIDE DEF K, m
        <4> QED
          BY <4>1, PartOf
      <3> QED
        BY <3>3 DEF Gone, Subtree
    <2> QED
      BY <2>1, <2>2
  <1> HIDE DEF gone
  <1>5. Shaped(u, C)
    <2>1. u = [nodes |-> u.nodes, cur_cache_size |-> u.cur_cache_size,
               total_entries |-> u.total_entries, born |-> u.born]
      BY <1>2
    <2>2. u.nodes = [p \in Nodes(u) |-> u.nodes[p]]
      BY <1>2 DEF Nodes
    <2>3. IsFiniteSet(Nodes(u))
      BY <1>3, FS_Subset DEF Shaped
    <2>4. \A p \in Nodes(u) : /\ p \in Seq(Keys(C)) /\ p # <<>> /\ IsNode(u.nodes[p], C)
                              /\ Len(p) > 1 => Front(p) \in Nodes(u)
      BY <1>3, <1>4 DEF Shaped
    <2> QED
      BY <2>1, <2>2, <2>3, <2>4 DEF Shaped
  <1>6. ASSUME CountersAgree(t) PROVE CountersAgree(u)
    <2> DEFINE g == Sizes(t)
    <2>1. g \in [N -> Int] /\ IsFiniteSet(N) /\ Cardinality(N) \in Nat
      BY SizesTyped
    <2>2. t.cur_cache_size = SumAll(g) /\ t.total_entries = Cardinality(N)
      BY <1>6 DEF CountersAgree
    <2>3. Sizes(u) = On(g, M)
      BY <1>3 DEF Sizes, On
    <2>4. SumAll(On(g, gone)) \in Int /\ SumAll(On(g, M)) \in Int
      <3>1. M \in SUBSET N
        OBVIOUS
      <3> HIDE DEF M
      <3>2. \A A \in SUBSET N : SumAll(On(g, A)) \in Int
        BY SizeOfPart, SumIs
      <3> QED
        BY <1>1, <3>1, <3>2
    <2> HIDE DEF g
    <2>5. SumAll(g) = SumAll(On(g, gone)) + SumAll(On(g, M))
      BY <1>1, <2>1, SumSplit
    <2>6. Cardinality(M) = Cardinality(N) - Cardinality(gone)
      <3>1. N \cap gone = gone
        BY <1>1
      <3> HIDE DEF N
      <3>2. Cardinality(N \ gone) = Cardinality(N) - Cardinality(N \cap gone)
        BY <2>1, FS_Difference
      <3> QED
        BY <3>1, <3>2
    <2> QED
      BY <1>3, <2>2, <2>3, <2>4, <2>5, <2>6 DEF CountersAgree, g
  <1>7. Spelled(t) => Spelled(u)
    BY <1>3 DEF Spelled
  <1>8. \A latest : Versioned(t, latest) => Versioned(u, latest)
    BY <1>3 DEF Versioned
  <1> QED
    BY <1>3, <1>5, <1>6, <1>7, <1>8 DEF gone

(* A collection takes away only what is not newer than the threshold:      *)
(* below a node whose versions have been validated no version is newer.    *)
LEMMA GcIs ==
    ASSUME NEW C, NEW t, Shaped(t, C), NEW threshold \in Int, NEW u, u = gc_by_weight_version(t, threshold),
           NEW latest, Versioned(t, latest)
    PROVE  /\ Shaped(u, C) /\ Versioned(u, latest)
           /\ CountersAgree(t) => CountersAgree(u)
           /\ Spelled(t) => Spelled(u)
           /\ Nodes(u) \subseteq Nodes(t)
           /\ \A p \in Nodes(t) \ Nodes(u) : t.nodes[p].weight_version <= threshold
  <1> DEFINE outdated == _find_outdated_nodes(t, threshold)
             failing == {p \in outdated : ~_validate_subtree_weight_versions(t, p)}
             tops == {p \in outdated : \A q \in failing : Before(t, p, q)}
  <1>1. u = _clean_node_subtree(t, tops) /\ tops \in SUBSET Nodes(t)
    BY DEF gc_by_weight_version, _find_outdated_nodes
  <1>2. ASSUME NEW top \in tops, NEW p \in Nodes(t), IsPrefix(top, p)
        PROVE  t.nodes[p].weight_version <= threshold
    <2>1. Outdated(t, top, threshold) /\ top \in Nodes(t)
      BY DEF _find_outdated_nodes
    <2>2. _validate_subtree_weight_versions(t, top)
      BY DEF Before
    <2> HIDE DEF tops
    <2> DEFINE K == Keys(C)
               n == Len(p)
               m == Len(top)
               part(i) == SubSeq(p, 1, i)
               Old(q) == t.nodes[q].weight_version # NoVersion /\ t.nodes[q].weight_version <= threshold
    <2>3. top \in Seq(K) /\ top # <<>> /\ p \in Seq(K)
      BY <2>1 DEF Shaped
    <2>4. m \in 1..n /\ n \in Nat
      <3> HIDE DEF K
      <3>1. Len(top) <= Len(p)
        BY <1>2, <2>3, PrefixRest
      <3> QED
        BY <2>3, <3>1
    <2>5. \A i \in 1..n : part(i) \in Nodes(t)
      BY AlongIs
    <2>6. ASSUME NEW i \in m..n
          PROVE  /\ Len(part(i)) = i /\ IsPrefix(top, part(i))
                 /\ i = m => part(i) = top
                 /\ i > 1 => Front(part(i)) = part(i - 1)
      <3> HIDE DEF K
      <3>1. i \in 1..Len(p) /\ Len(top) <= i
        BY <2>4
      <3> QED
        BY <1>2, <2>3, <3>1, PartOf
    <2> HIDE DEF part, K
    <2> DEFINE P == {k \in Nat : m + k <= n => Old(part(m + k))}
    <2>7. 0 \in P
      <3>1. m \in m..n /\ m + 0 = m
        BY <2>4
      <3>2. part(m) = top
        BY <2>6, <3>1
      <3> QED
        BY <3>1, <3>2, <2>1 DEF Outdated
    <2>8. ASSUME NEW k \in P PROVE k + 1 \in P
      <3>0. k \in Nat
        OBVIOUS
      <3>1. ASSUME m + (k + 1) <= n PROVE Old(part(m + (k + 1)))
        <4> DEFINE i == m + (k + 1)
        <4>1. i \in m..n /\ i \in 1..n /\ i > 1 /\ i # m
                /\ i - 1 = m + k /\ m + k <= n /\ i - 1 \in 1..n /\ i - 1 \in m..n
          BY <2>4, <3>0, <3>1
        <4> HIDE DEF i
        <4>2. Old(part(i - 1))
          BY <4>1
        <4>3. part(i) \in Nodes(t) /\ Len(part(i)) > 1 /\ IsPrefix(top, part(i))
                /\ Front(part(i)) = part(i - 1)
          BY <4>1, <2>5, <2>6
        <4>4. t.nodes[part(i)].weight_version # NoVersion
          BY <4>3 DEF Versioned
        <4>5. part(i) # top
          BY <4>1, <2>6
        <4>6. t.nodes[part(i)].weight_version <= t.nodes[part(i - 1)].weight_version
          BY <2>2, <4>2, <4>3, <4>4, <4>5 DEF _validate_subtree_weight_versions, Subtree
        <4>7. t.nodes[part(i)].weight_version \in Int /\ t.nodes[part(i - 1)].weight_version \in Int
          BY <4>1, <2>5 DEF Shaped, IsNode
        <4> QED
          BY <4>2, <4>4, <4>6, <4>7 DEF i
      <3> QED
        BY <3>0, <3>1
    <2>9. P = Nat
      <3> HIDE DEF P
      <3>1. P \in SUBSET Nat
        BY DEF P
      <3> QED
        BY <3>1, <2>7, <2>8, Induction
    <2>10. n - m \in Nat /\ m + (n - m) = n
      BY <2>4
    <2>11. Old(part(n))
      <3>1. n - m \in P
        BY <2>9, <2>10
      <3> QED
        BY <3>1, <2>10, <2>4
    <2>12. part(n) = p
      BY <2>3, SubSeqFull DEF part
    <2> QED
      BY <2>11, <2>12
  <1> HIDE DEF tops
  <1>3. /\ Nodes(u) = Nodes(t) \ Gone(t, tops) /\ Shaped(u, C)
        /\ CountersAgree(t) => CountersAgree(u)
        /\ Spelled(t) => Spelled(u)
        /\ Versioned(u, latest)
    BY <1>1, CleanIs
  <1>4. \A p \in Nodes(t) \ Nodes(u) : \E top \in tops : IsPrefix(top, p)
    BY <1>3 DEF Gone, Subtree
  <1>5. \A p \in Nodes(t) \ Nodes(u) : t.nodes[p].weight_version <= threshold
    BY <1>2, <1>4
  <1> QED
    BY <1>3, <1>5

(***************************************************************************)
(* The operations of the cache.                                            *)
(***************************************************************************)
\* What an operation keeps of a tree.
Keeps(t, u, C, latest) ==
    /\ Shaped(u, C) /\ Versioned(u, latest)
    /\ CountersAgree(t) => CountersAgree(u)

(* An insertion, and the collection it may start.                          *)
LEMMA InsertKeeps ==
    ASSUME NEW C, NEW t, Shaped(t, C), NEW text \in Seq(C), NEW tokens \in Seq(Seq(C)), NEW mask,
           NEW version \in Int, NEW limits, limits.gc_threshold_k \in Nat,
           NEW latest \in Int, Versioned(t, latest), version <= latest,
           text # <<>> /\ version = NoVersion => find_longest_prefix(t, text).tokens = <<>>,
           NEW u, u = insert(t, text, tokens, mask, version, limits)
    PROVE  /\ Keeps(t, u, C, latest)
           /\ Spelled(t) /\ tokens = Chars(text) => Spelled(u)
           /\ \A p \in Nodes(t) \ Nodes(u) : t.nodes[p].weight_version <= latest - limits.gc_threshold_k
           /\ version = NoVersion => Nodes(t) \subseteq Nodes(u)
  <1> DEFINE i == _insert(t, text, tokens, mask, version)
             k == limits.gc_threshold_k
             collected == gc_by_weight_version(i, version - k)
  <1>1. CASE text = <<>> \/ tokens = <<>>
    <2>1. u = t
      BY <1>1 DEF insert
    <2> QED
      BY <2>1 DEF Keeps
  <1>2. CASE text # <<>> /\ tokens # <<>>
    <2>1. \/ u = i
          \/ u = collected /\ version # NoVersion
      BY <1>2 DEF insert
    <2>2. /\ Shaped(i, C) /\ Nodes(t) \subseteq Nodes(i)
          /\ \A p \in Nodes(t) : i.nodes[p].weight_version = t.nodes[p].weight_version
          /\ CountersAgree(t) => CountersAgree(i)
          /\ Spelled(t) /\ tokens = Chars(text) => Spelled(i)
          /\ Versioned(i, latest)
      <3>1. i = _insert(t, text, tokens, mask, version)
        OBVIOUS
      <3>2. version = NoVersion => find_longest_prefix(t, text).tokens = <<>>
        BY <1>2
      <3> HIDE DEF i
      <3>3. Inserts(t, i, C, text, tokens, version)
        BY <1>2, <3>1, InsertIs
      <3> QED
        BY <3>2, <3>3 DEF Inserts
    <2> HIDE DEF i, k
    <2>3. CASE u = i
      BY <2>2, <2>3 DEF Keeps
    <2>4. CASE u = collected /\ version # NoVersion
      <3>1. version - k \in Int /\ version - k <= latest - k /\ k \in Nat
        BY DEF k
      <3>2. /\ Shaped(collected, C) /\ Versioned(collected, latest)
            /\ CountersAgree(i) => CountersAgree(collected)
            /\ Spelled(i) => Spelled(collected)
            /\ \A p \in Nodes(i) \ Nodes(collected) : i.nodes[p].weight_version <= version - k
        <4> DEFINE threshold == version - k
        <4>1. collected = gc_by_weight_version(i, threshold) /\ threshold \in Int
          BY <3>1
        <4> HIDE DEF collected, threshold
        <4>2. /\ Shaped(collected, C) /\ Versioned(collected, latest)
              /\ CountersAgree(i) => CountersAgree(collected)
              /\ Spelled(i) => Spelled(collected)
              /\ \A p \in Nodes(i) \ Nodes(collected) : i.nodes[p].weight_version <= threshold
          BY <2>2, <4>1, GcIs
        <4> QED
          BY <4>2 DEF threshold
      <3> HIDE DEF collected
      <3>3. ASSUME NEW p \in Nodes(t) \ Nodes(collected)
            PROVE  t.nodes[p].weight_version <= latest - k
        <4>1. p \in Nodes(i) \ Nodes(collected) /\ t.nodes[p].weight_version \in Int
          BY <2>2 DEF Shaped, IsNode
        <4>2. t.nodes[p].weight_version <= version - k
          BY <2>2, <3>2, <4>1
        <4> QED
          BY <3>1, <4>1, <4>2
      <3> QED
        BY <2>2, <2>4, <3>2, <3>3 DEF Keeps, k
    <2> QED
      BY <2>1, <2>3, <2>4
  <1> QED
    BY <1>1, <1>2

(* Looking a text up gives tokens for it, and takes no node away.          *)
LEMMA RetrieveKeeps ==
    ASSUME NEW C, NEW t, Shaped(t, C), NEW text \in Seq(C), NEW tok, NEW limits,
      limits.gc_threshold_k \in Nat,
           \A i \in 1..(Len(text) + 1) : tok[SubSeq(text, i, Len(text))] \in Seq(Seq(C)),
           NEW latest \in Nat, Versioned(t, latest),
           NEW r, r = retrieve_from_text(t, text, tok, limits)
    PROVE  /\ r.tokens \in Seq(Seq(C)) /\ Keeps(t, r.tree, C, latest)
           /\ Spelled(t) /\ (\A i \in 1..(Len(text) + 1) :
                  tok[SubSeq(text, i, Len(text))] = Chars(SubSeq(text, i, Len(text)))) =>
                  Spelled(r.tree) /\ r.tokens = Chars(text)
           /\ Nodes(t) \subseteq Nodes(r.tree)
  <1> DEFINE found == find_longest_prefix(t, text)
             w == Walk(t, text)
             all == tok[text]
             rest == tok[w.rest]
             inserted == insert(t, text, all, [i \in DOMAIN all |-> 0], NoVersion, limits)
             Single == \A i \in 1..(Len(text) + 1) :
                          tok[SubSeq(text, i, Len(text))] = Chars(SubSeq(text, i, Len(text)))
  <1>1. WayDown(t, C, text, w)
    BY WalkIs
  <1>2. found.tokens = Along(t, w.path, "tokens") /\ found.rest = w.rest
    BY DEF find_longest_prefix
  <1>3. IF found.tokens # <<>> THEN r.tokens = found.tokens \o rest /\ r.tree = t
                               ELSE r.tokens = all /\ r.tree = inserted
    BY <1>2 DEF retrieve_from_text
  <1>4. all \in Seq(Seq(C)) /\ (Single => all = Chars(text))
    <2>1. 1 \in 1..(Len(text) + 1) /\ SubSeq(text, 1, Len(text)) = text
      BY SubSeqFull
    <2> QED
      BY <2>1
  <1> HIDE DEF w
  <1>5. rest \in Seq(Seq(C)) /\ (Single => rest = Chars(w.rest))
    <2>1. PICK i \in 1..(Len(text) + 1) : w.rest = SubSeq(text, i, Len(text))
      BY <1>1 DEF WayDown
    <2> QED
      BY <2>1
  <1>6. /\ w.path \in Seq(Keys(C)) /\ w.rest \in Seq(C) /\ text = FlattenSeq(w.path) \o w.rest
        /\ Along(t, w.path, "tokens") \in Seq(Seq(C))
        /\ Spelled(t) => Along(t, w.path, "tokens") = Chars(FlattenSeq(w.path))
    <2>1. w.path = <<>> \/ w.path \in Nodes(t)
      BY <1>1 DEF WayDown
    <2> QED
      BY <1>1, <2>1, AlongIs DEF WayDown
  <1> HIDE DEF found, all, rest, Single
  <1>7. CASE found.tokens # <<>>
    <2>1. found.tokens \o rest \in Seq(Seq(C))
      BY <1>2, <1>5, <1>6
    <2>2. ASSUME Spelled(t), Single PROVE found.tokens \o rest = Chars(text)
      <3>1. FlattenSeq(w.path) \in Seq(C)
        BY <1>6, PathsSpell
      <3>2. Chars(FlattenSeq(w.path) \o w.rest) = Chars(FlattenSeq(w.path)) \o Chars(w.rest)
        BY <1>6, <3>1, CharsOf
      <3> QED
        BY <1>2, <1>5, <1>6, <2>2, <3>2
    <2> QED
      BY <1>3, <1>7, <2>1, <2>2 DEF Keeps, Single
  <1>8. CASE found.tokens = <<>>
    <2>1. NoVersion \in Int /\ NoVersion <= latest /\ latest \in Int
      BY DEF NoVersion
    <2>2. text # <<>> /\ NoVersion = NoVersion => find_longest_prefix(t, text).tokens = <<>>
      BY <1>8 DEF found
    <2>3. /\ Keeps(t, inserted, C, latest) /\ (Spelled(t) /\ all = Chars(text) => Spelled(inserted))
          /\ Nodes(t) \subseteq Nodes(inserted)
      <3> HIDE DEF inserted
      <3>1. inserted = insert(t, text, all, [i \in DOMAIN all |-> 0], NoVersion, limits)
        BY DEF inserted
      <3> QED
        BY <1>4, <2>1, <2>2, <3>1, InsertKeeps
    <2> HIDE DEF inserted
    <2> QED
      BY <1>3, <1>4, <1>8, <2>3 DEF Single
  <1> QED
    BY <1>7, <1>8

(***************************************************************************)
(* The inductive invariant of the cache: the tree is in shape, and the     *)
(* tokens a request has found are for its text, whatever happens to the    *)
(* tree before they are inserted.                                          *)
(***************************************************************************)
TreeInv ==
    /\ weight_version \in Nat
    /\ Shaped(tree, Characters(args)) /\ Versioned(tree, weight_version) /\ CountersAgree(tree)
    /\ ~args.merges => Spelled(tree)

RequestKept(r) ==
    /\ r.text \in Seq(Characters(args)) /\ r.tokens \in Seq(Seq(Characters(args)))
    /\ ~args.merges => r.tokens = Chars(r.text)
    /\ r.pc = "answered" => r.version \in 0..weight_version /\ r.output \in args.outputs \cup {<<>>}

CacheInv == TreeInv /\ \A c \in Clients : RequestKept(client[c])

(* The tokens of a text are texts; characters, unless some are joined.     *)
LEMMA TokenizerIs ==
    ASSUME NEW C, NEW text \in Seq(C)
    PROVE  tokenizer(text) \in Seq(Seq(C)) /\ (~args.merges => tokenizer(text) = Chars(text))
  <1>1. CASE args.merges /\ Len(text) >= 2 /\ text[1] = "a" /\ text[2] = "b"
    <2> DEFINE V == Seq(C)
               rest == [i \in 1..(Len(text) - 2) |-> <<text[i + 2]>>]
    <2>1. Len(text) - 2 \in Nat /\ \A i \in 1..(Len(text) - 2) : <<text[i + 2]>> \in V
      BY <1>1
    <2>2. "a" \in C /\ "b" \in C
      BY <1>1
    <2>3. <<"a", "b">> \in V
      BY <2>2
    <2>4. tokenizer(text) = <<<<"a", "b">>>> \o rest
      BY <1>1 DEF tokenizer
    <2> HIDE DEF V
    <2>5. rest \in Seq(V)
      BY <2>1
    <2>6. <<<<"a", "b">>>> \in Seq(V)
      BY <2>3
    <2> HIDE DEF rest
    <2>7. tokenizer(text) \in Seq(V)
      BY <2>4, <2>5, <2>6, ConcatProperties
    <2> QED
      BY <1>1, <2>7 DEF V
  <1>2. CASE ~(args.merges /\ Len(text) >= 2 /\ text[1] = "a" /\ text[2] = "b")
    <2>1. tokenizer(text) = Chars(text)
      BY <1>2 DEF tokenizer, Chars
    <2> QED
      BY <2>1, CharsOf
  <1> QED
    BY <1>1, <1>2

(* Tokens of one character each are those of what they spell.              *)
LEMMA SpellingIs ==
    ASSUME NEW C, NEW output \in Seq(Seq(C))
    PROVE  /\ Spelling(output) \in Seq(C)
           /\ (\A i \in DOMAIN output : Len(output[i]) = 1) => Chars(Spelling(output)) = output
  <1>1. Spelling(output) \in Seq(C)
    BY FlattenType DEF Spelling
  <1>2. ASSUME \A i \in DOMAIN output : Len(output[i]) = 1
        PROVE  Chars(Spelling(output)) = output
    <2> DEFINE V == Seq(C)
               x == [i \in 1..Len(output) |-> output[i][1]]
    <2>1. \A i \in 1..Len(output) : output[i] \in Seq(C) /\ Len(output[i]) = 1 /\ output[i] = <<output[i][1]>>
      <3>1. DOMAIN output = 1..Len(output) /\ \A i \in 1..Len(output) : output[i] \in Seq(C)
        <4> HIDE DEF V
        <4>1. output \in Seq(V)
          BY DEF V
        <4>2. DOMAIN output = 1..Len(output) /\ \A i \in 1..Len(output) : output[i] \in V
          BY <4>1
        <4> QED
          BY <4>2 DEF V
      <3>2. \A z \in Seq(C) : Len(z) = 1 => z = <<z[1]>>
        OBVIOUS
      <3> QED
        BY <1>2, <3>1, <3>2
    <2>2. Len(output) \in Nat
      <3> HIDE DEF V
      <3>1. output \in Seq(V)
        BY DEF V
      <3> QED
        BY <3>1
    <2>3. \A i \in 1..Len(output) : output[i][1] \in C
      <3>1. ASSUME NEW z \in Seq(C), Len(z) = 1 PROVE z[1] \in C
        <4>1. 1 \in 1..Len(z)
          BY <3>1
        <4> QED
          BY <4>1
      <3> QED
        BY <2>1, <3>1
    <2>4. x \in Seq(C) /\ Len(x) = Len(output)
      BY <2>2, <2>3
    <2>5. Chars(x) \in Seq(V) /\ Len(Chars(x)) = Len(x) /\ \A i \in 1..Len(x) : Chars(x)[i] = output[i]
      <3>1. \A i \in 1..Len(x) : Chars(x)[i] = output[i]
        BY <2>1, <2>4 DEF Chars
      <3> QED
        BY <2>4, <3>1, CharsOf
    <2>6. output \in Seq(V)
      OBVIOUS
    <2> HIDE DEF x, V
    <2>7. Chars(x) = output
      BY <2>4, <2>5, <2>6, SeqEqual
    <2>8. FlattenSeq(Chars(x)) = x
      BY <2>4, CharsJoined
    <2> QED
      BY <2>7, <2>8 DEF Spelling
  <1> QED
    BY <1>1, <1>2

(* What a setup's texts and tokens are.                                    *)
LEMMA ConfigurationIs ==
    ASSUME args \in Configurations
    PROVE  /\ args.prompts \subseteq Seq(Characters(args))
           /\ \A output \in args.outputs \cup {<<>>} :
                  /\ output \in Seq(Seq(Characters(args)))
                  /\ ~args.merges => \A i \in DOMAIN output : Len(output[i]) = 1
           /\ args.limits.gc_threshold_k \in Nat
  <1>1. IsConfiguration(args)
    BY RouterAssumption
  <1> DEFINE V == Seq(Characters(args))
  <1>2. <<>> \in Seq(V) /\ DOMAIN <<>> = {}
    <2> HIDE DEF V
    <2> QED
      OBVIOUS
  <1> QED
    BY <1>1, <1>2 DEF IsConfiguration

(* A step of one request that leaves the tree in shape.                    *)
LEMMA RequestStays ==
    ASSUME LoadInv, CacheInv, NEW c \in Clients, NEW r, RequestKept(r),
           client' = [client EXCEPT ![c] = r], UNCHANGED <<args, weight_version>>, TreeInv'
    PROVE  CacheInv'
  <1>1. Clients' = Clients /\ \A d \in Clients : client'[d] = IF d = c THEN r ELSE client[d]
    BY DEF Clients, LoadInv, PoolTyped
  <1>2. \A d \in Clients : RequestKept(client[d])'
    BY <1>1 DEF CacheInv, RequestKept
  <1> QED
    BY <1>1, <1>2 DEF CacheInv

(* A lookup keeps the cache.                                               *)
LEMMA CacheLooksUp ==
    ASSUME LoadInv, CacheInv, NEW c \in Clients, NEW text \in args.prompts, Generate(c, text)
    PROVE  CacheInv' /\ CollectsOld
  <1> DEFINE C == Characters(args)
             tok == [t \in {SubSeq(text, i, Len(text)) : i \in 1..(Len(text) + 1)} |-> tokenizer(t)]
             found == retrieve_from_text(tree, text, tok, args.limits)
             r == [Request EXCEPT !.pc = "proxy", !.kind = "generate", !.text = text, !.try = 1,
                                  !.tokens = found.tokens, !.mask = found.mask]
  <1>1. tree' = found.tree /\ client' = [client EXCEPT ![c] = r] /\ UNCHANGED <<args, weight_version>>
    BY DEF Generate
  <1>2. args \in Configurations /\ TreeInv
    BY DEF LoadInv, PoolTyped, CacheInv
  <1>3. text \in Seq(C) /\ args.limits.gc_threshold_k \in Nat
    BY <1>2, ConfigurationIs
  <1>4. ASSUME NEW i \in 1..(Len(text) + 1)
        PROVE  /\ tok[SubSeq(text, i, Len(text))] \in Seq(Seq(C))
               /\ ~args.merges => tok[SubSeq(text, i, Len(text))] = Chars(SubSeq(text, i, Len(text)))
    <2>1. SubSeq(text, i, Len(text)) \in Seq(C)
      BY <1>3
    <2>2. tok[SubSeq(text, i, Len(text))] = tokenizer(SubSeq(text, i, Len(text)))
      OBVIOUS
    <2> HIDE DEF C, tok
    <2> QED
      BY <2>1, <2>2, TokenizerIs
  <1>5. IsRequest(r) /\ r.pc = "proxy" /\ r.text = text /\ r.tokens = found.tokens
    <2>1. IsRequest(Request)
      BY DEF IsRequest, Request, Fields
    <2> HIDE DEF found
    <2> QED
      BY <2>1 DEF IsRequest, Fields
  <1> HIDE DEF tok, r
  <1>6. /\ found.tokens \in Seq(Seq(C)) /\ Keeps(tree, found.tree, C, weight_version)
        /\ ~args.merges => Spelled(found.tree) /\ found.tokens = Chars(text)
        /\ Nodes(tree) \subseteq Nodes(found.tree)
    <2>1. Shaped(tree, C) /\ Versioned(tree, weight_version) /\ weight_version \in Nat
      BY <1>2 DEF TreeInv
    <2>2. found = retrieve_from_text(tree, text, tok, args.limits)
      OBVIOUS
    <2> DEFINE lim == args.limits
    <2> HIDE DEF C, found, lim
    <2>3. /\ found.tokens \in Seq(Seq(C)) /\ Keeps(tree, found.tree, C, weight_version)
          /\ Spelled(tree) /\ (\A i \in 1..(Len(text) + 1) :
                  tok[SubSeq(text, i, Len(text))] = Chars(SubSeq(text, i, Len(text)))) =>
                  Spelled(found.tree) /\ found.tokens = Chars(text)
          /\ Nodes(tree) \subseteq Nodes(found.tree)
      BY <1>3, <1>4, <2>1, <2>2, RetrieveKeeps DEF lim
    <2> QED
      BY <1>2, <1>4, <2>3 DEF TreeInv
  <1> HIDE DEF found
  <1>7. TreeInv'
    BY <1>1, <1>2, <1>6 DEF TreeInv, Keeps
  <1>8. RequestKept(r)
    BY <1>3, <1>5, <1>6 DEF RequestKept
  <1>9. CollectsOld
    BY <1>1, <1>6 DEF CollectsOld
  <1> QED
    BY <1>1, <1>7, <1>8, <1>9, RequestStays

(* So does an insertion after an answer, and what it collects is old.      *)
LEMMA CacheInserts ==
    ASSUME LoadInv, CacheInv, NEW c \in Clients, Cache(c)
    PROVE  CacheInv' /\ CollectsOld
  <1> DEFINE C == Characters(args)
             r == client[c]
             text == r.text \o Spelling(r.output)
             tokens == r.tokens \o r.output
             mask == r.mask \o [i \in DOMAIN r.output |-> 1]
             u == insert(tree, text, tokens, mask, r.version, args.limits)
  <1>1. /\ tree' = u /\ client' = [client EXCEPT ![c] = Request]
        /\ UNCHANGED <<args, weight_version>> /\ r.pc = "answered"
    BY DEF Cache, Returns
  <1>2. args \in Configurations /\ TreeInv /\ RequestKept(r)
    BY DEF LoadInv, PoolTyped, CacheInv
  <1>3. /\ r.text \in Seq(C) /\ r.tokens \in Seq(Seq(C)) /\ (~args.merges => r.tokens = Chars(r.text))
        /\ r.version \in 0..weight_version /\ weight_version \in Nat
        /\ r.output \in Seq(Seq(C)) /\ (~args.merges => \A i \in DOMAIN r.output : Len(r.output[i]) = 1)
        /\ args.limits.gc_threshold_k \in Nat
    BY <1>1, <1>2, ConfigurationIs DEF RequestKept, TreeInv
  <1> HIDE DEF r, C
  <1>4. Spelling(r.output) \in Seq(C) /\ (~args.merges => Chars(Spelling(r.output)) = r.output)
    BY <1>3, SpellingIs
  <1>5. text \in Seq(C) /\ tokens \in Seq(Seq(C))
    BY <1>3, <1>4
  <1>6. ~args.merges => tokens = Chars(text)
    <2>1. Chars(text) = Chars(r.text) \o Chars(Spelling(r.output))
      BY <1>3, <1>4, CharsOf
    <2> QED
      BY <1>3, <1>4, <2>1
  <1>7. /\ Keeps(tree, u, C, weight_version)
        /\ ~args.merges => Spelled(u)
        /\ \A p \in Nodes(tree) \ Nodes(u) :
               tree.nodes[p].weight_version <= weight_version - args.limits.gc_threshold_k
    <2> DEFINE v == r.version
               lim == args.limits
    <2>1. Shaped(tree, C) /\ Versioned(tree, weight_version) /\ weight_version \in Int
      BY <1>2 DEF TreeInv, C
    <2>2. v \in Int /\ v <= weight_version /\ v # NoVersion
      BY <1>3 DEF NoVersion
    <2>3. u = insert(tree, text, tokens, mask, v, lim) /\ lim.gc_threshold_k \in Nat
      BY <1>3
    <2>30. text # <<>> /\ v = NoVersion => find_longest_prefix(tree, text).tokens = <<>>
      BY <2>2
    <2> HIDE DEF text, tokens, mask, v, lim, u
    <2>4. /\ Keeps(tree, u, C, weight_version)
          /\ Spelled(tree) /\ tokens = Chars(text) => Spelled(u)
          /\ \A p \in Nodes(tree) \ Nodes(u) :
             tree.nodes[p].weight_version <= weight_version - lim.gc_threshold_k
      BY <1>5, <2>1, <2>2, <2>3, <2>30, InsertKeeps
    <2> QED
      BY <1>2, <1>6, <2>4 DEF TreeInv, lim
  <1> HIDE DEF u
  <1>8. TreeInv'
    BY <1>1, <1>2, <1>7 DEF TreeInv, Keeps, C
  <1>9. RequestKept(Request)
    <2>1. Request.text = <<>> /\ Request.tokens = <<>> /\ Request.pc = "idle"
      BY DEF Request
    <2>2. <<>> \in Seq(C) /\ <<>> \in Seq(Seq(C)) /\ Chars(<<>>) = <<>>
      BY DEF Chars
    <2> QED
      BY <2>1, <2>2 DEF RequestKept, C
  <1>10. CollectsOld
    BY <1>1, <1>7 DEF CollectsOld
  <1> QED
    BY <1>1, <1>8, <1>9, <1>10, RequestStays

(* Any other step of a request leaves its text and tokens alone, or ends   *)
(* the request.                                                            *)
LEMMA CacheUntouched ==
    ASSUME LoadInv, CacheInv, UNCHANGED <<args, tree, weight_version>>,
           \/ UNCHANGED client
           \/ \E c \in Clients : \E r :
                /\ client' = [client EXCEPT ![c] = r]
                /\ r.text = client[c].text /\ r.tokens = client[c].tokens
                /\ r.pc = "answered" => r.version = weight_version /\ r.output \in args.outputs \cup {<<>>}
           \/ \E c \in Clients : client' = [client EXCEPT ![c] = Request]
           \/ \E c \in Clients : client' = [client EXCEPT ![c] = [Request EXCEPT !.pc = "proxy"]]
    PROVE  CacheInv' /\ CollectsOld
  <1>1. TreeInv' /\ CollectsOld /\ weight_version \in Nat
    BY DEF CacheInv, TreeInv, CollectsOld
  <1>2. CASE UNCHANGED client
    BY <1>1, <1>2 DEF CacheInv, RequestKept, Clients
  <1>3. ASSUME NEW c \in Clients, NEW r, client' = [client EXCEPT ![c] = r],
               r.text = client[c].text, r.tokens = client[c].tokens,
               r.pc = "answered" => r.version = weight_version /\ r.output \in args.outputs \cup {<<>>}
        PROVE  CacheInv'
    <2>1. RequestKept(r)
      BY <1>1, <1>3 DEF CacheInv, RequestKept
    <2> QED
      BY <1>1, <1>3, <2>1, RequestStays
  <1>4. ASSUME NEW c \in Clients, NEW r, client' = [client EXCEPT ![c] = r],
               r.text = <<>>, r.tokens = <<>>, r.pc # "answered"
        PROVE  CacheInv'
    <2>1. <<>> \in Seq(Characters(args)) /\ <<>> \in Seq(Seq(Characters(args))) /\ Chars(<<>>) = <<>>
      BY DEF Chars
    <2>2. RequestKept(r)
      BY <1>4, <2>1 DEF RequestKept
    <2> QED
      BY <1>1, <1>4, <2>2, RequestStays
  <1>5. ASSUME NEW c \in Clients, client' = [client EXCEPT ![c] = Request]
        PROVE  CacheInv'
    <2>1. Request.text = <<>> /\ Request.tokens = <<>> /\ Request.pc # "answered"
      BY DEF Request
    <2> QED
      BY <1>4, <1>5, <2>1
  <1>6. ASSUME NEW c \in Clients, client' = [client EXCEPT ![c] = [Request EXCEPT !.pc = "proxy"]]
        PROVE  CacheInv'
    <2> DEFINE r == [Request EXCEPT !.pc = "proxy"]
    <2>1. r.text = <<>> /\ r.tokens = <<>> /\ r.pc # "answered"
      BY DEF Request
    <2> HIDE DEF r
    <2> QED
      BY <1>4, <1>6, <2>1 DEF r
  <1> QED
    BY <1>1, <1>2, <1>3, <1>5, <1>6

(* Every step keeps the cache, and removes only what is old.               *)
LEMMA CacheStep ==
    ASSUME LoadInv, CacheInv, [Next]_vars
    PROVE  CacheInv' /\ CollectsOld
  <1> USE DEF poolVars, treeVars
  <1>1. \A c \in Clients : IsRequest(client[c])
    BY DEF LoadInv, PoolTyped
  <1>2. CASE HealthStep \/ UNCHANGED vars
    BY <1>2, CacheUntouched DEF HealthStep, StartChecks, CheckReturns, ApplyChecks, vars
  <1>3. CASE NewWeights
    <2>1. /\ UNCHANGED <<args, tree, client>> /\ weight_version' = weight_version + 1
          /\ weight_version \in Nat
      BY <1>3 DEF NewWeights, CacheInv, TreeInv
    <2>2. Versioned(tree, weight_version + 1)
      <3>1. \A p \in Nodes(tree) : tree.nodes[p].weight_version \in Int
        BY DEF CacheInv, TreeInv, Shaped, IsNode
      <3> QED
        BY <2>1, <3>1 DEF CacheInv, TreeInv, Versioned
    <2>3. TreeInv'
      BY <2>1, <2>2 DEF CacheInv, TreeInv
    <2>4. \A c \in Clients : RequestKept(client[c])'
      BY <2>1 DEF CacheInv, RequestKept
    <2>5. CollectsOld
      BY <2>1 DEF CollectsOld
    <2> QED
      BY <2>1, <2>3, <2>4, <2>5 DEF CacheInv, Clients
  <1>4. ASSUME NEW w \in Workers, add_worker(w) \/ Crash(w) \/ Restart(w)
        PROVE  CacheInv' /\ CollectsOld
    BY <1>4, CacheUntouched DEF add_worker, Crash, Restart
  <1>5. ASSUME NEW c \in Clients, Proxy(c) \/ NoWorker(c) \/ Disconnects(c) \/ ProxyFails(c) \/ Answers(c)
        PROVE  CacheInv' /\ CollectsOld
    BY <1>5, CacheUntouched DEF Proxy, NoWorker, Disconnects, ProxyFails, Answers
  <1>6. ASSUME NEW c \in Clients, NEW r, client' = [client EXCEPT ![c] = r],
          UNCHANGED <<args, tree, weight_version>>,
               r.text = client[c].text, r.tokens = client[c].tokens,
               r.pc = "answered" => r.version = weight_version /\ r.output \in args.outputs \cup {<<>>}
        PROVE  CacheInv' /\ CollectsOld
    BY <1>6, CacheUntouched
  <1>7. ASSUME NEW c \in Clients, NEW w \in Workers, _use_url(c, w)
        PROVE  CacheInv' /\ CollectsOld
    <2> DEFINE pc == IF client[c].kind = "proxy" THEN "body" ELSE "sent"
               r == [client[c] EXCEPT !.pc = pc, !.worker = w]
    <2>1. client' = [client EXCEPT ![c] = r] /\ UNCHANGED <<args, tree, weight_version>>
      BY <1>7 DEF _use_url, LoadInv, PoolTyped
    <2>2. pc # "answered"
      OBVIOUS
    <2> HIDE DEF pc
    <2>3. r.text = client[c].text /\ r.tokens = client[c].tokens /\ r.pc = pc
      BY <1>1 DEF IsRequest, Fields
    <2> HIDE DEF r
    <2> QED
      BY <1>6, <2>1, <2>2, <2>3
  <1>8. ASSUME NEW c \in Clients, BodyArrives(c)
        PROVE  CacheInv' /\ CollectsOld
    <2> DEFINE r == [client[c] EXCEPT !.pc = "sent"]
    <2>1. client' = [client EXCEPT ![c] = r] /\ UNCHANGED <<args, tree, weight_version>>
      BY <1>8 DEF BodyArrives
    <2>2. r.text = client[c].text /\ r.tokens = client[c].tokens /\ r.pc = "sent"
      BY <1>1 DEF IsRequest, Fields
    <2> HIDE DEF r
    <2> QED
      BY <1>6, <2>1, <2>2
  <1>9. ASSUME NEW c \in Clients, NEW output \in args.outputs \cup {<<>>},
          UNCHANGED <<args, tree, weight_version>>,
               client' = [client EXCEPT ![c] = [client[c] EXCEPT !.pc = "answered", !.output = output,
                                                                 !.version = weight_version]]
        PROVE  CacheInv' /\ CollectsOld
    <2> DEFINE r == [client[c] EXCEPT !.pc = "answered", !.output = output, !.version = weight_version]
    <2>1. /\ r.text = client[c].text /\ r.tokens = client[c].tokens
          /\ r.version = weight_version /\ r.output = output
      BY <1>1 DEF IsRequest, Fields
    <2>2. client' = [client EXCEPT ![c] = r]
      BY <1>9
    <2> HIDE DEF r
    <2> QED
      BY <1>6, <1>9, <2>1, <2>2
  <1>10. ASSUME NEW c \in Clients, Generated(c)
         PROVE  CacheInv' /\ CollectsOld
    <2>1. PICK output \in args.outputs :
            client' = [client EXCEPT ![c].pc = "answered", ![c].output = output,
              ![c].version = weight_version]
      BY <1>10 DEF Generated
    <2>2. client' = [client EXCEPT ![c] = [client[c] EXCEPT !.pc = "answered", !.output = output,
                                                            !.version = weight_version]]
      BY <2>1 DEF LoadInv, PoolTyped
    <2> QED
      BY <1>9, <1>10, <2>2 DEF Generated
  <1>11. ASSUME NEW c \in Clients, Aborted(c)
         PROVE  CacheInv' /\ CollectsOld
    <2>1. CASE client[c].try < args.tries
      <3> DEFINE n == client[c].try + 1
                 r == [client[c] EXCEPT !.pc = "proxy", !.try = n]
      <3>1. client' = [client EXCEPT ![c] = r]
        BY <1>11, <2>1 DEF Aborted
      <3> HIDE DEF n
      <3>2. r.text = client[c].text /\ r.tokens = client[c].tokens /\ r.pc = "proxy"
        BY <1>1 DEF IsRequest, Fields
      <3> HIDE DEF r
      <3> QED
        BY <1>6, <1>11, <3>1, <3>2 DEF Aborted
    <2>2. CASE ~(client[c].try < args.tries)
      <3>1. PICK output \in args.outputs \cup {<<>>} :
                \/ client' = [client EXCEPT ![c] = [client[c] EXCEPT !.pc = "answered", !.output = output,
                                                                     !.version = weight_version]]
                \/ client' = [client EXCEPT ![c] = Request]
        BY <1>11, <2>2 DEF Aborted
      <3>2. CASE client' = [client EXCEPT ![c] = Request]
        BY <1>11, <3>2, CacheUntouched DEF Aborted
      <3>3. CASE client' = [client EXCEPT ![c] = [client[c] EXCEPT !.pc = "answered", !.output = output,
                                                                   !.version = weight_version]]
        BY <1>9, <1>11, <3>3 DEF Aborted
      <3> QED
        BY <3>1, <3>2, <3>3
    <2> QED
      BY <2>1, <2>2
  <1> QED
    BY <1>2, <1>3, <1>4, <1>5, <1>7, <1>8, <1>10, <1>11, CacheLooksUp, CacheInserts
    DEF Next, RequestStep, Environment

(* The tree is empty at first.                                             *)
LEMMA CacheStart ==
    ASSUME Init
    PROVE  CacheInv
  <1>1. Nodes(tree) = {} /\ tree = EmptyTree /\ weight_version = 0
    BY DEF Init, EmptyTree, Nodes
  <1>2. Shaped(tree, Characters(args))
    <2>1. IsFiniteSet(Nodes(tree))
      BY <1>1, FS_EmptySet
    <2> QED
      BY <1>1, <2>1 DEF Shaped, EmptyTree, Nodes
  <1>3. Versioned(tree, weight_version) /\ Spelled(tree)
    BY <1>1 DEF Versioned, Spelled
  <1>4. CountersAgree(tree)
    <2>1. SumAll(Sizes(tree)) = 0
      <3>1. Sizes(tree) \in [Nodes(tree) -> Int] /\ IsFiniteSet(Nodes(tree))
        BY <1>2, SizesTyped
      <3> DEFINE g == Sizes(tree)
                 N == Nodes(tree)
      <3>2. N = {} /\ g \in [N -> Int] /\ IsFiniteSet(N)
        BY <1>1, <3>1
      <3> HIDE DEF g, N
      <3>3. SumAll(g) = 0
        BY <3>2, SumTake
      <3> QED
        BY <3>3 DEF g
    <2>2. Cardinality(Nodes(tree)) = 0
      BY <1>1, FS_EmptySet
    <2> QED
      BY <1>1, <2>1, <2>2 DEF CountersAgree, EmptyTree
  <1>5. RequestKept(Request)
    <2>1. Request.text = <<>> /\ Request.tokens = <<>> /\ Request.pc = "idle"
      BY DEF Request
    <2>2. /\ <<>> \in Seq(Characters(args)) /\ <<>> \in Seq(Seq(Characters(args)))
          /\ Chars(<<>>) = <<>>
      BY DEF Chars
    <2> QED
      BY <2>1, <2>2 DEF RequestKept
  <1>6. \A c \in Clients : client[c] = Request
    BY DEF Init
  <1> QED
    BY <1>1, <1>2, <1>3, <1>4, <1>5, <1>6 DEF CacheInv, TreeInv

(* What the invariant says of the tree is what its users see.              *)
LEMMA CacheInvariant ==
    ASSUME CacheInv
    PROVE  KeysAndCounters
  <1> DEFINE C == Characters(args)
  <1>1. Shaped(tree, C) /\ CountersAgree(tree) /\ (~args.merges => Spelled(tree))
    BY DEF CacheInv, TreeInv
  <1>2. tree.cur_cache_size = MapThenSumSet(LAMBDA p : Len(tree.nodes[p].tokens), Nodes(tree))
    <2>1. MapThenSumSet(LAMBDA p : Len(tree.nodes[p].tokens), Nodes(tree))
            = SumAll(On(Sizes(tree), Nodes(tree)))
      <3> DEFINE A == Nodes(tree)
      <3>1. A \in SUBSET Nodes(tree)
        OBVIOUS
      <3>2. MapThenSumSet(LAMBDA p : Len(tree.nodes[p].tokens), A) = SumAll(On(Sizes(tree), A))
        BY <1>1, <3>1, SizeOfPart
      <3> QED
        BY <3>2
    <2>2. On(Sizes(tree), Nodes(tree)) = Sizes(tree)
      BY DEF On, Sizes
    <2> QED
      BY <1>1, <2>1, <2>2 DEF CountersAgree
  <1>3. ASSUME ~args.merges, NEW p \in Nodes(tree) PROVE Spelling(tree.nodes[p].tokens) = Last(p)
    <2>1. tree.nodes[p].tokens = Chars(Last(p))
      BY <1>1, <1>3 DEF Spelled
    <2>2. p \in Seq(Keys(C)) /\ p # <<>>
      BY <1>1 DEF Shaped
    <2>3. Last(p) \in Seq(C)
      <3>1. Len(p) \in 1..Len(p)
        BY <2>2
      <3>2. p[Len(p)] \in Keys(C)
        BY <2>2, <3>1
      <3> QED
        BY <3>2 DEF Last, Keys
    <2> QED
      BY <2>1, <2>3, CharsJoined DEF Spelling
  <1> QED
    BY <1>1, <1>2, <1>3 DEF KeysAndCounters, CountersAgree

(* However lookups, answers, updates of the weights and collections fall   *)
(* between each other: the tokens kept for a text spell it, the counters   *)
(* that start a collection are right, and a collection takes away nothing  *)
(* a version above the threshold wrote.                                    *)
THEOREM CacheIsSound == Spec => CacheSound
  <1>1. Init => LoadInv /\ CacheInv
    BY LoadStart, CacheStart
  <1>2. LoadInv /\ CacheInv /\ [Next]_vars => (LoadInv /\ CacheInv)'
    BY LoadStep, CacheStep
  <1>3. LoadInv /\ CacheInv /\ [Next]_vars => [KeysAndCounters' /\ CollectsOld]_vars
    <2>1. CacheInv => KeysAndCounters
      BY CacheInvariant
    <2>2. LoadInv /\ CacheInv /\ [Next]_vars => KeysAndCounters'
      BY <1>2, <2>1, PTL
    <2> QED
      BY <2>2, CacheStep
  <1> QED
    BY <1>1, <1>2, <1>3, PTL DEF Spec, CacheSound
=============================================================================
