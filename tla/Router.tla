-------------------------------- MODULE Router --------------------------------
(***************************************************************************)
(* MilesRouter with RadixTreeMiddleware (miles/router): a proxy in front   *)
(* of the engines that sends a request to the worker with the fewest       *)
(* active ones, drops workers that fail their health checks, and keeps the *)
(* tokens of the texts that went through in a RadixTree.  One event loop   *)
(* runs the handlers; they interleave where they await.                    *)
(***************************************************************************)
EXTENDS RadixTree, Functions

CONSTANT Configurations   \* the setups one behaviour each starts with

(***************************************************************************)
(* A setup: workers and clients; miles_router_health_check_failure_threshold; *)
(* tries, 5 in the code; prompts, the texts clients send; outputs, what a  *)
(* worker may generate, as tokens; merges, whether the tokenizer joins two *)
(* characters; limits, of the tree.  The bounds: requests of each kind;    *)
(* crashes; versions of the weights; checks, whether the health of the     *)
(* workers is checked at all.                                              *)
(***************************************************************************)
Characters(c) == UNION {ToSet(x) : x \in c.prompts \cup UNION {ToSet(o) : o \in c.outputs}}

IsConfiguration(c) ==
    /\ {c.threshold, c.tries} \subseteq Nat \ {0}
    /\ {c.generates, c.proxies, c.crashes, c.versions} \subseteq Nat
    /\ IsFiniteSet(c.workers) /\ IsFiniteSet(c.clients) /\ {c.merges, c.aborts, c.checks} \subseteq BOOLEAN
    /\ c.prompts \subseteq Seq(Characters(c)) /\ c.outputs \subseteq Seq(Seq(Characters(c)))
    /\ ~c.merges => \A output \in c.outputs : \A i \in DOMAIN output : Len(output[i]) = 1
    /\ {c.limits.max_cache_size, c.limits.gc_threshold_k} \subseteq Nat

ASSUME RouterAssumption == \A c \in Configurations : IsConfiguration(c)

VARIABLES
    args,                    \* the setup
    worker_urls,             \* the keys of worker_request_counts, in order
    worker_request_counts,
    worker_failure_counts,
    dead_workers,
    up,                      \* workers whose server runs
    health,                  \* the health check loop: the workers it asks, the answers
    client,                  \* per client: its request
    tree,                    \* the radix tree
    weight_version,          \* of the weights the workers serve
    left,                    \* what is left of the bounds
    leaked                   \* per worker: requests whose client left before the body came

vars == <<args, worker_urls, worker_request_counts, worker_failure_counts, dead_workers, up, health,
          client, tree, weight_version, left, leaked>>
poolVars == <<worker_urls, worker_failure_counts, dead_workers, up, health>>
treeVars == <<tree, weight_version>>

Workers == args.workers
Clients == args.clients

Request == [pc |-> "idle", kind |-> "proxy", text |-> <<>>, tokens |-> <<>>, mask |-> <<>>,
            worker |-> "none", try |-> 0, output |-> <<>>, version |-> NoVersion]

Asking == {w \in ToSet(worker_urls) : w \notin dead_workers}

Init ==
    /\ args \in Configurations
    /\ worker_urls = <<>>
    /\ worker_request_counts = [w \in {} |-> 0] /\ worker_failure_counts = [w \in {} |-> 0]
    /\ dead_workers = {} /\ up = Workers
    /\ health = [asked |-> {}, answers |-> [w \in {} |-> TRUE]]
    /\ client = [c \in Clients |-> Request]
    /\ tree = EmptyTree /\ weight_version = 0
    /\ left = [generate |-> args.generates, proxy |-> args.proxies, crashes |-> args.crashes]
    /\ leaked = [w \in Workers |-> 0]

(***************************************************************************)
(* The pool.                                                               *)
(***************************************************************************)
\* An engine that has started registers; one the router knows changes nothing.
add_worker(w) ==
    /\ w \in up
    /\ worker_urls' = IF w \in ToSet(worker_urls) THEN worker_urls ELSE Append(worker_urls, w)
    /\ LET known == ToSet(worker_urls) IN
       /\ worker_request_counts' = [x \in known \cup {w} |-> IF x \in known THEN worker_request_counts[x] ELSE 0]
       /\ worker_failure_counts' = [x \in known \cup {w} |-> IF x \in known THEN worker_failure_counts[x] ELSE 0]
    /\ UNCHANGED <<args, dead_workers, up, health, client, treeVars, left, leaked>>

Crash(w) ==
    /\ w \in up /\ left.crashes > 0
    /\ up' = up \ {w}
    /\ left' = [left EXCEPT !.crashes = @ - 1]
    /\ UNCHANGED <<args, worker_urls, worker_request_counts, worker_failure_counts, dead_workers, health,
                   client, treeVars, leaked>>

\* The engine is started anew at the same address.
Restart(w) ==
    /\ w \notin up
    /\ up' = up \cup {w}
    /\ UNCHANGED <<args, worker_urls, worker_request_counts, worker_failure_counts, dead_workers, health,
                   client, treeVars, left, leaked>>

\* After the interval the workers that are not dead are asked, all at once.
StartChecks ==
    /\ health.asked = {} /\ Asking # {} /\ args.checks
    /\ health' = [asked |-> Asking, answers |-> [w \in {} |-> TRUE]]
    /\ UNCHANGED <<args, worker_urls, worker_request_counts, worker_failure_counts, dead_workers, up,
                   client, treeVars, left, leaked>>

\* A worker answers, or, busy or down, does not within 5 seconds.
CheckReturns(w) ==
    /\ w \in health.asked \ DOMAIN health.answers
    /\ \E healthy \in BOOLEAN :
        /\ healthy => w \in up
        /\ health' = [health EXCEPT !.answers = [x \in DOMAIN @ \cup {w} |-> IF x = w THEN healthy ELSE @[x]]]
    /\ UNCHANGED <<args, worker_urls, worker_request_counts, worker_failure_counts, dead_workers, up,
                   client, treeVars, left, leaked>>

Failures(w) == IF health.answers[w] THEN 0 ELSE worker_failure_counts[w] + 1

\* With all answers there: too many failures in a row, and the worker is dead.
ApplyChecks ==
    /\ health.asked # {} /\ DOMAIN health.answers = health.asked
    /\ worker_failure_counts' = [w \in DOMAIN worker_failure_counts |->
            IF w \in health.asked THEN Failures(w) ELSE worker_failure_counts[w]]
    /\ dead_workers' = dead_workers \cup
            {w \in health.asked : ~health.answers[w] /\ Failures(w) >= args.threshold}
    /\ health' = [asked |-> {}, answers |-> [w \in {} |-> TRUE]]
    /\ UNCHANGED <<args, worker_urls, worker_request_counts, up, client, treeVars, left, leaked>>

(***************************************************************************)
(* Requests.                                                               *)
(***************************************************************************)
\* The tokenizer: characters, of which "a" and "b" may be one token.
tokenizer(text) ==
    IF args.merges /\ Len(text) >= 2 /\ text[1] = "a" /\ text[2] = "b"
    THEN <<<<"a", "b">>>> \o [i \in 1..(Len(text) - 2) |-> <<text[i + 2]>>]
    ELSE [i \in DOMAIN text |-> <<text[i]>>]

\* /generate: the tokens of the text are looked up before the request goes on.
Generate(c, text) ==
    /\ client[c].pc = "idle" /\ left.generate > 0
    /\ LET ends == {SubSeq(text, i, Len(text)) : i \in 1..(Len(text) + 1)}
           found == retrieve_from_text(tree, text, [t \in ends |-> tokenizer(t)], args.limits) IN
       /\ tree' = found.tree
       /\ client' = [client EXCEPT ![c] =
            [Request EXCEPT !.pc = "proxy", !.kind = "generate", !.text = text, !.try = 1,
                            !.tokens = found.tokens, !.mask = found.mask]]
    /\ left' = [left EXCEPT !.generate = @ - 1]
    /\ UNCHANGED <<args, poolVars, worker_request_counts, weight_version, leaked>>

\* Any other path.
Proxy(c) ==
    /\ client[c].pc = "idle" /\ left.proxy > 0
    /\ client' = [client EXCEPT ![c] = [Request EXCEPT !.pc = "proxy"]]
    /\ left' = [left EXCEPT !.proxy = @ - 1]
    /\ UNCHANGED <<args, poolVars, worker_request_counts, treeVars, leaked>>

\* The least busy worker that is not dead; of several, the first.
Preferred(w) ==
    \E i \in DOMAIN worker_urls :
        /\ worker_urls[i] = w /\ w \notin dead_workers
        /\ \A j \in DOMAIN worker_urls : worker_urls[j] \notin dead_workers =>
            \/ worker_request_counts[w] < worker_request_counts[worker_urls[j]]
            \/ worker_request_counts[w] = worker_request_counts[worker_urls[j]] /\ i <= j

\* The body of a generate request has been read by the middleware.
_use_url(c, w) ==
    /\ client[c].pc = "proxy" /\ Preferred(w)
    /\ worker_request_counts' = [worker_request_counts EXCEPT ![w] = @ + 1]
    /\ client' = [client EXCEPT ![c].pc = IF @ = "proxy" /\ client[c].kind = "proxy" THEN "body" ELSE "sent",
                                ![c].worker = w]
    /\ UNCHANGED <<args, poolVars, treeVars, left, leaked>>

\* No worker is there to take the request: it ends in an error.
NoWorker(c) ==
    /\ client[c].pc = "proxy" /\ Asking = {}
    /\ client' = [client EXCEPT ![c] = Request]
    /\ UNCHANGED <<args, poolVars, worker_request_counts, treeVars, left, leaked>>

BodyArrives(c) ==
    /\ client[c].pc = "body"
    /\ client' = [client EXCEPT ![c].pc = "sent"]
    /\ UNCHANGED <<args, poolVars, worker_request_counts, treeVars, left, leaked>>

\* The client is gone; the wait for the body raises outside of the try.
Disconnects(c) ==
    /\ client[c].pc = "body" /\ left.crashes > 0
    /\ leaked' = [leaked EXCEPT ![client[c].worker] = @ + 1]
    /\ client' = [client EXCEPT ![c] = Request]
    /\ left' = [left EXCEPT !.crashes = @ - 1]
    /\ UNCHANGED <<args, poolVars, worker_request_counts, treeVars>>

_finish_url(c) ==
    worker_request_counts' = [worker_request_counts EXCEPT ![client[c].worker] = @ - 1]

\* BUG: the count is lowered after an answer only.
FailedAndKept(c) ==
    /\ client[c].pc = "sent"
    /\ client' = [client EXCEPT ![c] = Request]
    /\ UNCHANGED <<args, poolVars, worker_request_counts, treeVars, left, leaked>>

\* The connection breaks, or there is no worker any more to connect to: the
\* exception leaves the handler, and the middleware.
ProxyFails(c) ==
    /\ client[c].pc = "sent"
    /\ _finish_url(c)
    /\ client' = [client EXCEPT ![c] = Request]
    /\ UNCHANGED <<args, poolVars, treeVars, left, leaked>>

Answers(c) ==
    /\ client[c].pc = "sent" /\ client[c].worker \in up /\ client[c].kind = "proxy"
    /\ _finish_url(c)
    /\ client' = [client EXCEPT ![c] = Request]
    /\ UNCHANGED <<args, poolVars, treeVars, left, leaked>>

\* The worker has generated.
Generated(c) ==
    /\ client[c].pc = "sent" /\ client[c].worker \in up /\ client[c].kind = "generate"
    /\ _finish_url(c)
    /\ \E output \in args.outputs :
        client' = [client EXCEPT ![c].pc = "answered", ![c].output = output, ![c].version = weight_version]
    /\ UNCHANGED <<args, poolVars, treeVars, left, leaked>>

\* BUG: the tries are not counted.
AbortedAlways(c) ==
    /\ client[c].pc = "sent" /\ client[c].worker \in up /\ client[c].kind = "generate"
    /\ args.aborts
    /\ _finish_url(c)
    /\ client' = [client EXCEPT ![c].pc = "proxy"]
    /\ UNCHANGED <<args, poolVars, treeVars, left, leaked>>

\* The generation was aborted, or the answer is none: the middleware sleeps and
\* tries again.  With no try left it goes on with what an aborted one generated, or
\* returns without.
Aborted(c) ==
    /\ client[c].pc = "sent" /\ client[c].worker \in up /\ client[c].kind = "generate"
    /\ args.aborts
    /\ _finish_url(c)
    /\ IF client[c].try < args.tries
       THEN client' = [client EXCEPT ![c] = [client[c] EXCEPT !.pc = "proxy", !.try = @ + 1]]
       ELSE \E output \in args.outputs \cup {<<>>} :
            \/ client' = [client EXCEPT ![c] = [@ EXCEPT !.pc = "answered", !.output = output,
                                                        !.version = weight_version]]
            \/ client' = [client EXCEPT ![c] = Request]
    /\ UNCHANGED <<args, poolVars, treeVars, left, leaked>>

\* The middleware returns the answer.
Returns(c) == client[c].pc = "answered" /\ client' = [client EXCEPT ![c] = Request]

\* Before it does, the tokens found before the request and those of the answer are
\* inserted into the tree as it is now.
Cache(c) ==
    /\ Returns(c)
    /\ LET r == client[c] IN
       tree' = insert(tree, r.text \o Spelling(r.output), r.tokens \o r.output,
                      r.mask \o [i \in DOMAIN r.output |-> 1], r.version, args.limits)
    /\ UNCHANGED <<args, poolVars, worker_request_counts, weight_version, left, leaked>>

\* The trainer updates the weights.
NewWeights ==
    /\ weight_version < args.versions
    /\ weight_version' = weight_version + 1
    /\ UNCHANGED <<args, poolVars, worker_request_counts, client, tree, left, leaked>>

(***************************************************************************)
(* Specification.                                                          *)
(***************************************************************************)
HealthStep == StartChecks \/ (\E w \in Workers : CheckReturns(w)) \/ ApplyChecks

RequestStep(c) ==
    \/ \E w \in Workers : _use_url(c, w)
    \/ NoWorker(c) \/ BodyArrives(c) \/ ProxyFails(c) \/ Answers(c) \/ Generated(c) \/ Aborted(c)

Environment ==
    \/ \E w \in Workers : add_worker(w) \/ Crash(w) \/ Restart(w)
    \/ \E c \in Clients : Proxy(c) \/ Disconnects(c) \/ \E text \in args.prompts : Generate(c, text)
    \/ NewWeights

Next == HealthStep \/ (\E c \in Clients : RequestStep(c) \/ Cache(c)) \/ Environment

Spec == Init /\ [][Next]_vars

\* The event loop runs, and workers answer.  Cache(c) is the step of Next that is Returns(c).
FairSpec == Spec /\ WF_vars(HealthStep) /\ \A c \in UNION {a.clients : a \in Configurations} :
    WF_vars(c \in Clients /\ RequestStep(c)) /\ WF_client(c \in Clients /\ Returns(c))

(***************************************************************************)
(* Properties.                                                             *)
(***************************************************************************)
(* The load of a worker is the number of its requests under way, whatever  *)
(* way they end, and of those whose client left before the body came; the  *)
(* assertion that it is never negative holds.                              *)
CountsAreActive ==
    \A w \in ToSet(worker_urls) :
        worker_request_counts[w] = leaked[w]
            + Cardinality({c \in Clients : client[c].worker = w /\ client[c].pc \in {"body", "sent"}})

(* A request ends, through aborted generations and lost workers.           *)
RequestsEnd ==
    \A c \in UNION {a.clients : a \in Configurations} :
        [](c \in Clients /\ client[c].pc # "idle" => <>(client[c].pc = "idle"))

(* The tree changes between a lookup and its insertion, and still: where   *)
(* tokens are characters the tokens of a node spell its key, the counters  *)
(* of the cache agree with what is in the tree, and a collection removes   *)
(* nothing that a version above the threshold wrote.  What a version at    *)
(* the threshold wrote goes too: see CollectsBelow.                        *)
KeysAndCounters ==
    /\ ~args.merges => \A p \in Nodes(tree) : Spelling(tree.nodes[p].tokens) = Last(p)
    /\ tree.cur_cache_size = MapThenSumSet(LAMBDA p : Len(tree.nodes[p].tokens), Nodes(tree))
    /\ tree.total_entries = Cardinality(Nodes(tree))

CollectsOld ==
    \A p \in Nodes(tree) \ Nodes(tree)' :
        tree.nodes[p].weight_version <= weight_version - args.limits.gc_threshold_k

CacheSound == [][KeysAndCounters' /\ CollectsOld]_vars

(* A collection removes "nodes with weight_version < (current_version - k)"*)
(* and keeps those at the threshold, as the docstrings of the tree say.    *)
CollectsBelow ==
    [][\A p \in Nodes(tree) \ Nodes(tree)' :
            tree.nodes[p].weight_version < weight_version - args.limits.gc_threshold_k]_vars
=============================================================================
