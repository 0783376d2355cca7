--------------------------- MODULE SessionServer ---------------------------
(***************************************************************************)
(* The session server (miles/rollout/session): trajectories of agent       *)
(* conversations, each guarded by an asyncio lock, and the handlers that   *)
(* change them: POST /sessions, POST .../v1/chat/completions and           *)
(* DELETE /sessions/{id}.                                                  *)
(*                                                                         *)
(* One event loop runs every handler, so a handler is atomic between two   *)
(* awaits.  chat_completions awaits the lock (phase 1), the request body   *)
(* while it holds the lock, the backend without the lock (phase 2) and the *)
(* lock again (phase 3); delete_session awaits the lock once.              *)
(*                                                                         *)
(* A message is a model value; so is the token that stands for it.         *)
(***************************************************************************)
EXTENDS Integers, Sequences, FiniteSets

CONSTANTS
    Sessions,     \* session ids uuid4() may return
    Clients,      \* connections; each has one request in flight at most
    Asst,         \* messages with role "assistant"
    Other,        \* messages with any other role
    Appendable,   \* those of Other whose role is in allowed_append_roles
    Requests,     \* the message lists agents send
    FewShot,      \* may the first request of a session hold assistant messages
    MaxTrim,      \* TITOTokenizer.max_trim_tokens (0; 1 for GLM-4.7)
    Truncation,   \* may a completion run out of max_tokens
    Boundary,     \* the token between messages (<|im_end|>, <|observation|>)
    Stops,        \* the tokens an assistant's turn may stop on, Boundary among them
    None

MAX_ASSISTANT_ROLLBACK_STEPS == 1

Msgs == Asst \cup Other
Tokens == Msgs \cup Stops

ASSUME SessionAssumption ==
    /\ Asst \cap Other = {} /\ Appendable \subseteq Other
    /\ Requests \subseteq Seq(Msgs)
    /\ MaxTrim \in {0, 1} /\ Truncation \in BOOLEAN /\ FewShot \in BOOLEAN
    /\ Boundary \in Stops /\ Stops \cap Msgs = {} /\ None \notin Clients /\ None \notin Sessions

VARIABLES
    registry,     \* SessionRegistry.sessions: the ids it holds
    traj,         \* the LinearTrajectory of every id, kept alive by handlers
    owner,        \* per session: the client whose handler holds lock, or None
    waiters,      \* per session: the handlers queued on lock, first come first served
    req           \* per client: the handler it waits for

vars == <<registry, traj, owner, waiters, req>>

(***************************************************************************)
(* Data.                                                                   *)
(***************************************************************************)
Record == [input_ids : Seq(Tokens), output_ids : Seq(Tokens)]

Trajectory ==
    [closing : BOOLEAN, messages : Seq(Msgs), records : Seq(Record),
     trajectory_token_ids : Seq(Seq(Tokens)), num_assistant : Nat]

LinearTrajectory ==
    [closing |-> FALSE, messages |-> <<>>, records |-> <<>>,
     trajectory_token_ids |-> <<>>, num_assistant |-> 0]

PCs == {"idle", "wait1", "body", "proxy", "wait3", "waitD"}

\* What a handler keeps on its stack across awaits.
Handler ==
    [pc : PCs, sid : Sessions \cup {None}, messages : Seq(Msgs),
     prompt : Seq(Tokens), expected : Nat, reply : Seq(Tokens)]

Idle == [pc |-> "idle", sid |-> None, messages |-> <<>>, prompt |-> <<>>,
         expected |-> 0, reply |-> <<>>]

At(pc, s) == [Idle EXCEPT !.pc = pc, !.sid = s]

(***************************************************************************)
(* Tokens.                                                                 *)
(***************************************************************************)
\* The chat template renders a message and a boundary token; the boundary
\* closes the message, or opens it for the tokenizer that trims (GLM-4.7).
render_messages(msgs) ==
    [i \in 1..(2 * Len(msgs)) |->
        IF (i % 2 = 1) <=> (MaxTrim = 0) THEN msgs[(i + 1) \div 2] ELSE Boundary]

\* Only the messages after the first n are rendered; the trimming tokenizer
\* drops the token the turn stopped on: the next message opens with its own.
merge_tokens(n, msgs, prefix) ==
    (IF MaxTrim = 1 /\ prefix[Len(prefix)] \in Stops
     THEN SubSeq(prefix, 1, Len(prefix) - 1) ELSE prefix)
        \o render_messages(SubSeq(msgs, n + 1, Len(msgs)))

\* What SGLang may generate: an assistant message and the token it stops on,
\* or the message alone when max_tokens ends it.
Completions ==
    {<<a, stop>> : a \in Asst, stop \in Stops} \cup (IF Truncation THEN {<<a>> : a \in Asst} ELSE {})

token_ids(t) == t.trajectory_token_ids[Len(t.trajectory_token_ids)]

(***************************************************************************)
(* LinearTrajectory.prepare_pretokenized and its rollback.                 *)
(***************************************************************************)
AsstPos(msgs) == {i \in 1..Len(msgs) : msgs[i] \in Asst}

Agree(a, b, n) == \A i \in 1..n : a[i] = b[i]

\* match_len >= len(stored)
IsExtension(stored, msgs) ==
    Len(stored) <= Len(msgs) /\ Agree(stored, msgs, Len(stored))

\* Positions of the assistant messages inside the matched prefix.
MatchedAsst(stored, msgs) ==
    {i \in AsstPos(stored) : i <= Len(msgs) /\ Agree(stored, msgs, i)}

\* checkpoint_index + 1
checkpoint_count(t, msgs) == Cardinality(MatchedAsst(t.messages, msgs))

RollbackFails(t, msgs) ==
    \/ MatchedAsst(t.messages, msgs) = {}
    \/ t.num_assistant - checkpoint_count(t, msgs) > MAX_ASSISTANT_ROLLBACK_STEPS

\* rollback_msg_end: the last assistant message of the matched prefix.
IsRollbackEnd(t, msgs, end) ==
    /\ end \in MatchedAsst(t.messages, msgs)
    /\ \A i \in MatchedAsst(t.messages, msgs) : i <= end

\* Python's s[:k]
Slice(s, k) == IF k <= Len(s) THEN SubSeq(s, 1, k) ELSE s

\* BUG: the rollback forgets to drop the token checkpoint of the last turn.
RollbackKeepsTokens(t, msgs, end) ==
    LET k == checkpoint_count(t, msgs)
    IN  [t EXCEPT !.messages = SubSeq(t.messages, 1, end),
                  !.records = Slice(t.records, k),
                  !.num_assistant = k]

\* BUG: records are not truncated with the token checkpoints.
RollbackKeepsRecords(t, msgs, end) ==
    LET k == checkpoint_count(t, msgs)
    IN  [t EXCEPT !.messages = SubSeq(t.messages, 1, end),
                  !.trajectory_token_ids = Slice(t.trajectory_token_ids, k),
                  !.num_assistant = k]

Rollback(t, msgs, end) ==
    LET k == checkpoint_count(t, msgs)
    IN  [t EXCEPT !.messages = SubSeq(t.messages, 1, end),
                  !.trajectory_token_ids = Slice(t.trajectory_token_ids, k),
                  !.records = Slice(t.records, k),
                  !.num_assistant = k]

\* assert_messages_append_only_with_allowed_role, for an extension
RolesAllowed(stored, msgs) ==
    \A i \in (Len(stored) + 1)..Len(msgs) : msgs[i] \in Appendable

(***************************************************************************)
(* LinearTrajectory.update_pretokenized_state and append_record.           *)
(***************************************************************************)
\* BUG: the prefix of the stored tokens is not compared.
NoPrefixCheck(t, all) == FALSE

\* The stored tokens, less the tolerated tail, are not a prefix of the new ones.
PrefixMismatch(t, all) ==
    /\ t.trajectory_token_ids # <<>>
    /\ LET n == Len(token_ids(t)) - MaxTrim
       IN  n > 0 /\ ~(n <= Len(all) /\ Agree(token_ids(t), all, n))

\* BUG: what is kept as the assistant message is the whole completion.
UpdateKeepsCompletion(t, r) ==
    [t EXCEPT !.messages = Append(r.messages, r.reply),
              !.trajectory_token_ids = Append(t.trajectory_token_ids, r.prompt \o r.reply),
              !.records = Append(t.records, [input_ids |-> r.prompt, output_ids |-> r.reply]),
              !.num_assistant = t.num_assistant + 1]

update_pretokenized_state(t, r) ==
    [t EXCEPT !.messages = Append(r.messages, r.reply[1]),
              !.trajectory_token_ids = Append(t.trajectory_token_ids, r.prompt \o r.reply),
              !.records = Append(t.records, [input_ids |-> r.prompt, output_ids |-> r.reply]),
              !.num_assistant = t.num_assistant + 1]

\* BUG: phase 3 does not look at num_assistant.
CommitUnversioned(t, r) ==
    IF t.closing \/ PrefixMismatch(t, r.prompt \o r.reply)
    THEN t ELSE update_pretokenized_state(t, r)

\* Phase 3 under the lock: closed, changed and mismatching sessions are left
\* alone (the last with a TokenizationError).
Commit(t, r) ==
    IF \/ t.closing
       \/ t.num_assistant # r.expected
       \/ PrefixMismatch(t, r.prompt \o r.reply)
    THEN t ELSE update_pretokenized_state(t, r)

(***************************************************************************)
(* The lock: asyncio.Lock hands itself over in the order of the waiters,   *)
(* and a newcomer never overtakes one.                                     *)
(***************************************************************************)
Free(s) == owner[s] = None /\ waiters[s] = <<>>

Turn(c, s) == owner[s] = None /\ waiters[s] # <<>> /\ Head(waiters[s]) = c

Enqueue(c, s) == waiters' = [waiters EXCEPT ![s] = Append(@, c)]

Dequeue(s) == waiters' = [waiters EXCEPT ![s] = Tail(@)]

(***************************************************************************)
(* The handlers.                                                           *)
(***************************************************************************)
Init ==
    /\ registry = {}
    /\ traj = [s \in Sessions |-> LinearTrajectory]
    /\ owner = [s \in Sessions |-> None]
    /\ waiters = [s \in Sessions |-> <<>>]
    /\ req = [c \in Clients |-> Idle]

\* POST /sessions: uuid4 never repeats an id, so not one that was deleted.
create_session(s) ==
    /\ s \notin registry /\ ~traj[s].closing
    /\ registry' = registry \cup {s}
    /\ traj' = [traj EXCEPT ![s] = LinearTrajectory]
    /\ UNCHANGED <<owner, waiters, req>>

\* get_session finds it and it is not closing; every other request is a 404.
Open(s) == s \in registry /\ ~traj[s].closing

\* chat_completions up to the first await.
ChatArrives(c, s) ==
    /\ req[c].pc = "idle" /\ Open(s)
    /\ \/ /\ Free(s)
          /\ owner' = [owner EXCEPT ![s] = c]
          /\ req' = [req EXCEPT ![c] = At("body", s)]
          /\ UNCHANGED waiters
       \/ /\ ~Free(s)
          /\ Enqueue(c, s)
          /\ req' = [req EXCEPT ![c] = At("wait1", s)]
          /\ UNCHANGED owner
    /\ UNCHANGED <<registry, traj>>

\* The lock is granted: closing is checked again (404), else the body is awaited.
ChatLocked(c) ==
    LET s == req[c].sid IN
    /\ req[c].pc = "wait1" /\ Turn(c, s)
    /\ Dequeue(s)
    /\ \/ /\ traj[s].closing
          /\ req' = [req EXCEPT ![c] = Idle]
          /\ UNCHANGED owner
       \/ /\ ~traj[s].closing
          /\ owner' = [owner EXCEPT ![s] = c]
          /\ req' = [req EXCEPT ![c] = At("body", s)]
    /\ UNCHANGED <<registry, traj>>

\* BUG: the lock is not released when the body cannot be read.
BodyKeepsLock(c) ==
    /\ req[c].pc = "body"
    /\ req' = [req EXCEPT ![c] = Idle]
    /\ UNCHANGED <<registry, traj, owner, waiters>>

\* The client disconnects or the body is not JSON: async with lets go of the lock.
BodyFails(c) ==
    /\ req[c].pc = "body"
    /\ owner' = [owner EXCEPT ![req[c].sid] = None]
    /\ req' = [req EXCEPT ![c] = Idle]
    /\ UNCHANGED <<registry, traj, waiters>>

\* End of phase 1: remember the version, release the lock, call the backend.
Forward(c, t, msgs, prompt) ==
    /\ req' = [req EXCEPT ![c] = [@ EXCEPT !.pc = "proxy", !.messages = msgs,
                                           !.prompt = prompt,
                                           !.expected = t.num_assistant]]
    /\ owner' = [owner EXCEPT ![req[c].sid] = None]
    /\ traj' = [traj EXCEPT ![req[c].sid] = t]
    /\ UNCHANGED <<registry, waiters>>

\* MessageValidationError: the lock is released, t stays behind.
Reject(c, t) ==
    /\ req' = [req EXCEPT ![c] = Idle]
    /\ owner' = [owner EXCEPT ![req[c].sid] = None]
    /\ traj' = [traj EXCEPT ![req[c].sid] = t]
    /\ UNCHANGED <<registry, waiters>>

\* The append-only check on t, and the merged prompt.
AppendOnly(c, t, msgs) ==
    \/ /\ RolesAllowed(t.messages, msgs)
       /\ Forward(c, t, msgs, merge_tokens(Len(t.messages), msgs, token_ids(t)))
    \/ /\ ~RolesAllowed(t.messages, msgs)
       /\ Reject(c, t)

\* The body arrives and the session has no tokens: nothing is validated.
PrepareFirst(c, msgs) ==
    LET t == traj[req[c].sid] IN
    /\ req[c].pc = "body" /\ t.trajectory_token_ids = <<>>
    /\ FewShot \/ AsstPos(msgs) = {}
    /\ Forward(c, t, msgs, render_messages(msgs))

\* The body arrives and extends the stored messages.
PrepareExtension(c, msgs) ==
    LET t == traj[req[c].sid] IN
    /\ req[c].pc = "body" /\ t.trajectory_token_ids # <<>>
    /\ IsExtension(t.messages, msgs)
    /\ AppendOnly(c, t, msgs)

\* The body arrives and diverges from the stored messages.
PrepareRollback(c, msgs) ==
    LET t == traj[req[c].sid] IN
    /\ req[c].pc = "body" /\ t.trajectory_token_ids # <<>>
    /\ ~IsExtension(t.messages, msgs)
    /\ \/ /\ RollbackFails(t, msgs)
          /\ Reject(c, t)
       \/ /\ ~RollbackFails(t, msgs)
          /\ \E end \in 1..Len(t.messages) :
                /\ IsRollbackEnd(t, msgs, end)
                /\ AppendOnly(c, Rollback(t, msgs, end), msgs)

\* A transport error, a status other than 200, or an UpstreamResponseError.
ProxyFails(c) ==
    /\ req[c].pc = "proxy"
    /\ req' = [req EXCEPT ![c] = Idle]
    /\ UNCHANGED <<registry, traj, owner, waiters>>

\* The backend answers; phase 3 follows at once when the lock is free.
ProxyReturns(c, reply) ==
    LET s == req[c].sid
        r == [req[c] EXCEPT !.reply = reply]
    IN
    /\ req[c].pc = "proxy"
    /\ \/ /\ Free(s)
          /\ traj' = [traj EXCEPT ![s] = Commit(traj[s], r)]
          /\ req' = [req EXCEPT ![c] = Idle]
          /\ UNCHANGED waiters
       \/ /\ ~Free(s)
          /\ Enqueue(c, s)
          /\ req' = [req EXCEPT ![c] = [r EXCEPT !.pc = "wait3"]]
          /\ UNCHANGED traj
    /\ UNCHANGED <<registry, owner>>

CommitLocked(c) ==
    LET s == req[c].sid IN
    /\ req[c].pc = "wait3" /\ Turn(c, s)
    /\ Dequeue(s)
    /\ traj' = [traj EXCEPT ![s] = Commit(traj[s], req[c])]
    /\ req' = [req EXCEPT ![c] = Idle]
    /\ UNCHANGED <<registry, owner>>

\* DELETE /sessions/{id} up to the lock; it is through at once when that is free.
delete_session(c, s) ==
    /\ req[c].pc = "idle" /\ Open(s)
    /\ traj' = [traj EXCEPT ![s].closing = TRUE]
    /\ \/ /\ Free(s)
          /\ registry' = registry \ {s}
          /\ UNCHANGED <<waiters, req>>
       \/ /\ ~Free(s)
          /\ Enqueue(c, s)
          /\ req' = [req EXCEPT ![c] = At("waitD", s)]
          /\ UNCHANGED registry
    /\ UNCHANGED owner

\* BUG: the delete does not wait for the handlers queued before it.
DeleteOvertakes(c) ==
    LET s == req[c].sid IN
    /\ req[c].pc = "waitD"
    /\ waiters' = [waiters EXCEPT ![s] = SelectSeq(@, LAMBDA d : d # c)]
    /\ registry' = registry \ {s}
    /\ req' = [req EXCEPT ![c] = Idle]
    /\ UNCHANGED <<traj, owner>>

DeleteLocked(c) ==
    LET s == req[c].sid IN
    /\ req[c].pc = "waitD" /\ Turn(c, s)
    /\ Dequeue(s)
    /\ registry' = registry \ {s}
    /\ req' = [req EXCEPT ![c] = Idle]
    /\ UNCHANGED <<traj, owner>>

\* No request is in flight and every id of the instance has been used.
Quiescent ==
    /\ registry = {} /\ \A s \in Sessions : traj[s].closing
    /\ \A c \in Clients : req[c].pc = "idle"
    /\ UNCHANGED vars

(***************************************************************************)
(* Specification.                                                          *)
(***************************************************************************)
Prepare(c) ==
    \E msgs \in Requests :
        PrepareFirst(c, msgs) \/ PrepareExtension(c, msgs) \/ PrepareRollback(c, msgs)

\* The steps a handler takes once its request has arrived.
HandlerStep(c) ==
    \/ ChatLocked(c) \/ BodyFails(c) \/ Prepare(c)
    \/ ProxyFails(c) \/ (\E reply \in Completions : ProxyReturns(c, reply))
    \/ CommitLocked(c) \/ DeleteLocked(c)

Next ==
    \/ \E s \in Sessions : create_session(s)
    \/ \E c \in Clients, s \in Sessions : ChatArrives(c, s) \/ delete_session(c, s)
    \/ \E c \in Clients : HandlerStep(c)
    \/ Quiescent

Spec == Init /\ [][Next]_vars

\* The event loop runs every ready task, a body arrives or its client
\* disconnects, and httpx times out: a handler that can step takes a step.
FairSpec == Spec /\ \A c \in Clients : WF_vars(HandlerStep(c))

(***************************************************************************)
(* Properties.                                                             *)
(***************************************************************************)
TypeOK ==
    /\ registry \subseteq Sessions
    /\ traj \in [Sessions -> Trajectory]
    /\ owner \in [Sessions -> Clients \cup {None}]
    /\ waiters \in [Sessions -> Seq(Clients)]
    /\ req \in [Clients -> Handler]

(* The four parts of a LinearTrajectory that its methods index by one      *)
(* another stay in step: num_assistant counts the assistant messages, and  *)
(* there is one token checkpoint and one record for each of them.          *)
CheckpointsAligned ==
    \A s \in Sessions :
        /\ Cardinality(AsstPos(traj[s].messages)) = traj[s].num_assistant
        /\ Len(traj[s].trajectory_token_ids) = traj[s].num_assistant
        /\ Len(traj[s].records) = traj[s].num_assistant

\* How many of the positions S are p or less.
Rank(S, p) == Cardinality({q \in S : q <= p})

\* The positions of the tokens that stand for messages.
Said(tokens) == {p \in 1..Len(tokens) : tokens[p] \notin Stops}

\* Apart from stop tokens the tokens are the messages, in their order.
Spells(tokens, msgs) ==
    /\ Cardinality(Said(tokens)) = Len(msgs)
    /\ \A p \in Said(tokens) : tokens[p] = msgs[Rank(Said(tokens), p)]

(* Every token checkpoint tokenizes the stored messages up to and          *)
(* including its assistant message, whatever commits and rollbacks of      *)
(* concurrent requests came before: what is trained on is what was said.   *)
TokensMatchMessages ==
    \A s \in Sessions : \A p \in AsstPos(traj[s].messages) :
        LET k == Rank(AsstPos(traj[s].messages), p)
        IN  /\ k <= Len(traj[s].trajectory_token_ids)
            /\ Spells(traj[s].trajectory_token_ids[k], SubSeq(traj[s].messages, 1, p))

(* The records a sample is built from form one chain: a record's tokens    *)
(* are its checkpoint, and each checkpoint extends the one before it up to *)
(* max_trim_tokens.                                                        *)
RecordsFormChain ==
    \A s \in Sessions : \A k \in 1..Len(traj[s].records) :
        LET ids == traj[s].trajectory_token_ids
            rec == traj[s].records[k]
        IN  /\ k <= Len(ids)
            /\ ids[k] = rec.input_ids \o rec.output_ids
            /\ k > 1 => LET n == Len(ids[k - 1]) - MaxTrim
                        IN  n <= Len(rec.input_ids) /\ Agree(ids[k - 1], rec.input_ids, n)

(* A commit never replaces history: when a checkpoint is added, the stored *)
(* messages are a prefix of the new ones, even if the session was rolled   *)
(* back and grew again to the same num_assistant during the proxy call.    *)
CommitExtendsStored ==
    [][\A s \in Sessions : traj'[s].num_assistant > traj[s].num_assistant =>
            IsExtension(traj[s].messages, traj'[s].messages)]_vars

(* Once DELETE has removed a session, the handlers that still refer to its *)
(* trajectory leave it as it was.                                          *)
RemovedIsFrozen ==
    [][\A s \in Sessions : traj[s].closing /\ s \notin registry =>
            traj'[s] = traj[s] /\ s \notin registry']_vars

(* Every request is answered.                                              *)
RequestsAnswered ==
    \A c \in Clients : req[c].pc # "idle" ~> req[c].pc = "idle"

(***************************************************************************)
(* The inductive invariants.  A handler under way belongs to a session; a  *)
(* request in the backend carries as many assistant messages as the        *)
(* version it was prepared against.                                        *)
(***************************************************************************)
HandlersFormed ==
    \A c \in Clients :
        /\ req[c].pc # "idle" => req[c].sid \in Sessions
        /\ req[c].pc = "wait3" => req[c].reply \in Completions

TypeInv == TypeOK /\ HandlersFormed

RequestsAligned ==
    \A c \in Clients : req[c].pc \in {"proxy", "wait3"} =>
        Cardinality(AsstPos(req[c].messages)) = req[c].expected

AlignedInv == RequestsAligned /\ CheckpointsAligned
=============================================================================
