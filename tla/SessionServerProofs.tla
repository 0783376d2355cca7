------------------------ MODULE SessionServerProofs ------------------------
(***************************************************************************)
(* For every set of sessions, clients and messages: the session server     *)
(* keeps its types, and, when no first request brings assistant messages   *)
(* of its own, the parts of every trajectory stay aligned and the records  *)
(* form a chain; and, unless a tokenizer that trims meets truncated        *)
(* answers, the tokens spell the messages, no commit replaces history, and *)
(* the records of every session can be made into samples.                  *)
(***************************************************************************)
EXTENDS AgentSessions, DataInduction, FiniteSetTheorems, TLAPS

USE DEF MAX_ASSISTANT_ROLLBACK_STEPS

(***************************************************************************)
(* Counting assistant messages.                                            *)
(***************************************************************************)

(* The assistant positions of a message list are a finite set of naturals. *)
LEMMA AsstPosFinite ==
    ASSUME NEW msgs \in Seq(Msgs)
    PROVE  /\ IsFiniteSet(AsstPos(msgs))
           /\ Cardinality(AsstPos(msgs)) \in Nat
  <1>1. IsFiniteSet(1..Len(msgs))
    BY FS_Interval
  <1>2. AsstPos(msgs) \subseteq 1..Len(msgs)
    BY DEF AsstPos
  <1>3. IsFiniteSet(AsstPos(msgs))
    BY <1>1, <1>2, FS_Subset
  <1> QED
    BY <1>3, FS_CardinalityType

(* An assistant message at the end counts one more.                        *)
LEMMA AsstPosAppend ==
    ASSUME NEW msgs \in Seq(Msgs), NEW a \in Asst
    PROVE  Cardinality(AsstPos(Append(msgs, a))) = Cardinality(AsstPos(msgs)) + 1
  <1> DEFINE n == Len(msgs)
             new == Append(msgs, a)
  <1>1. /\ n \in Nat /\ Len(new) = n + 1
        /\ \A i \in 1..n : new[i] = msgs[i]
        /\ new[n + 1] = a
    BY DEF Msgs
  <1>2. AsstPos(new) = AsstPos(msgs) \cup {n + 1}
    BY <1>1, SMT DEF AsstPos
  <1>3. n + 1 \notin AsstPos(msgs)
    BY <1>1 DEF AsstPos
  <1> QED
    BY <1>2, <1>3, AsstPosFinite, FS_AddElement

(* Appending messages of other roles leaves the count alone.               *)
LEMMA AsstPosExtension ==
    ASSUME NEW stored \in Seq(Msgs), NEW msgs \in Seq(Msgs),
           IsExtension(stored, msgs), RolesAllowed(stored, msgs)
    PROVE  AsstPos(msgs) = AsstPos(stored)
  <1>1. \A i \in (Len(stored) + 1)..Len(msgs) : msgs[i] \notin Asst
    BY SessionAssumption DEF RolesAllowed
  <1>2. Len(stored) \in Nat /\ Len(msgs) \in Nat /\ Len(stored) <= Len(msgs)
    BY DEF IsExtension
  <1>3. \A i \in 1..Len(stored) : stored[i] = msgs[i]
    BY DEF IsExtension, Agree
  <1>4. \A i \in 1..Len(msgs) : i \in 1..Len(stored) \/ i \in (Len(stored) + 1)..Len(msgs)
    BY <1>2
  <1> QED
    BY <1>1, <1>2, <1>3, <1>4 DEF AsstPos

(* The messages a rollback keeps are the matched ones: they end with the   *)
(* last matched assistant, count every matched assistant and no other.     *)
LEMMA RollbackMessages ==
    ASSUME NEW t \in Trajectory, NEW msgs \in Seq(Msgs), NEW end \in 1..Len(t.messages),
           IsRollbackEnd(t, msgs, end)
    PROVE  /\ SubSeq(t.messages, 1, end) \in Seq(Msgs)
           /\ IsExtension(SubSeq(t.messages, 1, end), msgs)
           /\ AsstPos(SubSeq(t.messages, 1, end)) = MatchedAsst(t.messages, msgs)
  <1> DEFINE kept == SubSeq(t.messages, 1, end)
  <1>1. t.messages \in Seq(Msgs)
    BY DEF Trajectory
  <1>2. /\ kept \in Seq(Msgs) /\ Len(kept) = end
        /\ \A i \in 1..end : kept[i] = t.messages[i]
    BY <1>1
  <1>3. end <= Len(msgs) /\ \A i \in 1..end : t.messages[i] = msgs[i]
    BY DEF IsRollbackEnd, MatchedAsst, Agree
  <1>4. IsExtension(kept, msgs)
    BY <1>2, <1>3 DEF IsExtension, Agree
  <1>5. ASSUME NEW i \in AsstPos(kept)
        PROVE  i \in MatchedAsst(t.messages, msgs)
    <2>1. i \in 1..end /\ t.messages[i] \in Asst
      BY <1>2 DEF AsstPos
    <2>2. i \in AsstPos(t.messages)
      BY <1>1, <2>1 DEF AsstPos
    <2>3. i <= Len(msgs) /\ Agree(t.messages, msgs, i)
      BY <1>3, <2>1 DEF Agree
    <2> QED
      BY <2>2, <2>3 DEF MatchedAsst
  <1>6. ASSUME NEW i \in MatchedAsst(t.messages, msgs)
        PROVE  i \in AsstPos(kept)
    <2>1. i <= end
      BY DEF IsRollbackEnd
    <2>2. i \in 1..Len(t.messages) /\ t.messages[i] \in Asst
      BY DEF MatchedAsst, AsstPos
    <2> QED
      BY <1>1, <1>2, <2>1, <2>2 DEF AsstPos
  <1> QED
    BY <1>2, <1>4, <1>5, <1>6

(* A rollback is a trajectory, extended by the request, with a checkpoint. *)
LEMMA RollbackType ==
    ASSUME NEW t \in Trajectory, NEW msgs \in Seq(Msgs), NEW end \in 1..Len(t.messages),
           IsRollbackEnd(t, msgs, end), t.trajectory_token_ids # <<>>
    PROVE  LET r == Rollback(t, msgs, end)
               k == checkpoint_count(t, msgs)
           IN  /\ r \in Trajectory
               /\ r.trajectory_token_ids # <<>>
               /\ IsExtension(r.messages, msgs)
               /\ r.messages = SubSeq(t.messages, 1, end)
               /\ r.trajectory_token_ids = Slice(t.trajectory_token_ids, k)
               /\ r.records = Slice(t.records, k)
               /\ r.num_assistant = k
               /\ r.closing = t.closing
               /\ k \in Nat \ {0}
               /\ k <= Cardinality(AsstPos(t.messages))
  <1> DEFINE M == MatchedAsst(t.messages, msgs)
             k == checkpoint_count(t, msgs)
             r == Rollback(t, msgs, end)
  <1>1. /\ t.messages \in Seq(Msgs) /\ t.records \in Seq(Record)
        /\ t.trajectory_token_ids \in Seq(Seq(Tokens))
    BY DEF Trajectory
  <1>2. IsFiniteSet(AsstPos(t.messages)) /\ M \subseteq AsstPos(t.messages)
    BY <1>1, AsstPosFinite DEF MatchedAsst
  <1>3. IsFiniteSet(M) /\ Cardinality(M) \in Nat
        /\ Cardinality(M) <= Cardinality(AsstPos(t.messages))
    BY <1>2, FS_Subset, FS_CardinalityType
  <1>4. Cardinality(M) # 0
    BY <1>3, FS_EmptySet DEF IsRollbackEnd
  <1>5. k \in Nat \ {0} /\ k <= Cardinality(AsstPos(t.messages))
    BY <1>3, <1>4 DEF checkpoint_count
  <1>6. /\ SubSeq(t.messages, 1, end) \in Seq(Msgs)
        /\ IsExtension(SubSeq(t.messages, 1, end), msgs)
    BY RollbackMessages
  <1>7. r = [t EXCEPT !.messages = SubSeq(t.messages, 1, end),
                      !.trajectory_token_ids = Slice(t.trajectory_token_ids, k),
                      !.records = Slice(t.records, k),
                      !.num_assistant = k]
    BY DEF Rollback
  <1> HIDE DEF k
  <1>8. /\ Slice(t.trajectory_token_ids, k) \in Seq(Seq(Tokens))
        /\ Slice(t.trajectory_token_ids, k) # <<>>
    <2>1. Slice(t.trajectory_token_ids, k) \in Seq(Seq(Tokens))
      BY <1>1, <1>5 DEF Slice
    <2>2. Len(t.trajectory_token_ids) # 0
      BY <1>1
    <2>3. Len(Slice(t.trajectory_token_ids, k)) # 0
      BY <1>1, <1>5, <2>2 DEF Slice
    <2> QED
      BY <2>1, <2>3
  <1>9. Slice(t.records, k) \in Seq(Record)
    BY <1>1, <1>5 DEF Slice
  <1>10. /\ r \in Trajectory
         /\ r.messages = SubSeq(t.messages, 1, end)
         /\ r.trajectory_token_ids = Slice(t.trajectory_token_ids, k)
         /\ r.records = Slice(t.records, k)
         /\ r.num_assistant = k
         /\ r.closing = t.closing
    BY <1>5, <1>6, <1>7, <1>8, <1>9 DEF Trajectory
  <1> QED
    BY <1>5, <1>6, <1>8, <1>10 DEF k

(***************************************************************************)
(* Types.                                                                  *)
(***************************************************************************)

(* A rendered message list is a token list.                                *)
LEMMA RenderType ==
    ASSUME NEW msgs \in Seq(Msgs)
    PROVE  render_messages(msgs) \in Seq(Tokens)
  <1>1. \A i \in 1..(2 * Len(msgs)) : (i + 1) \div 2 \in 1..Len(msgs)
    OBVIOUS
  <1> DEFINE f == [i \in 1..(2 * Len(msgs)) |->
                    IF (i % 2 = 1) <=> (MaxTrim = 0) THEN msgs[(i + 1) \div 2] ELSE Boundary]
  <1>2. \A i \in 1..(2 * Len(msgs)) : msgs[(i + 1) \div 2] \in Tokens
    BY <1>1 DEF Tokens
  <1>3. f \in [1..(2 * Len(msgs)) -> Tokens]
    BY <1>2, SessionAssumption DEF Tokens
  <1>4. 2 * Len(msgs) \in Nat
    OBVIOUS
  <1> HIDE DEF f
  <1>5. f \in Seq(Tokens)
    BY <1>3, <1>4
  <1> QED
    BY <1>5 DEF render_messages, f

(* A merged prompt is a token list.                                        *)
LEMMA MergeType ==
    ASSUME NEW n \in Nat, NEW msgs \in Seq(Msgs), NEW prefix \in Seq(Tokens)
    PROVE  merge_tokens(n, msgs, prefix) \in Seq(Tokens)
  <1>1. SubSeq(msgs, n + 1, Len(msgs)) \in Seq(Msgs)
    OBVIOUS
  <1>2. SubSeq(prefix, 1, Len(prefix) - 1) \in Seq(Tokens)
    OBVIOUS
  <1>3. render_messages(SubSeq(msgs, n + 1, Len(msgs))) \in Seq(Tokens)
    BY <1>1, RenderType
  <1> QED
    BY <1>2, <1>3 DEF merge_tokens

(* A completion is a token list that starts with an assistant message.     *)
LEMMA CompletionType ==
    ASSUME NEW reply \in Completions
    PROVE  reply[1] \in Asst /\ reply \in Seq(Tokens)
  <1>1. PICK a \in Asst : (\E stop \in Stops : reply = <<a, stop>>) \/ reply = <<a>>
    BY SMT DEF Completions
  <1>2. a \in Tokens
    BY DEF Tokens, Msgs
  <1>3. ASSUME NEW stop \in Stops, reply = <<a, stop>>
        PROVE  reply[1] \in Asst /\ reply \in Seq(Tokens)
    <2>1. stop \in Tokens
      BY DEF Tokens
    <2> QED
      BY <1>2, <1>3, <2>1
  <1>4. CASE reply = <<a>>
    BY <1>2, <1>4
  <1> QED
    BY <1>1, <1>3, <1>4

(* The states a handler enters with an empty stack.            *)
LEMMA HandlerStates ==
    /\ Idle \in Handler /\ Idle.pc = "idle"
    /\ \A s \in Sessions :
        /\ At("body", s) \in Handler /\ At("body", s).pc = "body" /\ At("body", s).sid = s
        /\ At("wait1", s) \in Handler /\ At("wait1", s).pc = "wait1" /\ At("wait1", s).sid = s
        /\ At("waitD", s) \in Handler /\ At("waitD", s).pc = "waitD" /\ At("waitD", s).sid = s
  <1>1. <<>> \in Seq(Msgs) /\ <<>> \in Seq(Tokens) /\ 0 \in Nat
    OBVIOUS
  <1>2. Idle \in Handler /\ Idle.pc = "idle"
    BY <1>1 DEF Idle, Handler, PCs
  <1>3. ASSUME NEW s \in Sessions, NEW pc \in PCs
        PROVE  At(pc, s) \in Handler /\ At(pc, s).pc = pc /\ At(pc, s).sid = s
    BY <1>2 DEF At, Handler
  <1>4. "body" \in PCs /\ "wait1" \in PCs /\ "waitD" \in PCs
    BY DEF PCs
  <1> QED
    BY <1>2, <1>3, <1>4

(* A handler joins the queue of the lock, or its head leaves it.           *)
LEMMA QueueMoves ==
    ASSUME waiters \in [Sessions -> Seq(Clients)], NEW c \in Clients, NEW s \in Sessions,
           Enqueue(c, s) \/ (waiters[s] # <<>> /\ Dequeue(s))
    PROVE  waiters' \in [Sessions -> Seq(Clients)]
  <1>1. waiters[s] \in Seq(Clients)
    OBVIOUS
  <1>2. Append(waiters[s], c) \in Seq(Clients)
    BY <1>1
  <1>3. waiters[s] # <<>> => Tail(waiters[s]) \in Seq(Clients)
    BY <1>1
  <1> QED
    BY <1>2, <1>3 DEF Enqueue, Dequeue

(* A handler moves to a well-formed state.                                 *)
LEMMA HandlerMoves ==
    ASSUME TypeInv, NEW c \in Clients, NEW h \in Handler,
           h.pc # "idle" => h.sid \in Sessions,
           h.pc = "wait3" => h.reply \in Completions,
           req' = [req EXCEPT ![c] = h]
    PROVE  req' \in [Clients -> Handler] /\ HandlersFormed'
  BY DEF TypeInv, TypeOK, HandlersFormed

(* What phase 3 leaves behind is a trajectory: the one it found, or that   *)
(* with one more assistant message, checkpoint and record.                 *)
LEMMA CommitType ==
    ASSUME NEW t \in Trajectory, NEW r \in Handler, r.reply \in Completions
    PROVE  /\ Commit(t, r) \in Trajectory
           /\ \/ Commit(t, r) = t
              \/ /\ t.num_assistant = r.expected
                 /\ \E a \in Asst : Commit(t, r).messages = Append(r.messages, a)
                 /\ Len(Commit(t, r).trajectory_token_ids) = Len(t.trajectory_token_ids) + 1
                 /\ Len(Commit(t, r).records) = Len(t.records) + 1
                 /\ Commit(t, r).num_assistant = t.num_assistant + 1
  <1>1. r.reply[1] \in Asst /\ r.reply \in Seq(Tokens)
    BY CompletionType
  <1>2. /\ r.messages \in Seq(Msgs) /\ r.prompt \in Seq(Tokens)
        /\ t.trajectory_token_ids \in Seq(Seq(Tokens)) /\ t.records \in Seq(Record)
        /\ t.num_assistant \in Nat
    BY DEF Handler, Trajectory
  <1> DEFINE u == update_pretokenized_state(t, r)
  <1>3. r.prompt \o r.reply \in Seq(Tokens)
    BY <1>1, <1>2
  <1>4. [input_ids |-> r.prompt, output_ids |-> r.reply] \in Record
    BY <1>1, <1>2 DEF Record
  <1>5. Append(r.messages, r.reply[1]) \in Seq(Msgs)
    BY <1>1, <1>2 DEF Msgs
  <1>6. /\ Append(t.trajectory_token_ids, r.prompt \o r.reply) \in Seq(Seq(Tokens))
        /\ Append(t.records, [input_ids |-> r.prompt, output_ids |-> r.reply]) \in Seq(Record)
    BY <1>2, <1>3, <1>4
  <1> DEFINE m == Append(r.messages, r.reply[1])
             ids == Append(t.trajectory_token_ids, r.prompt \o r.reply)
             recs == Append(t.records, [input_ids |-> r.prompt, output_ids |-> r.reply])
             n == t.num_assistant + 1
  <1>7. u = [t EXCEPT !.messages = m, !.trajectory_token_ids = ids,
                      !.records = recs, !.num_assistant = n]
    BY DEF update_pretokenized_state
  <1>8. /\ Len(ids) = Len(t.trajectory_token_ids) + 1
        /\ Len(recs) = Len(t.records) + 1
        /\ n \in Nat
    BY <1>2
  <1> HIDE DEF u, m, ids, recs, n
  <1>9. /\ u \in Trajectory
        /\ u.messages = m /\ u.trajectory_token_ids = ids
        /\ u.records = recs /\ u.num_assistant = n
    <2>1. m \in Seq(Msgs) /\ ids \in Seq(Seq(Tokens)) /\ recs \in Seq(Record)
      BY <1>5, <1>6 DEF m, ids, recs
    <2> QED
      BY <1>7, <1>8, <2>1 DEF Trajectory
  <1> QED
    BY <1>1, <1>8, <1>9 DEF Commit, u, m, n

(* The end of phase 1 keeps the types.                                     *)
LEMMA ForwardType ==
    ASSUME TypeInv, NEW c \in Clients, req[c].pc = "body",
           NEW t \in Trajectory, NEW msgs \in Seq(Msgs), NEW prompt \in Seq(Tokens),
           Forward(c, t, msgs, prompt)
    PROVE  TypeInv'
  <1> DEFINE h == [req[c] EXCEPT !.pc = "proxy", !.messages = msgs,
                                 !.prompt = prompt, !.expected = t.num_assistant]
  <1>1. req[c] \in Handler /\ t.num_assistant \in Nat /\ req[c].sid \in Sessions
    BY DEF TypeInv, TypeOK, HandlersFormed, Trajectory
  <1>2. h \in Handler /\ h.pc = "proxy" /\ h.sid \in Sessions
    BY <1>1 DEF Handler, PCs
  <1>3. req' = [req EXCEPT ![c] = h]
    BY DEF Forward
  <1> HIDE DEF h
  <1>4. TypeOK'
    BY <1>1, <1>2, <1>3 DEF TypeInv, TypeOK, Forward
  <1>5. HandlersFormed'
    BY <1>2, <1>3 DEF TypeInv, TypeOK, HandlersFormed
  <1> QED
    BY <1>4, <1>5 DEF TypeInv

(* A rejected request keeps the types.                                     *)
LEMMA RejectType ==
    ASSUME TypeInv, NEW c \in Clients, req[c].pc = "body",
           NEW t \in Trajectory, Reject(c, t)
    PROVE  TypeInv'
  <1>1. Idle \in Handler /\ Idle.pc = "idle"
    BY DEF Idle, Handler, PCs
  <1>2. TypeOK'
    BY <1>1 DEF TypeInv, TypeOK, HandlersFormed, Reject
  <1>3. HandlersFormed'
    BY <1>1 DEF TypeInv, TypeOK, HandlersFormed, Reject
  <1> QED
    BY <1>2, <1>3 DEF TypeInv

(* The append-only check keeps the types.                                  *)
LEMMA AppendOnlyType ==
    ASSUME TypeInv, NEW c \in Clients, req[c].pc = "body",
           NEW t \in Trajectory, NEW msgs \in Seq(Msgs), t.trajectory_token_ids # <<>>,
           AppendOnly(c, t, msgs)
    PROVE  TypeInv'
  <1>1. token_ids(t) \in Seq(Tokens) /\ Len(t.messages) \in Nat
    BY DEF token_ids, Trajectory
  <1>2. merge_tokens(Len(t.messages), msgs, token_ids(t)) \in Seq(Tokens)
    BY <1>1, MergeType
  <1> QED
    BY <1>2, ForwardType, RejectType DEF AppendOnly

(* Every step keeps the types.                                             *)
LEMMA TypeStep ==
    ASSUME TypeInv, [Next]_vars
    PROVE  TypeInv'
  <1> USE SessionAssumption DEF TypeInv
  <1>1. CASE UNCHANGED vars
    BY <1>1 DEF vars, TypeOK, HandlersFormed
  <1>2. ASSUME NEW s \in Sessions, create_session(s)
        PROVE  TypeInv'
    <2>1. LinearTrajectory \in Trajectory
      BY DEF LinearTrajectory, Trajectory
    <2> QED
      BY <1>2, <2>1 DEF create_session, TypeOK, HandlersFormed
  <1>3. ASSUME NEW c \in Clients, NEW s \in Sessions, ChatArrives(c, s)
        PROVE  TypeInv'
    <2>1. \/ req' = [req EXCEPT ![c] = At("body", s)]
          \/ req' = [req EXCEPT ![c] = At("wait1", s)]
      BY <1>3 DEF ChatArrives
    <2>2. req' \in [Clients -> Handler] /\ HandlersFormed'
      BY <2>1, HandlerStates, HandlerMoves
    <2>3. owner' \in [Sessions -> Clients \cup {None}] /\ waiters' \in [Sessions -> Seq(Clients)]
      BY <1>3, QueueMoves DEF ChatArrives, TypeOK
    <2> QED
      BY <1>3, <2>2, <2>3 DEF ChatArrives, TypeOK
  <1>4. ASSUME NEW c \in Clients, NEW s \in Sessions, delete_session(c, s)
        PROVE  TypeInv'
    <2>1. [traj EXCEPT ![s].closing = TRUE] \in [Sessions -> Trajectory]
      BY DEF TypeOK, Trajectory
    <2>2. CASE Free(s)
      BY <1>4, <2>1, <2>2 DEF delete_session, TypeOK, HandlersFormed
    <2>3. CASE ~Free(s)
      <3>1. req' \in [Clients -> Handler] /\ HandlersFormed'
        BY <1>4, <2>3, HandlerStates, HandlerMoves DEF delete_session
      <3>2. waiters' \in [Sessions -> Seq(Clients)]
        BY <1>4, <2>3, QueueMoves DEF delete_session, TypeOK
      <3> QED
        BY <1>4, <2>1, <2>3, <3>1, <3>2 DEF delete_session, TypeOK
    <2> QED
      BY <2>2, <2>3
  <1>5. ASSUME NEW c \in Clients, ChatLocked(c)
        PROVE  TypeInv'
    <2> DEFINE s == req[c].sid
    <2>1. s \in Sessions
      BY <1>5 DEF ChatLocked, HandlersFormed
    <2>2. waiters' \in [Sessions -> Seq(Clients)]
      BY <1>5, <2>1 DEF ChatLocked, Dequeue, Turn, TypeOK
    <2>3. owner' \in [Sessions -> Clients \cup {None}]
      BY <1>5, <2>1 DEF ChatLocked, TypeOK
    <2>4. req' = [req EXCEPT ![c] = Idle] \/ req' = [req EXCEPT ![c] = At("body", s)]
      BY <1>5 DEF ChatLocked
    <2>5. req' \in [Clients -> Handler] /\ HandlersFormed'
      BY <2>1, <2>4, HandlerStates, HandlerMoves
    <2> QED
      BY <1>5, <2>2, <2>3, <2>5 DEF ChatLocked, TypeOK
  <1>6. ASSUME NEW c \in Clients, BodyFails(c)
        PROVE  TypeInv'
    BY <1>6, HandlerStates DEF BodyFails, TypeOK, HandlersFormed
  <1>7. ASSUME NEW c \in Clients, Prepare(c)
        PROVE  TypeInv'
    <2>1. PICK msgs \in Requests :
            PrepareFirst(c, msgs) \/ PrepareExtension(c, msgs) \/ PrepareRollback(c, msgs)
      BY <1>7 DEF Prepare
    <2> DEFINE t == traj[req[c].sid]
    <2>2. msgs \in Seq(Msgs) /\ req[c].pc = "body"
      BY <2>1 DEF PrepareFirst, PrepareExtension, PrepareRollback
    <2>3. t \in Trajectory
      BY <2>2 DEF TypeOK, HandlersFormed
    <2>4. CASE PrepareFirst(c, msgs)
      <3>1. render_messages(msgs) \in Seq(Tokens)
        BY <2>2, RenderType
      <3> QED
        BY <2>2, <2>3, <2>4, <3>1, ForwardType DEF PrepareFirst
    <2>5. CASE PrepareExtension(c, msgs)
      BY <2>2, <2>3, <2>5, AppendOnlyType DEF PrepareExtension
    <2>6. CASE PrepareRollback(c, msgs)
      <3>1. CASE RollbackFails(t, msgs)
        BY <2>2, <2>3, <2>6, <3>1, RejectType DEF PrepareRollback
      <3>2. CASE ~RollbackFails(t, msgs)
        <4>1. PICK end \in 1..Len(t.messages) :
                IsRollbackEnd(t, msgs, end) /\ AppendOnly(c, Rollback(t, msgs, end), msgs)
          BY <2>6, <3>2 DEF PrepareRollback
        <4>2. t.trajectory_token_ids # <<>>
          BY <2>6 DEF PrepareRollback
        <4>3. /\ Rollback(t, msgs, end) \in Trajectory
              /\ Rollback(t, msgs, end).trajectory_token_ids # <<>>
          BY <2>2, <2>3, <4>1, <4>2, RollbackType
        <4> QED
          BY <2>2, <4>1, <4>3, AppendOnlyType
      <3> QED
        BY <3>1, <3>2
    <2> QED
      BY <2>1, <2>4, <2>5, <2>6
  <1>8. ASSUME NEW c \in Clients, ProxyFails(c)
        PROVE  TypeInv'
    BY <1>8, HandlerStates DEF ProxyFails, TypeOK, HandlersFormed
  <1>9. ASSUME NEW c \in Clients, NEW reply \in Completions, ProxyReturns(c, reply)
        PROVE  TypeInv'
    <2> DEFINE s == req[c].sid
               r == [req[c] EXCEPT !.reply = reply]
               w == [r EXCEPT !.pc = "wait3"]
    <2>1. s \in Sessions /\ req[c] \in Handler
      BY <1>9 DEF ProxyReturns, HandlersFormed, TypeOK
    <2>2. reply \in Seq(Tokens)
      BY CompletionType
    <2>3. /\ r \in Handler /\ r.reply = reply
          /\ w \in Handler /\ w.reply = reply /\ w.sid = s /\ w.pc = "wait3"
      BY <2>1, <2>2 DEF Handler, PCs
    <2> HIDE DEF r, w
    <2>4. Commit(traj[s], r) \in Trajectory
      <3>1. traj[s] \in Trajectory
        BY <2>1 DEF TypeOK
      <3> QED
        BY <2>3, <3>1, CommitType
    <2>5. CASE Free(s)
      <3>1. /\ req' = [req EXCEPT ![c] = Idle] /\ UNCHANGED <<registry, waiters, owner>>
            /\ traj' = [traj EXCEPT ![s] = Commit(traj[s], r)]
        BY <1>9, <2>5 DEF ProxyReturns, r
      <3>2. req' \in [Clients -> Handler] /\ HandlersFormed'
        BY <3>1, HandlerStates, HandlerMoves
      <3> QED
        BY <2>1, <2>4, <3>1, <3>2 DEF TypeOK
    <2>6. CASE ~Free(s)
      <3>1. req' = [req EXCEPT ![c] = w] /\ UNCHANGED <<registry, traj, owner>>
            /\ waiters' = [waiters EXCEPT ![s] = Append(waiters[s], c)]
        BY <1>9, <2>6 DEF ProxyReturns, Enqueue, r, w
      <3>2. TypeOK'
        BY <2>1, <2>3, <3>1 DEF TypeOK
      <3>3. HandlersFormed'
        BY <2>1, <2>3, <3>1 DEF TypeOK, HandlersFormed
      <3> QED
        BY <3>2, <3>3
    <2> QED
      BY <2>5, <2>6
  <1>10. ASSUME NEW c \in Clients, CommitLocked(c)
         PROVE  TypeInv'
    <2> DEFINE s == req[c].sid
    <2>1. s \in Sessions /\ req[c] \in Handler /\ req[c].reply \in Completions
      BY <1>10 DEF CommitLocked, HandlersFormed, TypeOK
    <2>2. Commit(traj[s], req[c]) \in Trajectory
      BY <2>1, CommitType DEF TypeOK
    <2>3. waiters' \in [Sessions -> Seq(Clients)]
      BY <1>10, <2>1 DEF CommitLocked, Dequeue, Turn, TypeOK
    <2>4. req' \in [Clients -> Handler] /\ HandlersFormed'
      BY <1>10, HandlerStates, HandlerMoves DEF CommitLocked
    <2>5. traj' \in [Sessions -> Trajectory]
      BY <1>10, <2>1, <2>2 DEF CommitLocked, TypeOK
    <2> QED
      BY <1>10, <2>3, <2>4, <2>5 DEF CommitLocked, TypeOK
  <1>11. ASSUME NEW c \in Clients, DeleteLocked(c)
         PROVE  TypeInv'
    <2>1. req[c].sid \in Sessions
      BY <1>11 DEF DeleteLocked, HandlersFormed
    <2>2. waiters' \in [Sessions -> Seq(Clients)]
      BY <1>11, <2>1 DEF DeleteLocked, Dequeue, Turn, TypeOK
    <2> QED
      BY <1>11, <2>2, HandlerStates DEF DeleteLocked, TypeOK, HandlersFormed
  <1>12. CASE Quiescent
    BY <1>1, <1>12 DEF Quiescent
  <1> QED
    BY <1>1, <1>2, <1>3, <1>4, <1>5, <1>6, <1>7, <1>8, <1>9, <1>10, <1>11, <1>12
       DEF Next, HandlerStep

(* The types hold at the start.                                            *)
LEMMA TypeInit == Init => TypeInv
  BY DEF Init, TypeInv, TypeOK, HandlersFormed, LinearTrajectory, Trajectory,
         Idle, Handler, PCs

(* The session server keeps its types, whatever agents send, however their *)
(* requests interleave and whatever the backend answers.                   *)
THEOREM TypeCorrect == Spec => []TypeOK
  <1>1. TypeInv /\ [Next]_vars => TypeInv'
    BY TypeStep
  <1>2. TypeInv => TypeOK
    BY DEF TypeInv
  <1> QED
    BY TypeInit, <1>1, <1>2, PTL DEF Spec

(***************************************************************************)
(* Alignment.                                                              *)
(***************************************************************************)
Aligned(t) ==
    /\ Cardinality(AsstPos(t.messages)) = t.num_assistant
    /\ Len(t.trajectory_token_ids) = t.num_assistant
    /\ Len(t.records) = t.num_assistant

(* A rollback of an aligned trajectory is aligned: every checkpoint it     *)
(* keeps belongs to an assistant message it keeps.                         *)
LEMMA RollbackAligned ==
    ASSUME NEW t \in Trajectory, NEW msgs \in Seq(Msgs), NEW end \in 1..Len(t.messages),
           IsRollbackEnd(t, msgs, end), t.trajectory_token_ids # <<>>, Aligned(t)
    PROVE  Aligned(Rollback(t, msgs, end))
  <1> DEFINE k == checkpoint_count(t, msgs)
             r == Rollback(t, msgs, end)
  <1>1. /\ r.messages = SubSeq(t.messages, 1, end)
        /\ r.trajectory_token_ids = Slice(t.trajectory_token_ids, k)
        /\ r.records = Slice(t.records, k)
        /\ r.num_assistant = k
        /\ k \in Nat /\ k <= Cardinality(AsstPos(t.messages))
    BY RollbackType
  <1>2. Cardinality(AsstPos(SubSeq(t.messages, 1, end))) = k
    BY RollbackMessages DEF checkpoint_count
  <1>3. t.trajectory_token_ids \in Seq(Seq(Tokens)) /\ t.records \in Seq(Record)
    BY DEF Trajectory
  <1> HIDE DEF k, r
  <1>4. Len(Slice(t.trajectory_token_ids, k)) = k
    BY <1>1, <1>3 DEF Aligned, Slice
  <1>5. Len(Slice(t.records, k)) = k
    BY <1>1, <1>3 DEF Aligned, Slice
  <1>6. Aligned(r)
    BY <1>1, <1>2, <1>4, <1>5 DEF Aligned
  <1> QED
    BY <1>6 DEF r

(* A commit of a request that carries as many assistant messages as its    *)
(* expected version keeps the trajectory aligned.                          *)
LEMMA CommitAligned ==
    ASSUME NEW t \in Trajectory, NEW r \in Handler, r.reply \in Completions,
           Aligned(t), Cardinality(AsstPos(r.messages)) = r.expected
    PROVE  Aligned(Commit(t, r))
  <1>1. CASE Commit(t, r) = t
    BY <1>1
  <1>2. CASE Commit(t, r) # t
    <2>1. /\ t.num_assistant = r.expected
          /\ Len(Commit(t, r).trajectory_token_ids) = Len(t.trajectory_token_ids) + 1
          /\ Len(Commit(t, r).records) = Len(t.records) + 1
          /\ Commit(t, r).num_assistant = t.num_assistant + 1
      BY <1>2, CommitType
    <2>2. PICK a \in Asst : Commit(t, r).messages = Append(r.messages, a)
      BY <1>2, CommitType
    <2>3. r.messages \in Seq(Msgs)
      BY DEF Handler
    <2>4. Cardinality(AsstPos(Append(r.messages, a))) = r.expected + 1
      BY <2>3, AsstPosAppend
    <2> QED
      BY <2>1, <2>2, <2>4 DEF Aligned
  <1> QED
    BY <1>1, <1>2

(* The end of phase 1: what is stored is aligned and the request carries   *)
(* the assistant messages of the version it remembers.                     *)
LEMMA ForwardAligned ==
    ASSUME TypeInv, AlignedInv, NEW c \in Clients, req[c].pc = "body",
           NEW t \in Trajectory, NEW msgs \in Seq(Msgs), NEW prompt,
           Aligned(t), AsstPos(msgs) = AsstPos(t.messages),
           Forward(c, t, msgs, prompt)
    PROVE  AlignedInv'
  <1>1. req[c].sid \in Sessions
    BY DEF TypeInv, HandlersFormed
  <1>2. CheckpointsAligned'
    BY <1>1 DEF TypeInv, TypeOK, AlignedInv, CheckpointsAligned, Aligned, Forward
  <1> DEFINE h == [req[c] EXCEPT !.pc = "proxy", !.messages = msgs,
                                 !.prompt = prompt, !.expected = t.num_assistant]
  <1>3. req[c] \in Handler
    BY DEF TypeInv, TypeOK
  <1>4. h.messages = msgs /\ h.expected = t.num_assistant
    BY <1>3 DEF Handler
  <1>5. req' = [req EXCEPT ![c] = h]
    BY DEF Forward
  <1> HIDE DEF h
  <1>6. RequestsAligned'
    BY <1>4, <1>5 DEF TypeInv, TypeOK, AlignedInv, RequestsAligned, Aligned
  <1> QED
    BY <1>2, <1>6 DEF AlignedInv

(* A handler that is not in the backend carries no version.                *)
LEMMA HandlerAligned ==
    ASSUME TypeInv, AlignedInv, NEW c \in Clients, NEW h \in Handler,
           h.pc \notin {"proxy", "wait3"}, req' = [req EXCEPT ![c] = h]
    PROVE  RequestsAligned'
  BY DEF TypeInv, TypeOK, AlignedInv, RequestsAligned

(* A handler that ends leaves an aligned trajectory.                       *)
LEMMA AnsweredAligned ==
    ASSUME TypeInv, AlignedInv, NEW c \in Clients, NEW s \in Sessions,
           NEW t \in Trajectory, Aligned(t),
           traj' = [traj EXCEPT ![s] = t], req' = [req EXCEPT ![c] = Idle]
    PROVE  AlignedInv'
  <1>1. CheckpointsAligned'
    BY DEF TypeInv, TypeOK, AlignedInv, CheckpointsAligned, Aligned
  <1>2. RequestsAligned'
    BY HandlerStates DEF TypeInv, TypeOK, AlignedInv, RequestsAligned
  <1> QED
    BY <1>1, <1>2 DEF AlignedInv

(* The append-only check of an extension of an aligned trajectory.         *)
LEMMA AppendOnlyAligned ==
    ASSUME TypeInv, AlignedInv, NEW c \in Clients, req[c].pc = "body",
           NEW t \in Trajectory, NEW msgs \in Seq(Msgs), Aligned(t),
           IsExtension(t.messages, msgs), AppendOnly(c, t, msgs)
    PROVE  AlignedInv'
  <1>1. t.messages \in Seq(Msgs) /\ req[c].sid \in Sessions
    BY DEF Trajectory, TypeInv, HandlersFormed
  <1>2. CASE RolesAllowed(t.messages, msgs)
    <2>1. AsstPos(msgs) = AsstPos(t.messages)
      BY <1>1, <1>2, AsstPosExtension
    <2> QED
      BY <1>2, <2>1, ForwardAligned DEF AppendOnly
  <1>3. CASE ~RolesAllowed(t.messages, msgs)
    BY <1>1, <1>3, AnsweredAligned DEF AppendOnly, Reject
  <1> QED
    BY <1>2, <1>3

(* Every step keeps the alignment, when agents do not open a session with  *)
(* assistant messages.                                                     *)
LEMMA AlignedStep ==
    ASSUME FewShot = FALSE, TypeInv, AlignedInv, [Next]_vars
    PROVE  AlignedInv'
  <1> USE SessionAssumption
  <1>0. \A s \in Sessions : traj[s] \in Trajectory /\ Aligned(traj[s])
    BY DEF TypeInv, TypeOK, AlignedInv, CheckpointsAligned, Aligned
  <1>1. CASE UNCHANGED <<traj, req>>
    BY <1>1 DEF AlignedInv, CheckpointsAligned, RequestsAligned
  <1>2. ASSUME NEW s \in Sessions, create_session(s)
        PROVE  AlignedInv'
    <2>1. AsstPos(<<>>) = {}
      BY DEF AsstPos
    <2>2. Aligned(LinearTrajectory)
      BY <2>1, FS_EmptySet DEF Aligned, LinearTrajectory
    <2> QED
      BY <1>2, <2>2 DEF create_session, TypeInv, TypeOK, AlignedInv,
            CheckpointsAligned, RequestsAligned, Aligned
  <1>3. ASSUME NEW c \in Clients, NEW s \in Sessions,
               traj' = traj,
               \/ req' = [req EXCEPT ![c] = Idle]
               \/ req' = [req EXCEPT ![c] = At("body", s)]
               \/ req' = [req EXCEPT ![c] = At("wait1", s)]
        PROVE  AlignedInv'
    <2>1. RequestsAligned'
      BY <1>3, HandlerStates, HandlerAligned
    <2> QED
      BY <1>3, <2>1 DEF AlignedInv, CheckpointsAligned
  <1>4. ASSUME NEW c \in Clients, NEW s \in Sessions, delete_session(c, s)
        PROVE  AlignedInv'
    <2>1. req' = req \/ req' = [req EXCEPT ![c] = At("waitD", s)]
      BY <1>4 DEF delete_session
    <2>2. RequestsAligned'
      <3>1. CASE req' = req
        BY <3>1 DEF AlignedInv, RequestsAligned
      <3>2. CASE req' = [req EXCEPT ![c] = At("waitD", s)]
        BY <3>2, HandlerStates, HandlerAligned
      <3> QED
        BY <2>1, <3>1, <3>2
    <2>3. \A x \in Sessions :
            /\ traj'[x].messages = traj[x].messages
            /\ traj'[x].trajectory_token_ids = traj[x].trajectory_token_ids
            /\ traj'[x].records = traj[x].records
            /\ traj'[x].num_assistant = traj[x].num_assistant
      BY <1>4, <1>0 DEF delete_session, TypeInv, TypeOK, Trajectory
    <2> QED
      BY <2>2, <2>3 DEF AlignedInv, CheckpointsAligned
  <1>5. ASSUME NEW c \in Clients, req[c].pc # "idle" PROVE req[c].sid \in Sessions
    BY <1>5 DEF TypeInv, HandlersFormed
  <1>6. ASSUME NEW c \in Clients, ChatLocked(c) \/ BodyFails(c) \/ ProxyFails(c) \/ DeleteLocked(c)
        PROVE  AlignedInv'
    <2>1. /\ traj' = traj /\ req[c].pc # "idle"
          /\ \/ req' = [req EXCEPT ![c] = Idle]
             \/ req' = [req EXCEPT ![c] = At("body", req[c].sid)]
      BY <1>6 DEF ChatLocked, BodyFails, ProxyFails, DeleteLocked
    <2> QED
      BY <2>1, <1>3, <1>5
  <1>7. ASSUME NEW c \in Clients, Prepare(c)
        PROVE  AlignedInv'
    <2>1. PICK msgs \in Requests :
            PrepareFirst(c, msgs) \/ PrepareExtension(c, msgs) \/ PrepareRollback(c, msgs)
      BY <1>7 DEF Prepare
    <2> DEFINE t == traj[req[c].sid]
    <2>2. msgs \in Seq(Msgs) /\ req[c].pc = "body"
      BY <2>1 DEF PrepareFirst, PrepareExtension, PrepareRollback
    <2>3. t \in Trajectory /\ Aligned(t) /\ req[c].sid \in Sessions
      BY <1>0, <1>5, <2>2
    <2>4. CASE PrepareFirst(c, msgs)
      <3>1. AsstPos(msgs) = {} /\ t.trajectory_token_ids = <<>>
        BY <2>4 DEF PrepareFirst
      <3>2. Cardinality(AsstPos(t.messages)) = 0
        BY <2>3, <3>1 DEF Aligned
      <3>3. AsstPos(t.messages) = {}
        BY <2>3, <3>2, AsstPosFinite, FS_EmptySet DEF Trajectory
      <3> QED
        BY <2>2, <2>3, <2>4, <3>1, <3>3, ForwardAligned DEF PrepareFirst
    <2>5. CASE PrepareExtension(c, msgs)
      BY <2>2, <2>3, <2>5, AppendOnlyAligned DEF PrepareExtension
    <2>6. CASE PrepareRollback(c, msgs)
      <3>1. CASE RollbackFails(t, msgs)
        BY <2>3, <2>6, <3>1, AnsweredAligned DEF PrepareRollback, Reject
      <3>2. CASE ~RollbackFails(t, msgs)
        <4>1. PICK end \in 1..Len(t.messages) :
                IsRollbackEnd(t, msgs, end) /\ AppendOnly(c, Rollback(t, msgs, end), msgs)
          BY <2>6, <3>2 DEF PrepareRollback
        <4>2. t.trajectory_token_ids # <<>>
          BY <2>6 DEF PrepareRollback
        <4>3. /\ Rollback(t, msgs, end) \in Trajectory
              /\ IsExtension(Rollback(t, msgs, end).messages, msgs)
          BY <2>2, <2>3, <4>1, <4>2, RollbackType
        <4>4. Aligned(Rollback(t, msgs, end))
          BY <2>2, <2>3, <4>1, <4>2, RollbackAligned
        <4> QED
          BY <2>2, <4>1, <4>3, <4>4, AppendOnlyAligned
      <3> QED
        BY <3>1, <3>2
    <2> QED
      BY <2>1, <2>4, <2>5, <2>6
  <1>8. ASSUME NEW c \in Clients, NEW reply \in Completions, ProxyReturns(c, reply)
        PROVE  AlignedInv'
    <2> DEFINE s == req[c].sid
               r == [req[c] EXCEPT !.reply = reply]
               w == [r EXCEPT !.pc = "wait3"]
    <2>1. s \in Sessions /\ req[c] \in Handler
      BY <1>8, <1>5 DEF ProxyReturns, TypeInv, TypeOK
    <2>2. Cardinality(AsstPos(req[c].messages)) = req[c].expected
      BY <1>8 DEF ProxyReturns, AlignedInv, RequestsAligned
    <2>3. /\ r \in Handler /\ r.reply = reply
          /\ r.messages = req[c].messages /\ r.expected = req[c].expected
          /\ w.messages = req[c].messages /\ w.expected = req[c].expected
      BY <2>1, CompletionType DEF Handler
    <2> HIDE DEF r, w
    <2>4. Commit(traj[s], r) \in Trajectory /\ Aligned(Commit(traj[s], r))
      <3>1. traj[s] \in Trajectory /\ Aligned(traj[s])
        BY <1>0, <2>1
      <3> QED
        BY <2>2, <2>3, <3>1, CommitType, CommitAligned
    <2>5. CASE Free(s)
      <3>1. /\ req' = [req EXCEPT ![c] = Idle]
            /\ traj' = [traj EXCEPT ![s] = Commit(traj[s], r)]
        BY <1>8, <2>5 DEF ProxyReturns, r
      <3> QED
        BY <2>1, <2>4, <3>1, AnsweredAligned
    <2>6. CASE ~Free(s)
      <3>1. req' = [req EXCEPT ![c] = w] /\ traj' = traj
        BY <1>8, <2>6 DEF ProxyReturns, r, w
      <3>2. RequestsAligned'
        BY <2>2, <2>3, <3>1 DEF TypeInv, TypeOK, AlignedInv, RequestsAligned
      <3> QED
        BY <3>1, <3>2 DEF AlignedInv, CheckpointsAligned
    <2> QED
      BY <2>5, <2>6
  <1>9. ASSUME NEW c \in Clients, CommitLocked(c)
        PROVE  AlignedInv'
    <2> DEFINE s == req[c].sid
    <2>1. /\ s \in Sessions /\ req[c] \in Handler /\ req[c].reply \in Completions
          /\ Cardinality(AsstPos(req[c].messages)) = req[c].expected
      BY <1>9, <1>5 DEF CommitLocked, TypeInv, TypeOK, HandlersFormed, AlignedInv, RequestsAligned
    <2>2. traj[s] \in Trajectory /\ Aligned(traj[s])
      BY <1>0, <2>1
    <2>3. Commit(traj[s], req[c]) \in Trajectory /\ Aligned(Commit(traj[s], req[c]))
      BY <2>1, <2>2, CommitType, CommitAligned
    <2> QED
      BY <1>9, <2>1, <2>3, AnsweredAligned DEF CommitLocked
  <1>10. ASSUME NEW c \in Clients, NEW s \in Sessions, ChatArrives(c, s)
         PROVE  AlignedInv'
    BY <1>10, <1>3 DEF ChatArrives
  <1>11. CASE Quiescent \/ UNCHANGED vars
    BY <1>1, <1>11 DEF Quiescent, vars
  <1> QED
    BY <1>2, <1>4, <1>6, <1>7, <1>8, <1>9, <1>10, <1>11 DEF Next, HandlerStep

(* Nothing is stored and nothing is in flight at the start.                *)
LEMMA AlignedInit == Init => AlignedInv
  <1>1. AsstPos(<<>>) = {}
    BY DEF AsstPos
  <1>2. Cardinality(AsstPos(<<>>)) = 0
    BY <1>1, FS_EmptySet
  <1>3. Init => CheckpointsAligned
    BY <1>2 DEF Init, CheckpointsAligned, LinearTrajectory
  <1>4. Init => RequestsAligned
    BY DEF Init, RequestsAligned, Idle
  <1> QED
    BY <1>3, <1>4 DEF AlignedInv

(* One assistant message, one token checkpoint, one record: for any number *)
(* of sessions and clients and any requests, as long as the first request  *)
(* of a session brings no assistant message of its own.                    *)
THEOREM CheckpointsStayAligned ==
    ASSUME FewShot = FALSE
    PROVE  Spec => []CheckpointsAligned
  <1>1. TypeInv /\ AlignedInv /\ [Next]_vars => (TypeInv /\ AlignedInv)'
    BY TypeStep, AlignedStep
  <1>2. Init => TypeInv /\ AlignedInv
    BY TypeInit, AlignedInit
  <1>3. TypeInv /\ AlignedInv => CheckpointsAligned
    BY DEF AlignedInv
  <1> QED
    BY <1>1, <1>2, <1>3, PTL DEF Spec

(***************************************************************************)
(* Removed sessions.  A handler reads its body only while it holds the     *)
(* lock, and a session leaves the registry when nobody holds it.           *)
(***************************************************************************)
BodyHoldsLock == \A c \in Clients : req[c].pc = "body" => owner[req[c].sid] = c

RemovedIsUnlocked ==
    \A s \in Sessions : traj[s].closing /\ s \notin registry => owner[s] = None

FrozenInv == BodyHoldsLock /\ RemovedIsUnlocked

(* A request that ends phase 1 works on a session that is not removed.     *)
LEMMA BodyIsOpen ==
    ASSUME TypeInv, FrozenInv, NEW c \in Clients, req[c].pc = "body"
    PROVE  /\ req[c].sid \in Sessions
           /\ ~(traj[req[c].sid].closing /\ req[c].sid \notin registry)
  <1>1. req[c].sid \in Sessions /\ owner[req[c].sid] = c
    BY DEF TypeInv, HandlersFormed, FrozenInv, BodyHoldsLock
  <1> QED
    BY <1>1, SessionAssumption DEF FrozenInv, RemovedIsUnlocked

(* Phase 3 and rollbacks never reopen a session.                           *)
LEMMA ClosingStays ==
    ASSUME NEW t \in Trajectory, NEW r
    PROVE  Commit(t, r).closing = t.closing /\ (t.closing => Commit(t, r) = t)
  BY DEF Commit, update_pretokenized_state, Trajectory

(* What a step of phase 1 stores when it ends, and for whom.               *)
LEMMA PrepareEffect ==
    ASSUME TypeInv, NEW c \in Clients, Prepare(c)
    PROVE  /\ req[c].pc = "body" /\ UNCHANGED <<registry, waiters>>
           /\ owner' = [owner EXCEPT ![req[c].sid] = None]
           /\ req'[c].pc # "body" /\ \A d \in Clients \ {c} : req'[d] = req[d]
           /\ \E t \in Trajectory :
                 /\ t.closing = traj[req[c].sid].closing
                 /\ traj' = [traj EXCEPT ![req[c].sid] = t]
  <1>1. PICK msgs \in Requests :
            PrepareFirst(c, msgs) \/ PrepareExtension(c, msgs) \/ PrepareRollback(c, msgs)
    BY DEF Prepare
  <1> DEFINE t == traj[req[c].sid]
  <1>2. req[c].pc = "body" /\ req[c] \in Handler /\ req[c].sid \in Sessions /\ msgs \in Seq(Msgs)
    BY <1>1, SessionAssumption DEF PrepareFirst, PrepareExtension, PrepareRollback, TypeInv, TypeOK,
          HandlersFormed
  <1>3. t \in Trajectory
    BY <1>2 DEF TypeInv, TypeOK
  <1>4. \E u \in Trajectory : u.closing = t.closing
           /\ (Reject(c, u) \/ \E prompt : Forward(c, u, msgs, prompt))
    <2>1. CASE PrepareFirst(c, msgs) \/ PrepareExtension(c, msgs)
      BY <1>3, <2>1 DEF PrepareFirst, PrepareExtension, AppendOnly
    <2>2. CASE PrepareRollback(c, msgs)
      <3>1. CASE RollbackFails(t, msgs)
        BY <1>3, <2>2, <3>1 DEF PrepareRollback
      <3>2. CASE ~RollbackFails(t, msgs)
        <4>1. PICK end \in 1..Len(t.messages) :
                IsRollbackEnd(t, msgs, end) /\ AppendOnly(c, Rollback(t, msgs, end), msgs)
          BY <2>2, <3>2 DEF PrepareRollback
        <4>2. t.trajectory_token_ids # <<>>
          BY <2>2 DEF PrepareRollback
        <4>3. Rollback(t, msgs, end) \in Trajectory /\ Rollback(t, msgs, end).closing = t.closing
          BY <1>2, <1>3, <4>1, <4>2, RollbackType
        <4> QED
          BY <4>1, <4>3 DEF AppendOnly
      <3> QED
        BY <3>1, <3>2
    <2> QED
      BY <1>1, <2>1, <2>2
  <1>5. PICK u \in Trajectory : u.closing = t.closing
           /\ (Reject(c, u) \/ \E prompt : Forward(c, u, msgs, prompt))
    BY <1>4
  <1>6. req' = [req EXCEPT ![c] = req'[c]] /\ req'[c].pc # "body"
    <2>1. CASE Reject(c, u)
      BY <2>1, HandlerStates DEF Reject, TypeInv, TypeOK
    <2>2. ASSUME NEW prompt, Forward(c, u, msgs, prompt)
          PROVE  req' = [req EXCEPT ![c] = req'[c]] /\ req'[c].pc = "proxy"
      BY <1>2, <2>2 DEF Forward, TypeInv, TypeOK, Handler
    <2> QED
      BY <1>5, <2>1, <2>2
  <1>7. /\ UNCHANGED <<registry, waiters>>
        /\ owner' = [owner EXCEPT ![req[c].sid] = None]
        /\ traj' = [traj EXCEPT ![req[c].sid] = u]
    BY <1>5 DEF Reject, Forward
  <1> QED
    BY <1>2, <1>5, <1>6, <1>7 DEF TypeInv, TypeOK

(* Every step keeps removed sessions unlocked.                             *)
LEMMA FrozenStep ==
    ASSUME TypeInv, FrozenInv, [Next]_vars
    PROVE  FrozenInv'
  <1> USE DEF FrozenInv
  <1>0. /\ registry \subseteq Sessions /\ traj \in [Sessions -> Trajectory]
        /\ owner \in [Sessions -> Clients \cup {None}] /\ req \in [Clients -> Handler]
    BY DEF TypeInv, TypeOK
  <1>1. \A c \in Clients : req[c].pc # "idle" => req[c].sid \in Sessions
    BY DEF TypeInv, HandlersFormed
  <1>2. ASSUME NEW c \in Clients, NEW h \in Handler, req' = [req EXCEPT ![c] = h], h.pc # "body",
               \A s \in Sessions : owner'[s] = owner[s] \/ (owner[s] = c /\ owner'[s] = None)
        PROVE  BodyHoldsLock'
    BY <1>0, <1>1, <1>2 DEF BodyHoldsLock
  <1>3. ASSUME NEW s \in Sessions, create_session(s)
        PROVE  FrozenInv'
    <2>1. BodyHoldsLock'
      BY <1>3 DEF create_session, BodyHoldsLock
    <2>2. RemovedIsUnlocked'
      BY <1>0, <1>3 DEF create_session, RemovedIsUnlocked
    <2> QED
      BY <2>1, <2>2
  <1>4. ASSUME NEW c \in Clients, NEW s \in Sessions,
               traj' = traj /\ registry' = registry,
               owner[s] = None, owner' = [owner EXCEPT ![s] = c], Open(s) \/ ~traj[s].closing,
               req' = [req EXCEPT ![c] = At("body", s)], req[c].pc # "body"
        PROVE  FrozenInv'
    <2>1. BodyHoldsLock'
      BY <1>0, <1>1, <1>4, HandlerStates, SessionAssumption DEF BodyHoldsLock
    <2>2. RemovedIsUnlocked'
      BY <1>0, <1>4 DEF RemovedIsUnlocked, Open
    <2> QED
      BY <2>1, <2>2
  <1>5. ASSUME NEW c \in Clients, NEW s \in Sessions, ChatArrives(c, s)
        PROVE  FrozenInv'
    <2>1. CASE Free(s)
      BY <1>4, <1>5, <2>1 DEF ChatArrives, Free
    <2>2. CASE ~Free(s)
      <3>1. BodyHoldsLock'
        BY <1>2, <1>5, <2>2, HandlerStates DEF ChatArrives
      <3>2. RemovedIsUnlocked'
        BY <1>5, <2>2 DEF ChatArrives, RemovedIsUnlocked
      <3> QED
        BY <3>1, <3>2
    <2> QED
      BY <2>1, <2>2
  <1>6. ASSUME NEW c \in Clients, ChatLocked(c)
        PROVE  FrozenInv'
    <2>1. req[c].pc = "wait1" /\ req[c].sid \in Sessions
      BY <1>1, <1>6 DEF ChatLocked
    <2>2. CASE traj[req[c].sid].closing
      <3>1. BodyHoldsLock'
        BY <1>2, <1>6, <2>2, HandlerStates DEF ChatLocked
      <3>2. RemovedIsUnlocked'
        BY <1>6, <2>2 DEF ChatLocked, RemovedIsUnlocked
      <3> QED
        BY <3>1, <3>2
    <2>3. CASE ~traj[req[c].sid].closing
      <3>1. /\ traj' = traj /\ registry' = registry /\ owner[req[c].sid] = None
            /\ owner' = [owner EXCEPT ![req[c].sid] = c]
            /\ req' = [req EXCEPT ![c] = At("body", req[c].sid)]
        BY <1>6, <2>3 DEF ChatLocked, Turn
      <3> QED
        BY <1>4, <2>1, <2>3, <3>1
    <2> QED
      BY <2>2, <2>3
  <1>7. ASSUME NEW c \in Clients, BodyFails(c)
        PROVE  FrozenInv'
    <2>1. owner[req[c].sid] = c /\ req[c].sid \in Sessions
      BY <1>1, <1>7 DEF BodyFails, BodyHoldsLock
    <2>2. BodyHoldsLock'
      <3>1. \A s \in Sessions : owner'[s] = owner[s] \/ (owner[s] = c /\ owner'[s] = None)
        BY <1>0, <1>7, <2>1 DEF BodyFails
      <3>2. req' = [req EXCEPT ![c] = Idle] /\ Idle \in Handler /\ Idle.pc # "body"
        BY <1>7, HandlerStates DEF BodyFails
      <3> QED
        BY <1>2, <3>1, <3>2
    <2>3. RemovedIsUnlocked'
      BY <1>0, <1>7, <2>1 DEF BodyFails, RemovedIsUnlocked
    <2> QED
      BY <2>2, <2>3
  <1>8. ASSUME NEW c \in Clients, Prepare(c)
        PROVE  FrozenInv'
    <2>1. /\ req[c].pc = "body" /\ UNCHANGED <<registry, waiters>>
          /\ owner' = [owner EXCEPT ![req[c].sid] = None]
          /\ req'[c].pc # "body" /\ \A d \in Clients \ {c} : req'[d] = req[d]
      BY <1>8, PrepareEffect
    <2>2. PICK t \in Trajectory : t.closing = traj[req[c].sid].closing
                                  /\ traj' = [traj EXCEPT ![req[c].sid] = t]
      BY <1>8, PrepareEffect
    <2>3. owner[req[c].sid] = c /\ req[c].sid \in Sessions
      BY <1>1, <2>1 DEF BodyHoldsLock
    <2>4. BodyHoldsLock'
      BY <1>0, <1>1, <2>1, <2>3 DEF BodyHoldsLock
    <2>5. \A s \in Sessions : traj'[s].closing = traj[s].closing
      BY <1>0, <2>2, <2>3
    <2>6. RemovedIsUnlocked'
      BY <1>0, <2>1, <2>3, <2>5 DEF RemovedIsUnlocked
    <2> QED
      BY <2>4, <2>6
  <1>9. ASSUME NEW c \in Clients, NEW s \in Sessions, NEW h \in Handler, h.pc # "body",
               UNCHANGED <<registry, owner>>, req' = [req EXCEPT ![c] = h],
               \/ traj' = traj
               \/ \E r : traj' = [traj EXCEPT ![s] = Commit(traj[s], r)]
        PROVE  FrozenInv'
    <2>1. BodyHoldsLock'
      BY <1>2, <1>9
    <2>2. \A x \in Sessions : traj'[x].closing = traj[x].closing
      BY <1>0, <1>9, ClosingStays
    <2>3. RemovedIsUnlocked'
      BY <1>9, <2>2 DEF RemovedIsUnlocked
    <2> QED
      BY <2>1, <2>3
  <1>10. ASSUME NEW c \in Clients, ProxyFails(c) \/ CommitLocked(c)
         PROVE  FrozenInv'
    <2>1. req[c].sid \in Sessions /\ UNCHANGED <<registry, owner>> /\ req' = [req EXCEPT ![c] = Idle]
      BY <1>1, <1>10 DEF ProxyFails, CommitLocked
    <2>2. traj' = traj \/ traj' = [traj EXCEPT ![req[c].sid] = Commit(traj[req[c].sid], req[c])]
      BY <1>10 DEF ProxyFails, CommitLocked
    <2>3. Idle \in Handler /\ Idle.pc # "body"
      BY HandlerStates
    <2>4. traj' = traj \/ \E r : traj' = [traj EXCEPT ![req[c].sid] = Commit(traj[req[c].sid], r)]
      BY <2>2
    <2> QED
      BY <1>9, <2>1, <2>3, <2>4
  <1>11. ASSUME NEW c \in Clients, NEW reply \in Completions, ProxyReturns(c, reply)
         PROVE  FrozenInv'
    <2> DEFINE s == req[c].sid
               r == [req[c] EXCEPT !.reply = reply]
               w == [r EXCEPT !.pc = "wait3"]
    <2>1. s \in Sessions /\ req[c] \in Handler /\ reply \in Seq(Tokens)
      BY <1>0, <1>1, <1>11, CompletionType DEF ProxyReturns
    <2>2. w \in Handler /\ w.pc = "wait3"
      BY <2>1 DEF Handler, PCs
    <2> HIDE DEF r, w
    <2>3. UNCHANGED <<registry, owner>>
      BY <1>11 DEF ProxyReturns
    <2>4. CASE Free(s)
      <3>1. req' = [req EXCEPT ![c] = Idle] /\ traj' = [traj EXCEPT ![s] = Commit(traj[s], r)]
        BY <1>11, <2>4 DEF ProxyReturns, r
      <3> QED
        BY <1>9, <2>1, <2>3, <3>1, HandlerStates
    <2>5. CASE ~Free(s)
      <3>1. req' = [req EXCEPT ![c] = w] /\ traj' = traj
        BY <1>11, <2>5 DEF ProxyReturns, r, w
      <3> QED
        BY <1>9, <2>1, <2>2, <2>3, <3>1
    <2> QED
      BY <2>4, <2>5
  <1>12. ASSUME NEW c \in Clients, NEW s \in Sessions, delete_session(c, s)
         PROVE  FrozenInv'
    <2>1. /\ traj' = [traj EXCEPT ![s].closing = TRUE] /\ owner' = owner /\ Open(s)
          /\ \/ Free(s) /\ registry' = registry \ {s} /\ req' = req
             \/ registry' = registry /\ req' = [req EXCEPT ![c] = At("waitD", s)]
      BY <1>12 DEF delete_session
    <2>2. BodyHoldsLock'
      <3>1. CASE req' = req
        BY <2>1, <3>1 DEF BodyHoldsLock
      <3>2. CASE req' = [req EXCEPT ![c] = At("waitD", s)]
        BY <1>2, <2>1, <3>2, HandlerStates
      <3> QED
        BY <2>1, <3>1, <3>2
    <2>3. \A x \in Sessions \ {s} : traj'[x] = traj[x]
      BY <1>0, <2>1
    <2>4. RemovedIsUnlocked'
      BY <2>1, <2>3 DEF RemovedIsUnlocked, Open, Free
    <2> QED
      BY <2>2, <2>4
  <1>13. ASSUME NEW c \in Clients, DeleteLocked(c)
         PROVE  FrozenInv'
    <2>1. /\ owner[req[c].sid] = None /\ UNCHANGED <<traj, owner>>
          /\ registry' = registry \ {req[c].sid} /\ req' = [req EXCEPT ![c] = Idle]
      BY <1>13 DEF DeleteLocked, Turn
    <2>2. BodyHoldsLock'
      BY <1>2, <2>1, HandlerStates
    <2>3. RemovedIsUnlocked'
      BY <2>1 DEF RemovedIsUnlocked
    <2> QED
      BY <2>2, <2>3
  <1>14. CASE Quiescent \/ UNCHANGED vars
    BY <1>14 DEF Quiescent, vars, BodyHoldsLock, RemovedIsUnlocked
  <1> QED
    BY <1>3, <1>5, <1>6, <1>7, <1>8, <1>10, <1>11, <1>12, <1>13, <1>14 DEF Next, HandlerStep

(* A step leaves the sessions alone that are removed.                      *)
LEMMA RemovedStep ==
    ASSUME TypeInv, FrozenInv, [Next]_vars, NEW s \in Sessions, traj[s].closing, s \notin registry
    PROVE  traj'[s] = traj[s] /\ s \notin registry'
  <1>0. traj \in [Sessions -> Trajectory] /\ req \in [Clients -> Handler]
    BY DEF TypeInv, TypeOK
  <1>1. \A c \in Clients : req[c].pc # "idle" => req[c].sid \in Sessions
    BY DEF TypeInv, HandlersFormed
  <1>2. ASSUME NEW x \in Sessions, create_session(x)
        PROVE  x # s /\ traj'[s] = traj[s] /\ s \notin registry'
    BY <1>0, <1>2 DEF create_session
  <1>3. ASSUME NEW c \in Clients, NEW x \in Sessions, ChatArrives(c, x) \/ delete_session(c, x)
        PROVE  traj'[s] = traj[s] /\ s \notin registry'
    <2>1. x # s
      BY <1>3 DEF ChatArrives, delete_session, Open
    <2> QED
      BY <1>0, <1>3, <2>1 DEF ChatArrives, delete_session
  <1>4. ASSUME NEW c \in Clients, Prepare(c)
        PROVE  traj'[s] = traj[s] /\ s \notin registry'
    <2>1. req[c].pc = "body" /\ registry' = registry
          /\ \E t \in Trajectory : traj' = [traj EXCEPT ![req[c].sid] = t]
      BY <1>4, PrepareEffect
    <2>2. req[c].sid # s
      BY <2>1, BodyIsOpen
    <2> QED
      BY <1>0, <2>1, <2>2
  <1>5. ASSUME NEW c \in Clients,
               ChatLocked(c) \/ BodyFails(c) \/ ProxyFails(c) \/ DeleteLocked(c)
        PROVE  traj'[s] = traj[s] /\ s \notin registry'
    BY <1>5 DEF ChatLocked, BodyFails, ProxyFails, DeleteLocked
  <1>6. ASSUME NEW c \in Clients,
               CommitLocked(c) \/ \E reply \in Completions : ProxyReturns(c, reply)
        PROVE  traj'[s] = traj[s] /\ s \notin registry'
    <2>1. registry' = registry /\ req[c].sid \in Sessions
      BY <1>1, <1>6 DEF CommitLocked, ProxyReturns
    <2>2. traj' = traj \/ \E r : traj' = [traj EXCEPT ![req[c].sid] = Commit(traj[req[c].sid], r)]
      BY <1>6 DEF CommitLocked, ProxyReturns
    <2> QED
      BY <1>0, <2>1, <2>2, ClosingStays
  <1>7. CASE Quiescent \/ UNCHANGED vars
    BY <1>7 DEF Quiescent, vars
  <1> QED
    BY <1>2, <1>3, <1>4, <1>5, <1>6, <1>7 DEF Next, HandlerStep

(* Once a session is removed nothing changes it any more, whatever         *)
(* requests were queued on its lock or in the backend at that moment.      *)
THEOREM RemovedStaysFrozen == Spec => RemovedIsFrozen
  <1>1. TypeInv /\ FrozenInv /\ [Next]_vars => (TypeInv /\ FrozenInv)'
    BY TypeStep, FrozenStep
  <1>2. Init => TypeInv /\ FrozenInv
    <2>1. Init => FrozenInv
      BY DEF Init, FrozenInv, BodyHoldsLock, RemovedIsUnlocked, Idle
    <2> QED
      BY <2>1, TypeInit
  <1>3. TypeInv /\ FrozenInv /\ [Next]_vars =>
            [\A s \in Sessions : traj[s].closing /\ s \notin registry =>
                traj'[s] = traj[s] /\ s \notin registry']_vars
    BY RemovedStep
  <1> QED
    BY <1>1, <1>2, <1>3, PTL DEF Spec, RemovedIsFrozen

(***************************************************************************)
(* What a step does to a trajectory and to a request, in the terms of the  *)
(* trajectory's methods.                                                   *)
(***************************************************************************)
SameContent(t, u) ==
    /\ t.messages = u.messages /\ t.records = u.records
    /\ t.trajectory_token_ids = u.trajectory_token_ids /\ t.num_assistant = u.num_assistant

RolledBack(t, u) ==
    \E msgs \in Seq(Msgs) : \E end \in 1..Len(t.messages) :
        IsRollbackEnd(t, msgs, end) /\ t.trajectory_token_ids # <<>> /\ u = Rollback(t, msgs, end)

InBackend(c) == req[c].pc \in {"proxy", "wait3"}

\* The answer of a handler that the backend has answered.
Answers(h, r) ==
    /\ r \in Handler /\ r.reply \in Completions
    /\ r.messages = h.messages /\ r.prompt = h.prompt /\ r.expected = h.expected

Committed(t, u) ==
    \E c \in Clients : InBackend(c) /\ \E r \in Handler :
        /\ Answers(req[c], r)
        /\ t.num_assistant = r.expected /\ ~PrefixMismatch(t, r.prompt \o r.reply)
        /\ u = update_pretokenized_state(t, r)

\* A request prepared against t.
PreparedOn(t, h) ==
    /\ h.messages \in Requests /\ h.messages \in Seq(Msgs) /\ h.expected = t.num_assistant
    /\ \/ /\ t.trajectory_token_ids = <<>> /\ AsstPos(h.messages) = {}
          /\ h.prompt = render_messages(h.messages)
       \/ /\ t.trajectory_token_ids # <<>>
          /\ IsExtension(t.messages, h.messages) /\ RolesAllowed(t.messages, h.messages)
          /\ h.prompt = merge_tokens(Len(t.messages), h.messages, token_ids(t))

SameRequest(g, h) ==
    g.messages = h.messages /\ g.prompt = h.prompt /\ g.expected = h.expected

(* How a step changes a trajectory.                                        *)
TrajectoryEffect(t, u) ==
    SameContent(t, u) \/ u = LinearTrajectory \/ RolledBack(t, u) \/ Committed(t, u)

(* Who is in the backend after a step was there before or just prepared.   *)
RequestsEffect ==
    \A c \in Clients : InBackend(c)' =>
        \/ InBackend(c) /\ SameRequest(req[c], req'[c])
        \/ req'[c].sid \in Sessions /\ PreparedOn(traj'[req'[c].sid], req'[c])

(* Phase 1 ends with the trajectory or its rollback; a request that goes   *)
(* on is prepared against what is stored.                                  *)
LEMMA PrepareOutcome ==
    ASSUME FewShot = FALSE, TypeInv, NEW c \in Clients, Prepare(c)
    PROVE  /\ req[c].sid \in Sessions
           /\ \E u \in Trajectory :
                /\ traj' = [traj EXCEPT ![req[c].sid] = u]
                /\ u = traj[req[c].sid] \/ RolledBack(traj[req[c].sid], u)
                /\ \/ req' = [req EXCEPT ![c] = Idle]
                   \/ \E h \in Handler : /\ req' = [req EXCEPT ![c] = h] /\ h.sid = req[c].sid
                                         /\ PreparedOn(u, h)
  <1> USE SessionAssumption
  <1>1. PICK msgs \in Requests :
            PrepareFirst(c, msgs) \/ PrepareExtension(c, msgs) \/ PrepareRollback(c, msgs)
    BY DEF Prepare
  <1> DEFINE t == traj[req[c].sid]
  <1>2. /\ req[c].pc = "body" /\ req[c] \in Handler /\ req[c].sid \in Sessions
        /\ msgs \in Requests /\ msgs \in Seq(Msgs) /\ t \in Trajectory
    BY <1>1 DEF PrepareFirst, PrepareExtension, PrepareRollback, TypeInv, TypeOK, HandlersFormed
  <1>3. ASSUME NEW u \in Trajectory, NEW prompt \in Seq(Tokens), Forward(c, u, msgs, prompt)
        PROVE  /\ traj' = [traj EXCEPT ![req[c].sid] = u]
               /\ \E h \in Handler :
                    /\ req' = [req EXCEPT ![c] = h] /\ h.sid = req[c].sid
                    /\ h.messages = msgs /\ h.prompt = prompt /\ h.expected = u.num_assistant
    <2> DEFINE h == [req[c] EXCEPT !.pc = "proxy", !.messages = msgs,
                                   !.prompt = prompt, !.expected = u.num_assistant]
    <2>1. u.num_assistant \in Nat /\ "proxy" \in PCs
      BY DEF Trajectory, PCs
    <2>2. /\ h \in Handler /\ h.sid = req[c].sid
          /\ h.messages = msgs /\ h.prompt = prompt /\ h.expected = u.num_assistant
      BY <1>2, <2>1 DEF Handler
    <2>3. req' = [req EXCEPT ![c] = h]
      BY <1>3 DEF Forward
    <2> QED
      BY <1>3, <2>2, <2>3 DEF Forward
  <1>4. ASSUME NEW u \in Trajectory, u.trajectory_token_ids # <<>>, IsExtension(u.messages, msgs),
               AppendOnly(c, u, msgs)
        PROVE  /\ traj' = [traj EXCEPT ![req[c].sid] = u]
               /\ \/ req' = [req EXCEPT ![c] = Idle]
                  \/ \E h \in Handler : /\ req' = [req EXCEPT ![c] = h] /\ h.sid = req[c].sid
                                        /\ PreparedOn(u, h)
    <2> DEFINE prompt == merge_tokens(Len(u.messages), msgs, token_ids(u))
    <2>1. token_ids(u) \in Seq(Tokens) /\ Len(u.messages) \in Nat
      BY <1>4 DEF token_ids, Trajectory
    <2>2. prompt \in Seq(Tokens)
      BY <1>2, <2>1, MergeType
    <2>3. CASE RolesAllowed(u.messages, msgs) /\ Forward(c, u, msgs, prompt)
      <3> HIDE DEF prompt
      <3>1. PICK h \in Handler :
              /\ req' = [req EXCEPT ![c] = h] /\ h.sid = req[c].sid
              /\ h.messages = msgs /\ h.prompt = prompt /\ h.expected = u.num_assistant
        BY <1>3, <2>2, <2>3
      <3>2. PreparedOn(u, h)
        BY <1>2, <1>4, <2>3, <3>1 DEF PreparedOn, prompt
      <3> QED
        BY <2>3, <3>1, <3>2 DEF Forward
    <2>4. CASE Reject(c, u)
      BY <2>4 DEF Reject
    <2> QED
      BY <1>4, <2>3, <2>4 DEF AppendOnly
  <1>5. CASE PrepareFirst(c, msgs)
    <2>1. /\ t.trajectory_token_ids = <<>> /\ AsstPos(msgs) = {}
          /\ Forward(c, t, msgs, render_messages(msgs))
      BY <1>5 DEF PrepareFirst
    <2>2. render_messages(msgs) \in Seq(Tokens)
      BY <1>2, RenderType
    <2>3. PICK h \in Handler :
              /\ req' = [req EXCEPT ![c] = h] /\ h.sid = req[c].sid
              /\ h.messages = msgs /\ h.prompt = render_messages(msgs) /\ h.expected = t.num_assistant
      BY <1>2, <1>3, <2>1, <2>2
    <2>4. PreparedOn(t, h)
      BY <1>2, <2>1, <2>3 DEF PreparedOn
    <2>5. traj' = [traj EXCEPT ![req[c].sid] = t]
      BY <2>1 DEF Forward
    <2> QED
      BY <1>2, <2>3, <2>4, <2>5
  <1>6. CASE PrepareExtension(c, msgs)
    BY <1>2, <1>4, <1>6 DEF PrepareExtension
  <1>7. CASE PrepareRollback(c, msgs)
    <2>1. CASE RollbackFails(t, msgs)
      BY <1>2, <1>7, <2>1 DEF PrepareRollback, Reject
    <2>2. CASE ~RollbackFails(t, msgs)
      <3>1. PICK end \in 1..Len(t.messages) :
                IsRollbackEnd(t, msgs, end) /\ AppendOnly(c, Rollback(t, msgs, end), msgs)
        BY <1>7, <2>2 DEF PrepareRollback
      <3>2. t.trajectory_token_ids # <<>>
        BY <1>7 DEF PrepareRollback
      <3> DEFINE u == Rollback(t, msgs, end)
      <3>3. u \in Trajectory /\ IsExtension(u.messages, msgs) /\ u.trajectory_token_ids # <<>>
        BY <1>2, <3>1, <3>2, RollbackType
      <3>4. RolledBack(t, u)
        BY <1>2, <3>1, <3>2 DEF RolledBack
      <3> HIDE DEF u
      <3>5. AppendOnly(c, u, msgs)
        BY <3>1 DEF u
      <3> QED
        BY <1>2, <1>4, <3>3, <3>4, <3>5
    <2> QED
      BY <2>1, <2>2
  <1> QED
    BY <1>1, <1>5, <1>6, <1>7

(* Phase 3 leaves the trajectory as it was or commits the answer.          *)
LEMMA CommitOutcome ==
    ASSUME NEW c \in Clients, InBackend(c), NEW t, NEW r \in Handler, Answers(req[c], r)
    PROVE  TrajectoryEffect(t, Commit(t, r))
  <1>1. CASE t.closing \/ t.num_assistant # r.expected \/ PrefixMismatch(t, r.prompt \o r.reply)
    BY <1>1 DEF Commit, TrajectoryEffect, SameContent
  <1>2. CASE ~(t.closing \/ t.num_assistant # r.expected \/ PrefixMismatch(t, r.prompt \o r.reply))
    BY <1>2 DEF Commit, TrajectoryEffect, Committed
  <1> QED
    BY <1>1, <1>2

(* Every step, trajectory by trajectory and request by request.            *)
LEMMA StepEffect ==
    ASSUME FewShot = FALSE, TypeInv, [Next]_vars
    PROVE  (\A s \in Sessions : TrajectoryEffect(traj[s], traj'[s])) /\ RequestsEffect
  <1> USE DEF InBackend
  <1>0. traj \in [Sessions -> Trajectory] /\ req \in [Clients -> Handler]
    BY DEF TypeInv, TypeOK
  <1>1. \A c \in Clients : req[c].pc # "idle" => req[c].sid \in Sessions
    BY DEF TypeInv, HandlersFormed
  <1>2. ASSUME NEW c \in Clients, NEW h \in Handler, h.pc \notin {"proxy", "wait3"},
               req' = [req EXCEPT ![c] = h]
        PROVE  RequestsEffect
    BY <1>0, <1>2 DEF RequestsEffect, SameRequest
  <1>3. ASSUME NEW s \in Sessions, NEW u, TrajectoryEffect(traj[s], u),
               traj' = [traj EXCEPT ![s] = u]
        PROVE  \A x \in Sessions : TrajectoryEffect(traj[x], traj'[x])
    BY <1>0, <1>3 DEF TrajectoryEffect, SameContent
  <1>4. ASSUME traj' = traj
        PROVE  \A x \in Sessions : TrajectoryEffect(traj[x], traj'[x])
    BY <1>4 DEF TrajectoryEffect, SameContent
  <1>5. ASSUME req' = req
        PROVE  RequestsEffect
    BY <1>5 DEF RequestsEffect, SameRequest
  <1>6. ASSUME NEW s \in Sessions, create_session(s)
        PROVE  (\A x \in Sessions : TrajectoryEffect(traj[x], traj'[x])) /\ RequestsEffect
    BY <1>3, <1>5, <1>6 DEF create_session, TrajectoryEffect
  <1>7. ASSUME NEW c \in Clients, NEW s \in Sessions, ChatArrives(c, s)
        PROVE  (\A x \in Sessions : TrajectoryEffect(traj[x], traj'[x])) /\ RequestsEffect
    <2>1. \/ req' = [req EXCEPT ![c] = At("body", s)]
          \/ req' = [req EXCEPT ![c] = At("wait1", s)]
      BY <1>7 DEF ChatArrives
    <2>2. RequestsEffect
      BY <1>2, <2>1, HandlerStates
    <2> QED
      BY <1>4, <1>7, <2>2 DEF ChatArrives
  <1>8. ASSUME NEW c \in Clients, NEW s \in Sessions, delete_session(c, s)
        PROVE  (\A x \in Sessions : TrajectoryEffect(traj[x], traj'[x])) /\ RequestsEffect
    <2>1. RequestsEffect
      <3>1. CASE req' = req
        BY <1>5, <3>1
      <3>2. CASE req' = [req EXCEPT ![c] = At("waitD", s)]
        BY <1>2, <3>2, HandlerStates
      <3> QED
        BY <1>8, <3>1, <3>2 DEF delete_session
    <2>2. traj' = [traj EXCEPT ![s].closing = TRUE]
      BY <1>8 DEF delete_session
    <2>3. \A x \in Sessions : SameContent(traj[x], traj'[x])
      BY <1>0, <2>2 DEF Trajectory, SameContent
    <2> QED
      BY <2>1, <2>3 DEF TrajectoryEffect
  <1>9. ASSUME NEW c \in Clients, ChatLocked(c) \/ BodyFails(c) \/ ProxyFails(c) \/ DeleteLocked(c)
        PROVE  (\A x \in Sessions : TrajectoryEffect(traj[x], traj'[x])) /\ RequestsEffect
    <2>1. /\ traj' = traj /\ req[c].pc # "idle"
          /\ \/ req' = [req EXCEPT ![c] = Idle]
             \/ req' = [req EXCEPT ![c] = At("body", req[c].sid)]
      BY <1>9 DEF ChatLocked, BodyFails, ProxyFails, DeleteLocked
    <2>2. req[c].sid \in Sessions
      BY <1>1, <2>1
    <2>3. RequestsEffect
      BY <1>2, <2>1, <2>2, HandlerStates
    <2> QED
      BY <1>4, <2>1, <2>3
  <1>10. ASSUME NEW c \in Clients, Prepare(c)
         PROVE  (\A x \in Sessions : TrajectoryEffect(traj[x], traj'[x])) /\ RequestsEffect
    <2>1. req[c].sid \in Sessions
      BY <1>10, PrepareOutcome
    <2>2. PICK u \in Trajectory :
                /\ traj' = [traj EXCEPT ![req[c].sid] = u]
                /\ u = traj[req[c].sid] \/ RolledBack(traj[req[c].sid], u)
                /\ \/ req' = [req EXCEPT ![c] = Idle]
                   \/ \E h \in Handler : /\ req' = [req EXCEPT ![c] = h] /\ h.sid = req[c].sid
                                         /\ PreparedOn(u, h)
      BY <1>10, PrepareOutcome
    <2>3. TrajectoryEffect(traj[req[c].sid], u)
      BY <2>2 DEF TrajectoryEffect, SameContent
    <2>4. RequestsEffect
      <3>1. CASE req' = [req EXCEPT ![c] = Idle]
        BY <1>2, <3>1, HandlerStates
      <3>2. ASSUME NEW h \in Handler, req' = [req EXCEPT ![c] = h], h.sid = req[c].sid,
                   PreparedOn(u, h)
            PROVE  RequestsEffect
        <4>1. req'[c] = h /\ traj'[h.sid] = u /\ h.sid \in Sessions
          BY <1>0, <2>1, <2>2, <3>2
        <4>2. \A d \in Clients \ {c} : req'[d] = req[d]
          BY <1>0, <3>2
        <4>3. PreparedOn(traj'[req'[c].sid], req'[c])
          BY <3>2, <4>1
        <4> QED
          BY <4>1, <4>2, <4>3 DEF RequestsEffect, SameRequest
      <3> QED
        BY <2>2, <3>1, <3>2
    <2> QED
      BY <1>3, <2>1, <2>2, <2>3, <2>4
  <1>11. ASSUME NEW c \in Clients, NEW reply \in Completions, ProxyReturns(c, reply)
         PROVE  (\A x \in Sessions : TrajectoryEffect(traj[x], traj'[x])) /\ RequestsEffect
    <2> DEFINE s == req[c].sid
               r == [req[c] EXCEPT !.reply = reply]
               w == [r EXCEPT !.pc = "wait3"]
    <2>1. s \in Sessions /\ req[c] \in Handler /\ reply \in Seq(Tokens) /\ InBackend(c)
      BY <1>0, <1>1, <1>11, CompletionType DEF ProxyReturns
    <2>2. Answers(req[c], r) /\ w \in Handler /\ SameRequest(req[c], w)
      BY <2>1 DEF Handler, PCs, Answers, SameRequest
    <2>3. r \in Handler
      BY <2>2 DEF Answers
    <2> HIDE DEF r, w
    <2>4. CASE Free(s)
      <3>1. req' = [req EXCEPT ![c] = Idle] /\ traj' = [traj EXCEPT ![s] = Commit(traj[s], r)]
        BY <1>11, <2>4 DEF ProxyReturns, r
      <3>2. TrajectoryEffect(traj[s], Commit(traj[s], r))
        BY <2>1, <2>2, <2>3, CommitOutcome
      <3> HIDE DEF s
      <3> QED
        BY <1>2, <1>3, <2>1, <3>1, <3>2, HandlerStates
    <2>5. CASE ~Free(s)
      <3>1. req' = [req EXCEPT ![c] = w] /\ traj' = traj
        BY <1>11, <2>5 DEF ProxyReturns, r, w
      <3>2. RequestsEffect
        BY <1>0, <2>1, <2>2, <3>1 DEF RequestsEffect, SameRequest
      <3> QED
        BY <1>4, <3>1, <3>2
    <2> QED
      BY <2>4, <2>5
  <1>12. ASSUME NEW c \in Clients, CommitLocked(c)
         PROVE  (\A x \in Sessions : TrajectoryEffect(traj[x], traj'[x])) /\ RequestsEffect
    <2> DEFINE s == req[c].sid
    <2>1. s \in Sessions /\ req[c] \in Handler /\ req[c].reply \in Completions /\ InBackend(c)
      BY <1>0, <1>1, <1>12 DEF CommitLocked, TypeInv, HandlersFormed
    <2>2. Answers(req[c], req[c])
      BY <2>1 DEF Answers
    <2>3. req' = [req EXCEPT ![c] = Idle] /\ traj' = [traj EXCEPT ![s] = Commit(traj[s], req[c])]
      BY <1>12 DEF CommitLocked
    <2>4. TrajectoryEffect(traj[s], Commit(traj[s], req[c]))
      BY <2>1, <2>2, CommitOutcome
    <2> HIDE DEF s
    <2> QED
      BY <1>2, <1>3, <2>1, <2>3, <2>4, HandlerStates
  <1>13. CASE Quiescent \/ UNCHANGED vars
    BY <1>4, <1>5, <1>13 DEF Quiescent, vars
  <1> QED
    BY <1>6, <1>7, <1>8, <1>9, <1>10, <1>11, <1>12, <1>13 DEF Next, HandlerStep

(***************************************************************************)
(* The chain of the records.  A checkpoint holds as many assistant tokens  *)
(* as turns; an answer that passes the prefix check cannot have been       *)
(* prepared on fewer tokens than the last checkpoint, because the answer's *)
(* own assistant token would be one too many.                              *)
(***************************************************************************)
Counted(t) ==
    \A k \in 1..Len(t.trajectory_token_ids) :
        Cardinality(AsstPos(t.trajectory_token_ids[k])) = k

\* Token list ids goes on from last, up to the token that is trimmed.
Continues(last, ids) ==
    LET n == Len(last) - MaxTrim
    IN  n <= Len(ids) /\ Agree(last, ids, n)

Chained(t) ==
    /\ Len(t.records) = Len(t.trajectory_token_ids)
    /\ \A k \in 1..Len(t.records) :
          /\ t.trajectory_token_ids[k] = t.records[k].input_ids \o t.records[k].output_ids
          /\ k > 1 => Continues(t.trajectory_token_ids[k - 1], t.records[k].input_ids)

RequestsCounted ==
    \A c \in Clients : InBackend(c) => Cardinality(AsstPos(req[c].prompt)) = req[c].expected

ChainInv == (\A s \in Sessions : Counted(traj[s]) /\ Chained(traj[s])) /\ RequestsCounted

(* The assistant positions of a list of tokens are finitely many.          *)
LEMMA AsstTokensFinite ==
    ASSUME NEW ids \in Seq(Tokens)
    PROVE  /\ IsFiniteSet(AsstPos(ids))
           /\ AsstPos(ids) \subseteq 1..Len(ids)
           /\ Cardinality(AsstPos(ids)) \in Nat
  <1>1. IsFiniteSet(1..Len(ids))
    BY FS_Interval
  <1>2. AsstPos(ids) \subseteq 1..Len(ids)
    BY DEF AsstPos
  <1>3. IsFiniteSet(AsstPos(ids))
    BY <1>1, <1>2, FS_Subset
  <1> QED
    BY <1>2, <1>3, FS_CardinalityType

(* Where a rendered list holds messages and where boundary tokens.         *)
LEMMA RenderTokens ==
    ASSUME NEW msgs \in Seq(Msgs)
    PROVE  /\ render_messages(msgs) \in Seq(Tokens)
           /\ Len(render_messages(msgs)) = 2 * Len(msgs)
           /\ \A i \in 1..(2 * Len(msgs)) :
                render_messages(msgs)[i] =
                    IF (i % 2 = 1) <=> (MaxTrim = 0) THEN msgs[(i + 1) \div 2] ELSE Boundary
  <1> DEFINE f == [i \in 1..(2 * Len(msgs)) |->
                    IF (i % 2 = 1) <=> (MaxTrim = 0) THEN msgs[(i + 1) \div 2] ELSE Boundary]
  <1>1. render_messages(msgs) = f
    BY DEF render_messages
  <1>2. f \in Seq(Tokens)
    BY <1>1, RenderType
  <1>3. 2 * Len(msgs) \in Nat /\ DOMAIN f = 1..(2 * Len(msgs))
    OBVIOUS
  <1>4. \A i \in 1..(2 * Len(msgs)) :
            f[i] = IF (i % 2 = 1) <=> (MaxTrim = 0) THEN msgs[(i + 1) \div 2] ELSE Boundary
    OBVIOUS
  <1> HIDE DEF f
  <1>5. Len(f) = 2 * Len(msgs)
    BY <1>2, <1>3
  <1> QED
    BY <1>1, <1>2, <1>4, <1>5

(* Messages of other roles render to tokens that are no assistant's.       *)
LEMMA RenderSilent ==
    ASSUME NEW msgs \in Seq(Msgs), AsstPos(msgs) = {}
    PROVE  \A i \in 1..Len(render_messages(msgs)) : render_messages(msgs)[i] \notin Asst
  <1> SUFFICES ASSUME NEW i \in 1..(2 * Len(msgs))
               PROVE  render_messages(msgs)[i] \notin Asst
    BY RenderTokens
  <1>1. (i + 1) \div 2 \in 1..Len(msgs)
    OBVIOUS
  <1>2. msgs[(i + 1) \div 2] \notin Asst
    BY <1>1 DEF AsstPos
  <1>3. Boundary \notin Asst
    BY SessionAssumption DEF Msgs
  <1> QED
    BY <1>2, <1>3, RenderTokens

(* Merging messages of other roles keeps the assistants' tokens in place:  *)
(* the token that may be trimmed is one a turn stopped on.                 *)
LEMMA MergeCount ==
    ASSUME NEW prefix \in Seq(Tokens), prefix # <<>>, NEW msgs \in Seq(Msgs), NEW n \in Nat,
           n <= Len(msgs), \A i \in (n + 1)..Len(msgs) : msgs[i] \notin Asst
    PROVE  AsstPos(merge_tokens(n, msgs, prefix)) = AsstPos(prefix)
  <1> DEFINE kept == IF MaxTrim = 1 /\ prefix[Len(prefix)] \in Stops
                     THEN SubSeq(prefix, 1, Len(prefix) - 1) ELSE prefix
             new == SubSeq(msgs, n + 1, Len(msgs))
             tail == render_messages(new)
  <1>1. Len(prefix) \in Nat \ {0}
    OBVIOUS
  <1>2. \A p \in 1..Len(prefix) : prefix[p] \in Stops => prefix[p] \notin Asst
    BY SessionAssumption DEF Msgs
  <1>3. kept \in Seq(Tokens) /\ AsstPos(kept) = AsstPos(prefix)
    <2>1. CASE MaxTrim = 1 /\ prefix[Len(prefix)] \in Stops
      <3>1. kept = SubSeq(prefix, 1, Len(prefix) - 1)
        BY <2>1
      <3>2. /\ kept \in Seq(Tokens) /\ Len(kept) = Len(prefix) - 1
            /\ \A p \in 1..(Len(prefix) - 1) : kept[p] = prefix[p]
        <4> DEFINE n1 == Len(prefix) - 1
        <4>1. n1 \in Nat /\ n1 <= Len(prefix)
          BY <1>1
        <4> HIDE DEF n1
        <4>2. /\ SubSeq(prefix, 1, n1) \in Seq(Tokens) /\ Len(SubSeq(prefix, 1, n1)) = n1
              /\ \A p \in 1..n1 : SubSeq(prefix, 1, n1)[p] = prefix[p]
          BY <4>1
        <4> QED
          BY <3>1, <4>2 DEF n1
      <3>3. Len(prefix) \notin AsstPos(prefix)
        BY <1>1, <1>2, <2>1 DEF AsstPos
      <3> HIDE DEF kept
      <3> QED
        BY <1>1, <3>2, <3>3, SMTT(30) DEF AsstPos
    <2>2. CASE ~(MaxTrim = 1 /\ prefix[Len(prefix)] \in Stops)
      BY <2>2
    <2> QED
      BY <2>1, <2>2
  <1>4. /\ new \in Seq(Msgs) /\ Len(new) = Len(msgs) - n
        /\ \A i \in 1..Len(new) : new[i] = msgs[n + i]
    OBVIOUS
  <1>5. AsstPos(new) = {}
    <2>1. \A i \in 1..Len(new) : n + i \in (n + 1)..Len(msgs)
      BY <1>4
    <2> HIDE DEF new
    <2> QED
      BY <1>4, <2>1 DEF AsstPos
  <1>6. tail \in Seq(Tokens) /\ \A i \in 1..Len(tail) : tail[i] \notin Asst
    BY <1>4, <1>5, RenderType, RenderSilent
  <1>7. merge_tokens(n, msgs, prefix) = kept \o tail
    BY DEF merge_tokens
  <1> HIDE DEF kept, tail
  <1>8. /\ Len(kept \o tail) = Len(kept) + Len(tail)
        /\ \A p \in 1..(Len(kept) + Len(tail)) :
              (kept \o tail)[p] = IF p <= Len(kept) THEN kept[p] ELSE tail[p - Len(kept)]
    BY <1>3, <1>6
  <1>9. AsstPos(kept \o tail) = AsstPos(kept)
    <2>1. ASSUME NEW p \in 1..(Len(kept) + Len(tail)), p > Len(kept)
          PROVE  (kept \o tail)[p] \notin Asst
      <3>1. p - Len(kept) \in 1..Len(tail)
        BY <1>3, <1>6, <2>1
      <3> QED
        BY <1>3, <1>6, <1>8, <2>1, <3>1
    <2> QED
      BY <1>3, <1>6, <1>8, <2>1 DEF AsstPos
  <1> QED
    BY <1>3, <1>7, <1>9

(* A completion opens with an assistant token and adds no other.           *)
LEMMA ReplyTokens ==
    ASSUME NEW prompt \in Seq(Tokens), NEW reply \in Completions
    PROVE  /\ prompt \o reply \in Seq(Tokens)
           /\ \A p \in 1..Len(prompt) : (prompt \o reply)[p] = prompt[p]
           /\ (prompt \o reply)[Len(prompt) + 1] = reply[1] /\ reply[1] \in Asst
           /\ \/ Len(prompt \o reply) = Len(prompt) + 1 /\ Truncation
              \/ /\ Len(prompt \o reply) = Len(prompt) + 2
                 /\ (prompt \o reply)[Len(prompt) + 2] \in Stops
  <1>1. reply[1] \in Asst /\ reply \in Seq(Tokens)
    BY CompletionType
  <1>2. \/ Len(reply) = 1 /\ Truncation
        \/ Len(reply) = 2 /\ reply[2] \in Stops
    BY SMT DEF Completions
  <1>3. /\ prompt \o reply \in Seq(Tokens) /\ Len(prompt \o reply) = Len(prompt) + Len(reply)
        /\ \A p \in 1..Len(prompt) : (prompt \o reply)[p] = prompt[p]
        /\ \A p \in 1..Len(reply) : (prompt \o reply)[Len(prompt) + p] = reply[p]
    BY <1>1
  <1>4. CASE Len(reply) = 1 /\ Truncation
    BY <1>1, <1>3, <1>4
  <1>5. CASE Len(reply) = 2 /\ reply[2] \in Stops
    BY <1>1, <1>3, <1>5
  <1> QED
    BY <1>2, <1>4, <1>5

(* An answer adds one assistant token, right after the prompt.             *)
LEMMA ReplyCount ==
    ASSUME NEW prompt \in Seq(Tokens), NEW reply \in Completions
    PROVE  /\ AsstPos(prompt \o reply) = AsstPos(prompt) \cup {Len(prompt) + 1}
           /\ Cardinality(AsstPos(prompt \o reply)) = Cardinality(AsstPos(prompt)) + 1
  <1> DEFINE all == prompt \o reply
  <1>1. /\ all \in Seq(Tokens) /\ \A p \in 1..Len(prompt) : all[p] = prompt[p]
        /\ all[Len(prompt) + 1] \in Asst
        /\ \/ Len(all) = Len(prompt) + 1
           \/ Len(all) = Len(prompt) + 2 /\ all[Len(prompt) + 2] \notin Asst
    BY ReplyTokens, SessionAssumption DEF Msgs
  <1>2. Len(prompt) \in Nat
    OBVIOUS
  <1> HIDE DEF all
  <1>3. AsstPos(all) = AsstPos(prompt) \cup {Len(prompt) + 1}
    BY <1>1, <1>2 DEF AsstPos
  <1>4. Len(prompt) + 1 \notin AsstPos(prompt)
    BY <1>2 DEF AsstPos
  <1>5. IsFiniteSet(AsstPos(prompt)) /\ Cardinality(AsstPos(prompt)) \in Nat
    BY AsstTokensFinite
  <1>6. Cardinality(AsstPos(all)) = Cardinality(AsstPos(prompt)) + 1
    BY <1>3, <1>4, <1>5, FS_AddElement
  <1> QED
    BY <1>3, <1>6 DEF all

(* What a commit makes of a trajectory.                                    *)
LEMMA UpdateFields ==
    ASSUME NEW t \in Trajectory, NEW r \in Handler, r.reply \in Completions
    PROVE  LET u == update_pretokenized_state(t, r)
               n == Len(t.trajectory_token_ids)
           IN  /\ u.messages = Append(r.messages, r.reply[1])
               /\ Len(u.trajectory_token_ids) = n + 1
               /\ u.trajectory_token_ids[n + 1] = r.prompt \o r.reply
               /\ \A k \in 1..n : u.trajectory_token_ids[k] = t.trajectory_token_ids[k]
               /\ Len(u.records) = Len(t.records) + 1
               /\ u.records[Len(t.records) + 1] = [input_ids |-> r.prompt, output_ids |-> r.reply]
               /\ \A k \in 1..Len(t.records) : u.records[k] = t.records[k]
               /\ u.num_assistant = t.num_assistant + 1
  <1> DEFINE m == Append(r.messages, r.reply[1])
             ids == Append(t.trajectory_token_ids, r.prompt \o r.reply)
             recs == Append(t.records, [input_ids |-> r.prompt, output_ids |-> r.reply])
             u == update_pretokenized_state(t, r)
  <1>1. t.trajectory_token_ids \in Seq(Seq(Tokens)) /\ t.records \in Seq(Record)
    BY DEF Trajectory
  <1>2. r.prompt \o r.reply \in Seq(Tokens)
    BY ReplyTokens DEF Handler
  <1>3. [input_ids |-> r.prompt, output_ids |-> r.reply] \in Record
    BY CompletionType DEF Record, Handler
  <1>4. u = [t EXCEPT !.messages = m, !.trajectory_token_ids = ids,
                      !.records = recs, !.num_assistant = t.num_assistant + 1]
    BY DEF update_pretokenized_state
  <1>5. /\ Len(ids) = Len(t.trajectory_token_ids) + 1
        /\ ids[Len(t.trajectory_token_ids) + 1] = r.prompt \o r.reply
        /\ \A k \in 1..Len(t.trajectory_token_ids) : ids[k] = t.trajectory_token_ids[k]
    <2> DEFINE all == r.prompt \o r.reply
    <2>1. all \in Seq(Tokens) /\ ids = Append(t.trajectory_token_ids, all)
      BY <1>2
    <2> HIDE DEF all, ids
    <2>2. /\ Len(ids) = Len(t.trajectory_token_ids) + 1
          /\ ids[Len(t.trajectory_token_ids) + 1] = all
          /\ \A k \in 1..Len(t.trajectory_token_ids) : ids[k] = t.trajectory_token_ids[k]
      BY <1>1, <2>1
    <2> QED
      BY <2>2 DEF all
  <1>6. /\ Len(recs) = Len(t.records) + 1
        /\ recs[Len(t.records) + 1] = [input_ids |-> r.prompt, output_ids |-> r.reply]
        /\ \A k \in 1..Len(t.records) : recs[k] = t.records[k]
    BY <1>1, <1>3
  <1> HIDE DEF m, ids, recs, u
  <1>7. /\ u.messages = m /\ u.trajectory_token_ids = ids
        /\ u.records = recs /\ u.num_assistant = t.num_assistant + 1
    BY <1>4 DEF Trajectory
  <1> QED
    BY <1>5, <1>6, <1>7 DEF m, u

(* What a rollback makes of a trajectory.                                  *)
LEMMA RollbackFields ==
    ASSUME NEW t \in Trajectory, NEW msgs \in Seq(Msgs), NEW end \in 1..Len(t.messages),
           IsRollbackEnd(t, msgs, end), t.trajectory_token_ids # <<>>
    PROVE  LET u == Rollback(t, msgs, end)
               k == checkpoint_count(t, msgs)
               least(n) == IF k <= n THEN k ELSE n
           IN  /\ Len(u.trajectory_token_ids) = least(Len(t.trajectory_token_ids))
               /\ \A i \in 1..Len(u.trajectory_token_ids) :
                    u.trajectory_token_ids[i] = t.trajectory_token_ids[i]
               /\ Len(u.records) = least(Len(t.records))
               /\ \A i \in 1..Len(u.records) : u.records[i] = t.records[i]
  <1> DEFINE u == Rollback(t, msgs, end)
             k == checkpoint_count(t, msgs)
  <1>1. /\ u.trajectory_token_ids = Slice(t.trajectory_token_ids, k)
        /\ u.records = Slice(t.records, k) /\ k \in Nat \ {0}
    BY RollbackType
  <1>2. t.trajectory_token_ids \in Seq(Seq(Tokens)) /\ t.records \in Seq(Record)
    BY DEF Trajectory
  <1> HIDE DEF u, k
  <1>3. ASSUME NEW S, NEW seq \in Seq(S)
        PROVE  /\ Len(Slice(seq, k)) = IF k <= Len(seq) THEN k ELSE Len(seq)
               /\ \A i \in 1..Len(Slice(seq, k)) : Slice(seq, k)[i] = seq[i]
    BY <1>1 DEF Slice
  <1>4. /\ Len(u.trajectory_token_ids) = IF k <= Len(t.trajectory_token_ids)
                                         THEN k ELSE Len(t.trajectory_token_ids)
        /\ \A i \in 1..Len(u.trajectory_token_ids) :
                    u.trajectory_token_ids[i] = t.trajectory_token_ids[i]
    BY <1>1, <1>2, <1>3
  <1>5. /\ Len(u.records) = IF k <= Len(t.records) THEN k ELSE Len(t.records)
        /\ \A i \in 1..Len(u.records) : u.records[i] = t.records[i]
    BY <1>1, <1>2, <1>3
  <1> QED
    BY <1>4, <1>5 DEF u, k

(* A rollback cuts checkpoints and records at the same turn.               *)
LEMMA ChainRolledBack ==
    ASSUME NEW t \in Trajectory, NEW u, RolledBack(t, u), Counted(t), Chained(t)
    PROVE  Counted(u) /\ Chained(u)
  <1>1. PICK msgs \in Seq(Msgs), end \in 1..Len(t.messages) :
            IsRollbackEnd(t, msgs, end) /\ t.trajectory_token_ids # <<>> /\ u = Rollback(t, msgs, end)
    BY DEF RolledBack
  <1> DEFINE k == checkpoint_count(t, msgs)
             n == Len(t.trajectory_token_ids)
             least == IF k <= n THEN k ELSE n
  <1>2. /\ Len(u.trajectory_token_ids) = least
        /\ \A i \in 1..Len(u.trajectory_token_ids) : u.trajectory_token_ids[i] = t.trajectory_token_ids[i]
        /\ Len(u.records) = least
        /\ \A i \in 1..Len(u.records) : u.records[i] = t.records[i]
    <2>1. Len(t.records) = n
      BY DEF Chained
    <2> QED
      BY <1>1, <2>1, RollbackFields
  <1>3. k \in Nat \ {0} /\ n \in Nat
    <2>1. t.trajectory_token_ids \in Seq(Seq(Tokens))
      BY DEF Trajectory
    <2>2. n \in Nat
      BY <2>1
    <2>3. k \in Nat \ {0}
      BY <1>1, RollbackType
    <2> QED
      BY <2>2, <2>3
  <1>4. least \in Nat /\ least <= n
    BY <1>3
  <1> HIDE DEF k, n, least
  <1>5. Counted(u)
    BY <1>2, <1>3, <1>4 DEF Counted, n
  <1>6. Chained(u)
    <2> SUFFICES ASSUME NEW i \in 1..least
                 PROVE  /\ u.trajectory_token_ids[i] = u.records[i].input_ids \o u.records[i].output_ids
                        /\ i > 1 => Continues(u.trajectory_token_ids[i - 1], u.records[i].input_ids)
      BY <1>2 DEF Chained
    <2>1. i \in 1..Len(t.records) /\ Len(t.records) = n
      BY <1>3, <1>4 DEF Chained, n
    <2>2. /\ u.records[i] = t.records[i] /\ u.trajectory_token_ids[i] = t.trajectory_token_ids[i]
          /\ i > 1 => u.trajectory_token_ids[i - 1] = t.trajectory_token_ids[i - 1]
      BY <1>2, <1>4
    <2> QED
      BY <2>1, <2>2 DEF Chained
  <1> QED
    BY <1>5, <1>6

(* An answer that is committed was prepared on at least the last           *)
(* checkpoint: had it been on less, the checkpoint would reach into the    *)
(* answer and hold one assistant token too many.                           *)
LEMMA PromptContinues ==
    ASSUME NEW t \in Trajectory, Aligned(t), Counted(t), t.trajectory_token_ids # <<>>,
           NEW prompt \in Seq(Tokens), NEW reply \in Completions,
           Cardinality(AsstPos(prompt)) = t.num_assistant,
           ~PrefixMismatch(t, prompt \o reply)
    PROVE  Continues(token_ids(t), prompt)
  <1> DEFINE last == token_ids(t)
             all == prompt \o reply
             n == Len(last) - MaxTrim
  <1>1. t.trajectory_token_ids \in Seq(Seq(Tokens)) /\ Len(t.trajectory_token_ids) = t.num_assistant
    BY DEF Trajectory, Aligned
  <1>2. Len(t.trajectory_token_ids) \in 1..Len(t.trajectory_token_ids)
    BY <1>1
  <1>3. last \in Seq(Tokens) /\ Cardinality(AsstPos(last)) = t.num_assistant
    BY <1>1, <1>2 DEF token_ids, Counted
  <1>4. /\ all \in Seq(Tokens) /\ \A p \in 1..Len(prompt) : all[p] = prompt[p]
        /\ all[Len(prompt) + 1] \in Asst
    BY ReplyTokens
  <1>5. n > 0 => n <= Len(all) /\ Agree(last, all, n)
    BY DEF PrefixMismatch
  <1>6. Len(prompt) \in Nat /\ Len(last) \in Nat /\ MaxTrim \in {0, 1}
    BY <1>3, SessionAssumption
  <1> HIDE DEF last, all
  <1>7. CASE n <= Len(prompt)
    BY <1>4, <1>5, <1>6, <1>7 DEF Continues, Agree, last
  <1>8. CASE n > Len(prompt)
    <2>1. \A p \in 1..(Len(prompt) + 1) : last[p] = all[p]
      BY <1>5, <1>6, <1>8 DEF Agree
    <2>2. Len(prompt) + 1 <= Len(last)
      BY <1>6, <1>8
    <2>3. AsstPos(prompt) \cup {Len(prompt) + 1} \subseteq AsstPos(last)
      BY <1>4, <1>6, <2>1, <2>2 DEF AsstPos
    <2>4. Cardinality(AsstPos(prompt) \cup {Len(prompt) + 1}) = t.num_assistant + 1
      <3>1. Len(prompt) + 1 \notin AsstPos(prompt)
        BY <1>6 DEF AsstPos
      <3> QED
        BY <3>1, AsstTokensFinite, FS_AddElement
    <2>5. IsFiniteSet(AsstPos(last))
      BY <1>3, AsstTokensFinite
    <2>6. t.num_assistant + 1 <= t.num_assistant
      BY <1>3, <2>3, <2>4, <2>5, FS_Subset
    <2> QED
      BY <2>6 DEF Trajectory
  <1> QED
    BY <1>6, <1>7, <1>8

(* A commit adds the next link of the chain.                               *)
LEMMA ChainCommitted ==
    ASSUME TypeInv, RequestsCounted, NEW t \in Trajectory, NEW u, Committed(t, u),
           Aligned(t), Counted(t), Chained(t)
    PROVE  Counted(u) /\ Chained(u)
  <1>1. PICK c \in Clients, r \in Handler :
            /\ InBackend(c) /\ Answers(req[c], r)
            /\ t.num_assistant = r.expected /\ ~PrefixMismatch(t, r.prompt \o r.reply)
            /\ u = update_pretokenized_state(t, r)
    BY DEF Committed
  <1> DEFINE n == Len(t.trajectory_token_ids)
             ids == u.trajectory_token_ids
  <1>2. /\ r.prompt \in Seq(Tokens) /\ r.reply \in Completions
        /\ Cardinality(AsstPos(r.prompt)) = t.num_assistant
    BY <1>1 DEF Answers, RequestsCounted, Handler
  <1>3. n \in Nat /\ n = t.num_assistant /\ Len(t.records) = n
    BY DEF Aligned, Trajectory
  <1>4. /\ Len(ids) = n + 1 /\ ids[n + 1] = r.prompt \o r.reply
        /\ \A k \in 1..n : ids[k] = t.trajectory_token_ids[k]
        /\ Len(u.records) = n + 1
        /\ u.records[n + 1] = [input_ids |-> r.prompt, output_ids |-> r.reply]
        /\ \A k \in 1..n : u.records[k] = t.records[k]
    BY <1>1, <1>2, <1>3, UpdateFields
  <1>5. n > 0 => Continues(t.trajectory_token_ids[n], r.prompt)
    <2> SUFFICES ASSUME n > 0
                 PROVE  Continues(token_ids(t), r.prompt)
      BY DEF token_ids
    <2>1. t.trajectory_token_ids # <<>>
      OBVIOUS
    <2> QED
      BY <1>1, <1>2, <2>1, PromptContinues
  <1>6. Cardinality(AsstPos(r.prompt \o r.reply)) = n + 1
    BY <1>2, <1>3, ReplyCount
  <1> HIDE DEF n, ids
  <1>7. \A k \in 1..(n + 1) : k \in 1..n \/ k = n + 1
    BY <1>3
  <1>8. Counted(u)
    <2>1. ASSUME NEW k \in 1..(n + 1)
          PROVE  Cardinality(AsstPos(ids[k])) = k
      <3>1. CASE k \in 1..n
        BY <1>4, <3>1 DEF Counted, n
      <3>2. CASE k = n + 1
        BY <1>4, <1>6, <3>2
      <3> QED
        BY <1>7, <3>1, <3>2
    <2> QED
      BY <1>4, <2>1 DEF Counted, ids
  <1>9. Chained(u)
    <2>1. ASSUME NEW k \in 1..(n + 1)
          PROVE  /\ ids[k] = u.records[k].input_ids \o u.records[k].output_ids
                 /\ k > 1 => Continues(ids[k - 1], u.records[k].input_ids)
      <3>1. CASE k \in 1..n
        <4>1. k > 1 => k - 1 \in 1..n
          BY <1>3, <3>1
        <4> QED
          BY <1>3, <1>4, <3>1, <4>1 DEF Chained, n
      <3>2. CASE k = n + 1
        <4>1. k > 1 => n > 0 /\ k - 1 = n /\ n \in 1..n
          BY <1>3, <3>2
        <4>2. u.records[k].input_ids = r.prompt /\ u.records[k].output_ids = r.reply
          BY <1>4, <3>2
        <4> QED
          BY <1>4, <1>5, <3>2, <4>1, <4>2 DEF n
      <3> QED
        BY <1>7, <3>1, <3>2
    <2> QED
      BY <1>4, <2>1 DEF Chained, ids
  <1> QED
    BY <1>8, <1>9

(* A request is prepared with as many assistant tokens as its version has  *)
(* turns.                                                                  *)
LEMMA PreparedCounted ==
    ASSUME NEW t \in Trajectory, Aligned(t), Counted(t), NEW h, PreparedOn(t, h)
    PROVE  Cardinality(AsstPos(h.prompt)) = h.expected
  <1>1. t.trajectory_token_ids \in Seq(Seq(Tokens)) /\ Len(t.trajectory_token_ids) = t.num_assistant
    BY DEF Trajectory, Aligned
  <1>2. h.messages \in Seq(Msgs) /\ h.expected = t.num_assistant
    BY DEF PreparedOn
  <1>3. CASE /\ t.trajectory_token_ids = <<>> /\ AsstPos(h.messages) = {}
             /\ h.prompt = render_messages(h.messages)
    <2>1. AsstPos(h.prompt) = {}
      BY <1>2, <1>3, RenderSilent DEF AsstPos
    <2> QED
      BY <1>1, <1>2, <1>3, <2>1, FS_EmptySet
  <1>4. CASE /\ t.trajectory_token_ids # <<>>
             /\ IsExtension(t.messages, h.messages) /\ RolesAllowed(t.messages, h.messages)
             /\ h.prompt = merge_tokens(Len(t.messages), h.messages, token_ids(t))
    <2>1. Len(t.trajectory_token_ids) \in 1..Len(t.trajectory_token_ids)
      BY <1>1, <1>4
    <2>2. token_ids(t) \in Seq(Tokens) /\ Cardinality(AsstPos(token_ids(t))) = t.num_assistant
      BY <1>1, <2>1 DEF token_ids, Counted
    <2>3. t.num_assistant # 0
      BY <1>1, <2>1
    <2>4. token_ids(t) # <<>>
      <3>1. SUFFICES ASSUME token_ids(t) = <<>>
                     PROVE  FALSE
        OBVIOUS
      <3>2. AsstPos(token_ids(t)) = {}
        BY <3>1 DEF AsstPos
      <3> QED
        BY <2>2, <2>3, <3>2, FS_EmptySet
    <2>5. Len(t.messages) \in Nat /\ Len(t.messages) <= Len(h.messages)
      BY <1>4 DEF Trajectory, IsExtension
    <2>6. \A i \in (Len(t.messages) + 1)..Len(h.messages) : h.messages[i] \notin Asst
      BY <1>4, SessionAssumption DEF RolesAllowed
    <2>7. AsstPos(h.prompt) = AsstPos(token_ids(t))
      BY <1>2, <1>4, <2>2, <2>4, <2>5, <2>6, MergeCount
    <2> QED
      BY <1>2, <2>2, <2>7
  <1> QED
    BY <1>3, <1>4 DEF PreparedOn

(* Every step keeps the chain and the requests' counts.                    *)
LEMMA ChainStep ==
    ASSUME FewShot = FALSE, TypeInv, TypeInv', AlignedInv, AlignedInv', ChainInv, [Next]_vars
    PROVE  ChainInv'
  <1>1. /\ \A s \in Sessions : TrajectoryEffect(traj[s], traj'[s])
        /\ RequestsEffect
    BY StepEffect
  <1>2. ASSUME NEW s \in Sessions
        PROVE  Counted(traj'[s]) /\ Chained(traj'[s])
    <2>1. traj[s] \in Trajectory /\ Aligned(traj[s]) /\ Counted(traj[s]) /\ Chained(traj[s])
      BY DEF TypeInv, TypeOK, AlignedInv, CheckpointsAligned, Aligned, ChainInv
    <2>2. CASE SameContent(traj[s], traj'[s])
      BY <2>1, <2>2 DEF SameContent, Counted, Chained
    <2>3. CASE traj'[s] = LinearTrajectory
      BY <2>3 DEF LinearTrajectory, Counted, Chained
    <2>4. CASE RolledBack(traj[s], traj'[s])
      BY <2>1, <2>4, ChainRolledBack
    <2>5. CASE Committed(traj[s], traj'[s])
      BY <2>1, <2>5, ChainCommitted DEF ChainInv
    <2> QED
      BY <1>1, <2>2, <2>3, <2>4, <2>5 DEF TrajectoryEffect
  <1>3. ASSUME NEW c \in Clients, InBackend(c)'
        PROVE  Cardinality(AsstPos(req'[c].prompt)) = req'[c].expected
    <2>1. CASE InBackend(c) /\ SameRequest(req[c], req'[c])
      BY <2>1 DEF ChainInv, RequestsCounted, SameRequest
    <2>2. CASE req'[c].sid \in Sessions /\ PreparedOn(traj'[req'[c].sid], req'[c])
      <3>1. traj'[req'[c].sid] \in Trajectory /\ Aligned(traj'[req'[c].sid])
        BY <2>2 DEF TypeInv, TypeOK, AlignedInv, CheckpointsAligned, Aligned
      <3> QED
        BY <1>2, <2>2, <3>1, PreparedCounted
    <2> QED
      BY <1>1, <1>3, <2>1, <2>2 DEF RequestsEffect
  <1> QED
    BY <1>2, <1>3 DEF ChainInv, RequestsCounted

(* The records a sample is built from form one chain of tokens, whatever   *)
(* concurrent requests, retries and rollbacks came before.                 *)
THEOREM RecordsStayChained ==
    ASSUME FewShot = FALSE
    PROVE  Spec => []RecordsFormChain
  <1>1. TypeInv /\ AlignedInv /\ ChainInv /\ [Next]_vars => (TypeInv /\ AlignedInv /\ ChainInv)'
    BY TypeStep, AlignedStep, ChainStep
  <1>2. Init => TypeInv /\ AlignedInv /\ ChainInv
    <2>1. Init => ChainInv
      <3>1. Counted(LinearTrajectory) /\ Chained(LinearTrajectory)
        BY DEF LinearTrajectory, Counted, Chained
      <3>2. Init => \A s \in Sessions : Counted(traj[s]) /\ Chained(traj[s])
        BY <3>1 DEF Init
      <3>3. Init => RequestsCounted
        BY DEF Init, RequestsCounted, InBackend, Idle
      <3> QED
        BY <3>2, <3>3 DEF ChainInv
    <2> QED
      BY <2>1, TypeInit, AlignedInit
  <1>3. TypeInv /\ ChainInv => RecordsFormChain
    <2> SUFFICES ASSUME TypeInv, ChainInv, NEW s \in Sessions, NEW k \in 1..Len(traj[s].records)
                 PROVE  /\ k <= Len(traj[s].trajectory_token_ids)
                        /\ traj[s].trajectory_token_ids[k] =
                                traj[s].records[k].input_ids \o traj[s].records[k].output_ids
                        /\ k > 1 => Continues(traj[s].trajectory_token_ids[k - 1],
                                              traj[s].records[k].input_ids)
      BY DEF Continues, RecordsFormChain
    <2>1. Len(traj[s].records) \in Nat
      BY DEF TypeInv, TypeOK, Trajectory
    <2>2. Chained(traj[s])
      BY DEF ChainInv
    <2>3. k <= Len(traj[s].trajectory_token_ids)
      BY <2>1, <2>2 DEF Chained
    <2> QED
      BY <2>2, <2>3 DEF Chained
  <1> QED
    BY <1>1, <1>2, <1>3, PTL DEF Spec

(***************************************************************************)
(* Ranks.                                                                  *)
(***************************************************************************)

(* Ranks number the members of a finite set from 1 on, in their order.     *)
LEMMA RankNumbers ==
    ASSUME NEW S, IsFiniteSet(S), S \subseteq Nat
    PROVE  /\ Cardinality(S) \in Nat
           /\ \A p \in S : Rank(S, p) \in 1..Cardinality(S)
           /\ \A p, q \in S : p < q => Rank(S, p) < Rank(S, q)
           /\ \A i \in 1..Cardinality(S) : \E p \in S : Rank(S, p) = i
  <1> DEFINE upTo(p) == {q \in S : q <= p}
  <1>1. Cardinality(S) \in Nat
    BY FS_CardinalityType
  <1>2. ASSUME NEW p \in S
        PROVE  /\ IsFiniteSet(upTo(p)) /\ Cardinality(upTo(p)) \in Nat
               /\ Cardinality(upTo(p)) <= Cardinality(S) /\ Cardinality(upTo(p)) # 0
    <2>1. IsFiniteSet(upTo(p)) /\ Cardinality(upTo(p)) <= Cardinality(S)
      BY FS_Subset
    <2>2. p \in upTo(p)
      OBVIOUS
    <2> HIDE DEF upTo
    <2> QED
      BY <2>1, <2>2, FS_CardinalityType, FS_EmptySet
  <1>3. \A p \in S : Rank(S, p) \in 1..Cardinality(S)
    BY <1>1, <1>2 DEF Rank
  <1>4. ASSUME NEW p \in S, NEW q \in S, p < q
        PROVE  Rank(S, p) < Rank(S, q)
    <2>1. upTo(p) \subseteq upTo(q) /\ q \in upTo(q) /\ q \notin upTo(p)
      <3>1. p \in Nat /\ q \in Nat /\ q <= q /\ ~(q <= p)
        BY <1>4
      <3>2. \A x \in S : x <= p => x <= q
        BY <1>4
      <3> QED
        BY <3>1, <3>2
    <2>2. /\ Cardinality(upTo(p)) <= Cardinality(upTo(q))
          /\ Cardinality(upTo(p)) # Cardinality(upTo(q))
      <3> HIDE DEF upTo
      <3> QED
        BY <1>2, <2>1, FS_Subset
    <2>3. Cardinality(upTo(p)) \in Nat /\ Cardinality(upTo(q)) \in Nat
      BY <1>2
    <2> QED
      BY <2>2, <2>3 DEF Rank
  <1> DEFINE f == [p \in S |-> Rank(S, p)]
  <1>5. f \in Injection(S, 1..Cardinality(S))
    <2>1. f \in [S -> 1..Cardinality(S)]
      BY <1>3
    <2>2. ASSUME NEW p \in S, NEW q \in S, f[p] = f[q]
          PROVE  p = q
      <3>1. Rank(S, p) = Rank(S, q)
        BY <2>2
      <3>2. ~(p < q) /\ ~(q < p)
        BY <1>1, <1>3, <1>4, <3>1
      <3> QED
        BY <3>2
    <2> QED
      BY <2>1, <2>2 DEF Injection, IsInjective
  <1>6. IsFiniteSet(1..Cardinality(S)) /\ Cardinality(1..Cardinality(S)) = Cardinality(S)
    BY <1>1, FS_Interval
  <1>7. f \in Surjection(S, 1..Cardinality(S))
    <2> HIDE DEF f
    <2> QED
      BY <1>5, <1>6, FS_Injection
  <1>8. \A i \in 1..Cardinality(S) : \E p \in S : Rank(S, p) = i
    BY <1>7 DEF Surjection
  <1> QED
    BY <1>1, <1>3, <1>4, <1>8

(* The members of a set that a growing function lists are ranked as listed. *)
LEMMA RankListed ==
    ASSUME NEW n \in Nat, NEW f \in [1..n -> Nat],
           \A i, j \in 1..n : i < j => f[i] < f[j]
    PROVE  LET S == {f[i] : i \in 1..n}
           IN  Cardinality(S) = n /\ \A i \in 1..n : Rank(S, f[i]) = i
  <1> DEFINE S == {f[i] : i \in 1..n}
             first(m) == {f[i] : i \in 1..m}
  <1>1. ASSUME NEW m \in 0..n
        PROVE  Cardinality(first(m)) = m
    <2> DEFINE g == [i \in 1..m |-> f[i]]
    <2>1. g \in Bijection(1..m, first(m))
      <3>1. g \in [1..m -> first(m)]
        OBVIOUS
      <3>2. ASSUME NEW i \in 1..m, NEW j \in 1..m, g[i] = g[j]
            PROVE  i = j
        <4>1. i \in 1..n /\ j \in 1..n /\ f[i] = f[j]
          BY <3>2
        <4>2. ~(i < j) /\ ~(j < i)
          BY <4>1
        <4> QED
          BY <4>1, <4>2
      <3>3. \A t \in first(m) : \E i \in 1..m : g[i] = t
        OBVIOUS
      <3>4. DOMAIN g = 1..m
        OBVIOUS
      <3> HIDE DEF g, first
      <3> QED
        BY <3>1, <3>2, <3>3, <3>4 DEF Bijection, Injection, Surjection, IsInjective
    <2>2. ExistsBijection(1..m, first(m))
      BY <2>1 DEF ExistsBijection
    <2>3. IsFiniteSet(1..m) /\ Cardinality(1..m) = m
      BY FS_Interval
    <2> HIDE DEF first
    <2> QED
      BY <2>2, <2>3, FS_Bijection
  <1>2. Cardinality(S) = n
    BY <1>1
  <1>3. ASSUME NEW i \in 1..n
        PROVE  Rank(S, f[i]) = i
    <2>1. \A j \in 1..n : f[j] <= f[i] <=> j <= i
      OBVIOUS
    <2>2. {q \in S : q <= f[i]} = first(i)
      BY <2>1
    <2>3. i \in 0..n
      OBVIOUS
    <2> HIDE DEF first
    <2>4. Cardinality(first(i)) = i
      BY <1>1, <2>3
    <2>5. Rank(S, f[i]) = Cardinality(first(i))
      BY <2>2 DEF Rank
    <2> QED
      BY <2>4, <2>5
  <1> QED
    BY <1>2, <1>3

(* Moving a set of numbers keeps their number.                             *)
LEMMA ShiftCount ==
    ASSUME NEW S, IsFiniteSet(S), S \subseteq Nat, NEW n \in Nat
    PROVE  /\ IsFiniteSet({n + q : q \in S})
           /\ Cardinality({n + q : q \in S}) = Cardinality(S)
  <1> DEFINE T == {n + q : q \in S}
             f == [q \in S |-> n + q]
  <1>1. f \in Bijection(S, T)
    <2>1. f \in [S -> T]
      OBVIOUS
    <2>2. \A p, q \in S : f[p] = f[q] => p = q
      OBVIOUS
    <2>3. \A t \in T : \E q \in S : f[q] = t
      OBVIOUS
    <2> HIDE DEF f, T
    <2> QED
      BY <2>1, <2>2, <2>3 DEF Bijection, Injection, Surjection, IsInjective
  <1>2. ExistsBijection(S, T)
    BY <1>1 DEF ExistsBijection
  <1> HIDE DEF T
  <1>3. IsFiniteSet(T) /\ Cardinality(T) = Cardinality(S)
    BY <1>2, FS_Bijection
  <1> QED
    BY <1>3 DEF T


Shifted(n, S) == {n + q : q \in S}

Positions(n, S, R) == n \in Nat /\ S \subseteq 1..n /\ IsFiniteSet(R) /\ R \subseteq Nat \ {0}

(* A set that goes on with the members of another, moved past its own:     *)
(* the others are counted after them.                                      *)
LEMMA CountConcat ==
    ASSUME NEW n, NEW S, NEW R, Positions(n, S, R)
    PROVE  Cardinality(S \cup Shifted(n, R)) = Cardinality(S) + Cardinality(R)
  <1> DEFINE U == Shifted(n, R)
  <1>1. n \in Nat /\ S \subseteq 1..n /\ IsFiniteSet(R) /\ R \subseteq Nat \ {0}
    BY DEF Positions
  <1>2. IsFiniteSet(S) /\ Cardinality(S) \in Nat /\ Cardinality(R) \in Nat
    <2>1. IsFiniteSet(1..n)
      BY <1>1, FS_Interval
    <2>2. IsFiniteSet(S)
      BY <1>1, <2>1, FS_Subset
    <2> QED
      BY <1>1, <2>2, FS_CardinalityType
  <1>3. IsFiniteSet(U) /\ Cardinality(U) = Cardinality(R)
    BY <1>1, ShiftCount DEF Shifted
  <1>4. S \cap U = {}
    BY <1>1 DEF Shifted
  <1> HIDE DEF U
  <1>5. Cardinality(S \cup U) = Cardinality(S) + Cardinality(U) - Cardinality(S \cap U)
    BY <1>2, <1>3, FS_Union
  <1>6. Cardinality(S \cap U) = 0
    BY <1>4, FS_EmptySet
  <1>7. Cardinality(S \cup U) = Cardinality(S) + Cardinality(R)
    BY <1>2, <1>3, <1>5, <1>6
  <1> QED
    BY <1>7 DEF U

LEMMA RankInFirst ==
    ASSUME NEW n, NEW S, NEW R, Positions(n, S, R), NEW p \in S
    PROVE  Rank(S \cup Shifted(n, R), p) = Rank(S, p)
  <1>1. n \in Nat /\ S \subseteq 1..n /\ R \subseteq Nat \ {0}
    BY DEF Positions
  <1>2. \A q \in R : ~(n + q <= p)
    BY <1>1
  <1>3. {q \in S \cup Shifted(n, R) : q <= p} = {q \in S : q <= p}
    BY <1>2 DEF Shifted
  <1> QED
    BY <1>3 DEF Rank

LEMMA RankInSecond ==
    ASSUME NEW n, NEW S, NEW R, Positions(n, S, R), NEW p \in R
    PROVE  Rank(S \cup Shifted(n, R), n + p) = Cardinality(S) + Rank(R, p)
  <1> DEFINE Q == {q \in R : q <= p}
  <1>1. n \in Nat /\ S \subseteq 1..n /\ IsFiniteSet(R) /\ R \subseteq Nat \ {0}
    BY DEF Positions
  <1>2. \A q \in S : q <= n + p
    BY <1>1
  <1>3. \A q \in R : n + q <= n + p <=> q <= p
    BY <1>1
  <1>4. {q \in S \cup Shifted(n, R) : q <= n + p} = S \cup Shifted(n, Q)
    <2>1. \A x \in Shifted(n, R) : x <= n + p <=> x \in Shifted(n, Q)
      BY <1>1, <1>3 DEF Shifted
    <2>2. \A x \in Shifted(n, Q) : x \in Shifted(n, R)
      BY DEF Shifted
    <2> HIDE DEF Q
    <2> QED
      BY <1>2, <2>1, <2>2
  <1>5. Positions(n, S, Q)
    BY <1>1, FS_Subset DEF Positions
  <1> HIDE DEF Q
  <1>6. Cardinality(S \cup Shifted(n, Q)) = Cardinality(S) + Cardinality(Q)
    BY <1>5, CountConcat
  <1> QED
    BY <1>4, <1>6 DEF Rank, Q

(***************************************************************************)
(* Spelling.                                                               *)
(***************************************************************************)

(* The positions of message tokens are finitely many.                      *)
LEMMA SaidFinite ==
    ASSUME NEW ids \in Seq(Tokens)
    PROVE  /\ IsFiniteSet(Said(ids)) /\ Said(ids) \subseteq 1..Len(ids)
           /\ Said(ids) \subseteq Nat \ {0} /\ Cardinality(Said(ids)) \in Nat
  <1>1. IsFiniteSet(1..Len(ids))
    BY FS_Interval
  <1>2. Said(ids) \subseteq 1..Len(ids) /\ Said(ids) \subseteq Nat \ {0}
    BY DEF Said
  <1>3. IsFiniteSet(Said(ids))
    BY <1>1, <1>2, FS_Subset
  <1> QED
    BY <1>2, <1>3, FS_CardinalityType

(* Tokens that agree on all that was said in the first spell messages that *)
(* extend the first's.                                                     *)
LEMMA SpellsExtends ==
    ASSUME NEW a \in Seq(Tokens), NEW b \in Seq(Tokens), NEW ma \in Seq(Msgs), NEW mb \in Seq(Msgs),
           Spells(a, ma), Spells(b, mb),
           NEW n \in Nat, n <= Len(a), n <= Len(b), Agree(a, b, n), \A p \in Said(a) : p <= n
    PROVE  IsExtension(ma, mb)
  <1>1. /\ IsFiniteSet(Said(a)) /\ Said(a) \subseteq 1..Len(a) /\ Cardinality(Said(a)) = Len(ma)
        /\ IsFiniteSet(Said(b)) /\ Said(b) \subseteq 1..Len(b) /\ Cardinality(Said(b)) = Len(mb)
    BY SaidFinite DEF Spells
  <1>2. \A p \in 1..n : a[p] = b[p]
    BY DEF Agree
  <1>3. \A p \in 1..n : p \in Said(a) <=> p \in Said(b)
    BY <1>2 DEF Said
  <1>4. Said(a) \subseteq Said(b)
    BY <1>1, <1>3
  <1>5. Len(ma) <= Len(mb)
    BY <1>1, <1>4, FS_Subset
  <1>6. ASSUME NEW i \in 1..Len(ma)
        PROVE  ma[i] = mb[i]
    <2>1. PICK p \in Said(a) : Rank(Said(a), p) = i
      BY <1>1, SaidFinite, RankNumbers
    <2>2. p \in 1..n /\ p \in Said(b)
      BY <1>1, <1>4, <2>1
    <2>3. {q \in Said(a) : q <= p} = {q \in Said(b) : q <= p}
      <3>1. \A q \in Said(b) : q <= p => q \in 1..n
        BY <1>1, <2>2
      <3> QED
        BY <1>3, <1>4, <3>1
    <2>4. Rank(Said(b), p) = i
      BY <2>1, <2>3 DEF Rank
    <2> QED
      BY <1>2, <2>1, <2>2, <2>4 DEF Spells
  <1> QED
    BY <1>5, <1>6 DEF IsExtension, Agree

(* Tokens that say the same in the same places spell the same.             *)
LEMMA SpellsSame ==
    ASSUME NEW a, NEW b, NEW msgs, Spells(a, msgs), Said(a) = Said(b), \A p \in Said(a) : a[p] = b[p]
    PROVE  Spells(b, msgs)
  BY DEF Spells

(* One after the other, tokens spell one message list after the other.     *)
LEMMA SpellsConcat ==
    ASSUME NEW a \in Seq(Tokens), NEW b \in Seq(Tokens), NEW ma \in Seq(Msgs), NEW mb \in Seq(Msgs),
           Spells(a, ma), Spells(b, mb)
    PROVE  Spells(a \o b, ma \o mb)
  <1> DEFINE n == Len(a)
             T == Shifted(n, Said(b))
             all == a \o b
             msgs == ma \o mb
  <1>1. /\ Said(a) \subseteq 1..n /\ Cardinality(Said(a)) = Len(ma) /\ IsFiniteSet(Said(a))
        /\ Said(b) \subseteq 1..Len(b) /\ Said(b) \subseteq Nat \ {0}
        /\ Cardinality(Said(b)) = Len(mb) /\ IsFiniteSet(Said(b))
    BY SaidFinite DEF Spells
  <1>2. /\ n \in Nat /\ Len(b) \in Nat /\ Len(all) = n + Len(b)
        /\ \A p \in 1..n : all[p] = a[p]
        /\ \A q \in 1..Len(b) : all[n + q] = b[q]
    OBVIOUS
  <1>3. /\ Len(msgs) = Len(ma) + Len(mb)
        /\ \A i \in 1..Len(ma) : msgs[i] = ma[i]
        /\ \A i \in 1..Len(mb) : msgs[Len(ma) + i] = mb[i]
    OBVIOUS
  <1> HIDE DEF n, all, msgs
  <1>4. Said(all) = Said(a) \cup T
    <2>1. \A p \in 1..n : p \in Said(all) <=> p \in Said(a)
      BY <1>2 DEF Said, n
    <2>2. \A q \in 1..Len(b) : n + q \in Said(all) <=> q \in Said(b)
      BY <1>2 DEF Said
    <2>3. \A p \in 1..(n + Len(b)) : p \in 1..n \/ \E q \in 1..Len(b) : p = n + q
      <3> SUFFICES ASSUME NEW p \in 1..(n + Len(b)), p \notin 1..n
                   PROVE  \E q \in 1..Len(b) : p = n + q
        OBVIOUS
      <3>1. p - n \in 1..Len(b) /\ p = n + (p - n)
        BY <1>2
      <3> QED
        BY <3>1
    <2>4. Said(all) \subseteq 1..(n + Len(b))
      BY <1>2 DEF Said
    <2>5. ASSUME NEW p \in Said(all)
          PROVE  p \in Said(a) \cup T
      BY <2>1, <2>2, <2>3, <2>4 DEF Shifted
    <2>6. ASSUME NEW p \in Said(a) \cup T
          PROVE  p \in Said(all)
      BY <1>1, <2>1, <2>2 DEF Shifted
    <2> QED
      BY <2>5, <2>6
  <1>5. /\ Cardinality(Said(all)) = Len(ma) + Len(mb)
        /\ \A p \in Said(a) : Rank(Said(all), p) = Rank(Said(a), p)
        /\ \A q \in Said(b) : Rank(Said(all), n + q) = Len(ma) + Rank(Said(b), q)
    <2>1. Positions(n, Said(a), Said(b))
      BY <1>1, <1>2 DEF Positions
    <2> DEFINE A == Said(a)
               R == Said(b)
    <2> HIDE DEF A, R
    <2>2. Positions(n, A, R)
      BY <2>1 DEF A, R
    <2>3. Cardinality(A \cup T) = Cardinality(A) + Cardinality(R)
      BY <2>2, CountConcat DEF R
    <2>4. \A p \in A : Rank(A \cup T, p) = Rank(A, p)
      BY <2>2, RankInFirst DEF R
    <2>5. \A q \in R : Rank(A \cup T, n + q) = Cardinality(A) + Rank(R, q)
      BY <2>2, RankInSecond DEF R
    <2> QED
      BY <1>1, <1>4, <2>3, <2>4, <2>5 DEF A, R
  <1>6. ASSUME NEW p \in Said(a)
        PROVE  all[p] = msgs[Rank(Said(all), p)]
    <2>1. Rank(Said(a), p) \in 1..Len(ma)
      BY <1>1, RankNumbers
    <2> QED
      BY <1>1, <1>2, <1>3, <1>5, <2>1 DEF Spells
  <1>7. ASSUME NEW q \in Said(b)
        PROVE  all[n + q] = msgs[Rank(Said(all), n + q)]
    <2>1. Rank(Said(b), q) \in 1..Len(mb)
      BY <1>1, RankNumbers
    <2>2. all[n + q] = b[q] /\ b[q] = mb[Rank(Said(b), q)]
      BY <1>1, <1>2 DEF Spells
    <2>3. msgs[Len(ma) + Rank(Said(b), q)] = mb[Rank(Said(b), q)]
      BY <1>3, <2>1
    <2> QED
      BY <1>5, <2>2, <2>3
  <1>8. Spells(all, msgs)
    <2>1. \A p \in Said(all) : p \in Said(a) \/ \E q \in Said(b) : p = n + q
      BY <1>4 DEF Shifted
    <2>2. \A p \in Said(all) : all[p] = msgs[Rank(Said(all), p)]
      BY <1>6, <1>7, <2>1
    <2> QED
      BY <1>3, <1>5, <2>2 DEF Spells
  <1> QED
    BY <1>8 DEF all, msgs

(* A rendered message list spells it.                                      *)
LEMMA SpellsRender ==
    ASSUME NEW msgs \in Seq(Msgs)
    PROVE  Spells(render_messages(msgs), msgs)
  <1> DEFINE n == Len(msgs)
             ids == render_messages(msgs)
             f == [i \in 1..n |-> IF MaxTrim = 0 THEN 2 * i - 1 ELSE 2 * i]
  <1>1. /\ ids \in Seq(Tokens) /\ Len(ids) = 2 * n /\ n \in Nat
        /\ \A i \in 1..(2 * n) :
              ids[i] = IF (i % 2 = 1) <=> (MaxTrim = 0) THEN msgs[(i + 1) \div 2] ELSE Boundary
    BY RenderTokens
  <1>2. Boundary \in Stops /\ \A m \in Msgs : m \notin Stops
    BY SessionAssumption
  <1> HIDE DEF ids
  <1>3. ASSUME NEW i \in 1..n
        PROVE  f[i] \in 1..(2 * n) /\ ids[f[i]] = msgs[i]
    <2>1. CASE MaxTrim = 0
      <3>1. /\ 2 * i - 1 \in 1..(2 * n) /\ (2 * i - 1) % 2 = 1
            /\ ((2 * i - 1) + 1) \div 2 = i
        BY <1>1
      <3>2. f[i] = 2 * i - 1
        BY <2>1
      <3> QED
        BY <1>1, <2>1, <3>1, <3>2
    <2>2. CASE MaxTrim # 0
      <3>1. 2 * i \in 1..(2 * n) /\ (2 * i) % 2 = 0 /\ ((2 * i) + 1) \div 2 = i
        BY <1>1
      <3>2. f[i] = 2 * i
        BY <2>2
      <3> QED
        BY <1>1, <2>2, <3>1, <3>2
    <2> QED
      BY <2>1, <2>2
  <1>4. ASSUME NEW p \in 1..(2 * n), p \in Said(ids)
        PROVE  \E i \in 1..n : f[i] = p
    <2>1. (p % 2 = 1) <=> (MaxTrim = 0)
      BY <1>1, <1>2, <1>4 DEF Said
    <2>2. (p + 1) \div 2 \in 1..n
      BY <1>1
    <2>3. f[(p + 1) \div 2] = p
      <3>1. CASE MaxTrim = 0
        <4>1. f[(p + 1) \div 2] = 2 * ((p + 1) \div 2) - 1
          BY <2>2, <3>1
        <4> HIDE DEF f
        <4> QED
          BY <2>1, <3>1, <4>1
      <3>2. CASE MaxTrim # 0
        <4>1. f[(p + 1) \div 2] = 2 * ((p + 1) \div 2)
          BY <2>2, <3>2
        <4>2. p % 2 = 0
          BY <2>1, <3>2
        <4> HIDE DEF f
        <4> QED
          BY <4>1, <4>2
      <3> QED
        BY <3>1, <3>2
    <2> QED
      BY <2>2, <2>3
  <1>5. f \in [1..n -> Nat] /\ \A i, j \in 1..n : i < j => f[i] < f[j]
    BY <1>1
  <1> HIDE DEF f, n
  <1>6. Said(ids) = {f[i] : i \in 1..n}
    <2>1. \A i \in 1..n : msgs[i] \notin Stops
      BY <1>2 DEF n
    <2>2. \A i \in 1..n : f[i] \in Said(ids)
      BY <1>1, <1>3, <2>1 DEF Said
    <2>3. Said(ids) \subseteq 1..(2 * n)
      BY <1>1 DEF Said
    <2> QED
      BY <1>4, <2>2, <2>3
  <1>7. Cardinality(Said(ids)) = n /\ \A i \in 1..n : Rank(Said(ids), f[i]) = i
    BY <1>1, <1>5, <1>6, RankListed
  <1>8. Spells(ids, msgs)
    BY <1>3, <1>6, <1>7 DEF Spells, n
  <1> QED
    BY <1>8 DEF ids

(* An answer spells its assistant message after what the prompt spells.    *)
LEMMA SpellsReply ==
    ASSUME NEW prompt \in Seq(Tokens), NEW msgs \in Seq(Msgs), Spells(prompt, msgs),
           NEW reply \in Completions
    PROVE  Spells(prompt \o reply, Append(msgs, reply[1]))
  <1> DEFINE a == reply[1]
  <1>1. a \in Asst /\ reply \in Seq(Tokens) /\ a \in Msgs /\ a \notin Stops
    BY CompletionType, SessionAssumption DEF Msgs
  <1>2. \/ Len(reply) = 1
        \/ Len(reply) = 2 /\ reply[2] \in Stops
    BY SMT DEF Completions
  <1>3. Said(reply) = {1}
    BY <1>1, <1>2 DEF Said
  <1>4. Cardinality(Said(reply)) = 1
    BY <1>3, FS_Singleton
  <1>5. Rank(Said(reply), 1) = 1
    <2>1. {q \in Said(reply) : q <= 1} = Said(reply)
      BY <1>3
    <2> QED
      BY <1>4, <2>1 DEF Rank
  <1>6. <<a>> \in Seq(Msgs) /\ Len(<<a>>) = 1 /\ <<a>>[1] = a
    BY <1>1
  <1>7. Spells(reply, <<a>>)
    BY <1>3, <1>4, <1>5, <1>6 DEF Spells
  <1>8. Spells(prompt \o reply, msgs \o <<a>>)
    BY <1>1, <1>6, <1>7, SpellsConcat
  <1>9. msgs \o <<a>> = Append(msgs, a)
    BY <1>1
  <1> QED
    BY <1>8, <1>9

(* Merging the new messages into the tokens of the stored ones spells all  *)
(* of them: the token that may be trimmed says nothing.                    *)
LEMMA MergeSpells ==
    ASSUME NEW prefix \in Seq(Tokens), prefix # <<>>, NEW stored \in Seq(Msgs),
           NEW msgs \in Seq(Msgs), Spells(prefix, stored), IsExtension(stored, msgs)
    PROVE  Spells(merge_tokens(Len(stored), msgs, prefix), msgs)
  <1> DEFINE kept == IF MaxTrim = 1 /\ prefix[Len(prefix)] \in Stops
                     THEN SubSeq(prefix, 1, Len(prefix) - 1) ELSE prefix
             n == Len(stored)
             new == SubSeq(msgs, n + 1, Len(msgs))
             tail == render_messages(new)
  <1>1. Len(prefix) \in Nat \ {0}
    OBVIOUS
  <1>2. kept \in Seq(Tokens) /\ Spells(kept, stored)
    <2>1. CASE MaxTrim = 1 /\ prefix[Len(prefix)] \in Stops
      <3> DEFINE n1 == Len(prefix) - 1
      <3>1. n1 \in Nat /\ n1 <= Len(prefix) /\ \A p \in 1..Len(prefix) : p <= n1 \/ p = Len(prefix)
        BY <1>1
      <3>2. kept = SubSeq(prefix, 1, n1)
        BY <2>1
      <3>3. \A p \in 1..n1 : p \in 1..Len(prefix) /\ p # Len(prefix)
        BY <1>1
      <3> HIDE DEF n1, kept
      <3>4. /\ kept \in Seq(Tokens) /\ Len(kept) = n1
            /\ \A p \in 1..n1 : kept[p] = prefix[p]
        BY <3>1, <3>2
      <3>5. Said(kept) = Said(prefix)
        BY <2>1, <3>1, <3>3, <3>4 DEF Said
      <3>6. \A p \in Said(prefix) : prefix[p] = kept[p]
        BY <3>4, <3>5 DEF Said
      <3> QED
        BY <3>4, <3>5, <3>6, SpellsSame
    <2>2. CASE ~(MaxTrim = 1 /\ prefix[Len(prefix)] \in Stops)
      BY <2>2
    <2> QED
      BY <2>1, <2>2
  <1>3. n \in Nat /\ n <= Len(msgs) /\ \A i \in 1..n : stored[i] = msgs[i]
    BY DEF IsExtension, Agree
  <1>4. /\ new \in Seq(Msgs) /\ Len(new) = Len(msgs) - n
        /\ \A i \in 1..Len(new) : new[i] = msgs[n + i]
    BY <1>3
  <1>5. tail \in Seq(Tokens) /\ Spells(tail, new)
    BY <1>4, RenderType, SpellsRender
  <1>6. merge_tokens(n, msgs, prefix) = kept \o tail
    BY DEF merge_tokens
  <1>7. stored \o new = msgs
    <2> HIDE DEF new
    <2>1. stored \o new \in Seq(Msgs) /\ Len(stored \o new) = Len(msgs)
      BY <1>3, <1>4
    <2>2. \A i \in 1..Len(msgs) : (stored \o new)[i] = msgs[i]
      <3> SUFFICES ASSUME NEW i \in 1..Len(msgs)
                   PROVE  (stored \o new)[i] = msgs[i]
        OBVIOUS
      <3>1. CASE i <= n
        BY <1>3, <1>4, <3>1
      <3>2. CASE i > n
        <4>1. i - n \in 1..Len(new) /\ n + (i - n) = i
          BY <1>3, <1>4, <3>2
        <4>2. (stored \o new)[i] = new[i - n]
          BY <1>3, <1>4, <3>2
        <4> QED
          BY <1>4, <4>1, <4>2
      <3>3. n \in Nat /\ i \in Nat
        BY <1>3
      <3> HIDE DEF n
      <3>4. i <= n \/ i > n
        BY <3>3
      <3> QED
        BY <3>1, <3>2, <3>4
    <2> DEFINE both == stored \o new
    <2> HIDE DEF both
    <2>3. both \in Seq(Msgs) /\ Len(both) = Len(msgs) /\ \A i \in 1..Len(msgs) : both[i] = msgs[i]
      BY <2>1, <2>2 DEF both
    <2>4. both = msgs
      BY <2>3
    <2> QED
      BY <2>4 DEF both
  <1> HIDE DEF kept, tail, new
  <1> QED
    BY <1>2, <1>4, <1>5, <1>6, <1>7, SpellsConcat

(***************************************************************************)
(* What is stored is what was said.  The stored messages end with an       *)
(* answer and every checkpoint spells them up to its own answer; a request *)
(* in the backend carries a prompt that spells its messages.  An answer    *)
(* that passes the prefix check agrees with all that the last checkpoint   *)
(* says, so its messages go on from the stored ones, even when these are   *)
(* not the ones it was prepared on.                                        *)
(***************************************************************************)
EndsWithAnswer(t) == t.messages # <<>> => Len(t.messages) \in AsstPos(t.messages)

Told(t) ==
    \A p \in AsstPos(t.messages) :
        LET k == Rank(AsstPos(t.messages), p)
        IN  /\ k <= Len(t.trajectory_token_ids)
            /\ Spells(t.trajectory_token_ids[k], SubSeq(t.messages, 1, p))

\* What the trimming tokenizer drops is never a message.
Stopped(t) ==
    MaxTrim = 1 =>
        \A k \in 1..Len(t.trajectory_token_ids) :
            LET ids == t.trajectory_token_ids[k] IN ids # <<>> /\ ids[Len(ids)] \in Stops

Spelled(t) == EndsWithAnswer(t) /\ Told(t) /\ Stopped(t)

RequestsSpelled ==
    \A c \in Clients : InBackend(c) => Spells(req[c].prompt, req[c].messages)

SpellInv == (\A s \in Sessions : Spelled(traj[s])) /\ RequestsSpelled

(* A session with turns ends with an answer, and its last checkpoint       *)
(* spells all its messages.                                                *)
LEMMA LastSpells ==
    ASSUME NEW t \in Trajectory, Aligned(t), Spelled(t), t.trajectory_token_ids # <<>>
    PROVE  /\ token_ids(t) \in Seq(Tokens) /\ t.messages # <<>>
           /\ Spells(token_ids(t), t.messages)
  <1> DEFINE m == t.messages
             n == Len(t.trajectory_token_ids)
             S == AsstPos(m)
  <1>1. t.trajectory_token_ids \in Seq(Seq(Tokens)) /\ m \in Seq(Msgs)
    BY DEF Trajectory
  <1>2. n \in Nat \ {0} /\ n \in 1..n
    BY <1>1
  <1>3. token_ids(t) \in Seq(Tokens)
    BY <1>1, <1>2 DEF token_ids
  <1>4. Cardinality(S) = n
    BY DEF Aligned
  <1>5. m # <<>>
    <2>1. ASSUME m = <<>>
          PROVE  S = {}
      BY <2>1 DEF AsstPos
    <2> HIDE DEF m, n, S
    <2> QED
      BY <1>2, <1>4, <2>1, FS_EmptySet
  <1>6. Len(m) \in S
    BY <1>5 DEF Spelled, EndsWithAnswer
  <1>7. {q \in S : q <= Len(m)} = S
    BY <1>1 DEF AsstPos
  <1>8. Rank(S, Len(m)) = n
    BY <1>4, <1>7 DEF Rank
  <1>9. SubSeq(m, 1, Len(m)) = m
    BY <1>1
  <1> HIDE DEF S
  <1>10. Spells(t.trajectory_token_ids[n], m)
    BY <1>6, <1>8, <1>9 DEF Spelled, Told, S
  <1> QED
    BY <1>3, <1>5, <1>10 DEF token_ids

(* A request is prepared with a prompt that spells its messages.           *)
LEMMA PreparedSpelled ==
    ASSUME NEW t \in Trajectory, Aligned(t), Counted(t), Spelled(t), NEW h, PreparedOn(t, h)
    PROVE  Spells(h.prompt, h.messages)
  <1>1. h.messages \in Seq(Msgs)
    BY DEF PreparedOn
  <1>2. CASE h.prompt = render_messages(h.messages)
    BY <1>1, <1>2, SpellsRender
  <1>3. CASE /\ t.trajectory_token_ids # <<>> /\ IsExtension(t.messages, h.messages)
             /\ h.prompt = merge_tokens(Len(t.messages), h.messages, token_ids(t))
    <2>1. /\ token_ids(t) \in Seq(Tokens) /\ t.messages # <<>>
          /\ Spells(token_ids(t), t.messages)
      BY <1>3, LastSpells
    <2>2. t.messages \in Seq(Msgs)
      BY DEF Trajectory
    <2>3. token_ids(t) # <<>>
      <3>1. SUFFICES ASSUME token_ids(t) = <<>>
                     PROVE  FALSE
        OBVIOUS
      <3>2. Said(token_ids(t)) = {}
        BY <3>1 DEF Said
      <3> QED
        BY <2>1, <2>2, <3>2, FS_EmptySet DEF Spells
    <2> QED
      BY <1>1, <1>3, <2>1, <2>2, <2>3, MergeSpells
  <1> QED
    BY <1>2, <1>3 DEF PreparedOn

(* A rollback keeps the checkpoints of the messages it keeps.              *)
LEMMA SpelledRolledBack ==
    ASSUME NEW t \in Trajectory, NEW u, RolledBack(t, u), Aligned(u), Spelled(t)
    PROVE  Spelled(u)
  <1>1. PICK msgs \in Seq(Msgs), end \in 1..Len(t.messages) :
            IsRollbackEnd(t, msgs, end) /\ t.trajectory_token_ids # <<>> /\ u = Rollback(t, msgs, end)
    BY DEF RolledBack
  <1>2. /\ t.messages \in Seq(Msgs) /\ t.trajectory_token_ids \in Seq(Seq(Tokens))
        /\ u \in Trajectory /\ u.messages = SubSeq(t.messages, 1, end)
    BY <1>1, RollbackType DEF Trajectory
  <1>3. /\ Len(u.messages) = end /\ u.messages \in Seq(Msgs)
        /\ \A i \in 1..end : u.messages[i] = t.messages[i]
    BY <1>1, <1>2
  <1>4. /\ Len(u.trajectory_token_ids) \in Nat
        /\ Len(u.trajectory_token_ids) <= Len(t.trajectory_token_ids)
        /\ \A i \in 1..Len(u.trajectory_token_ids) :
                u.trajectory_token_ids[i] = t.trajectory_token_ids[i]
    <2>1. u.trajectory_token_ids \in Seq(Seq(Tokens))
      BY <1>2 DEF Trajectory
    <2>2. Len(u.trajectory_token_ids) \in Nat /\ Len(t.trajectory_token_ids) \in Nat
      BY <1>2, <2>1
    <2>3. checkpoint_count(t, msgs) \in Nat
      BY <1>1, RollbackType
    <2> QED
      BY <1>1, <2>2, <2>3, RollbackFields
  <1>5. EndsWithAnswer(u)
    BY <1>1, <1>3 DEF EndsWithAnswer, IsRollbackEnd, MatchedAsst, AsstPos
  <1>6. Told(u)
    <2> DEFINE S == AsstPos(t.messages)
               R == AsstPos(u.messages)
    <2>1. ASSUME NEW p \in R
          PROVE  /\ p \in S /\ p \in 1..end
                 /\ {q \in R : q <= p} = {q \in S : q <= p}
      BY <1>2, <1>3, <2>1 DEF AsstPos
    <2>2. ASSUME NEW p \in R
          PROVE  Rank(R, p) = Rank(S, p)
      BY <2>1, <2>2 DEF Rank
    <2>3. IsFiniteSet(R) /\ R \subseteq Nat /\ Cardinality(R) = Len(u.trajectory_token_ids)
      BY <1>3, AsstPosFinite DEF Aligned, AsstPos
    <2> HIDE DEF R, S
    <2>4. ASSUME NEW p \in R
          PROVE  Rank(R, p) \in 1..Len(u.trajectory_token_ids)
      BY <2>3, <2>4, RankNumbers
    <2>5. ASSUME NEW p \in R
          PROVE  SubSeq(u.messages, 1, p) = SubSeq(t.messages, 1, p)
      <3>1. p \in 1..end
        BY <2>1, <2>5
      <3> QED
        BY <1>1, <1>2, <1>3, <3>1
    <2>6. ASSUME NEW p \in R
          PROVE  /\ Rank(R, p) <= Len(u.trajectory_token_ids)
                 /\ Spells(u.trajectory_token_ids[Rank(R, p)], SubSeq(u.messages, 1, p))
      <3>1. Spells(t.trajectory_token_ids[Rank(S, p)], SubSeq(t.messages, 1, p))
        BY <2>1, <2>6 DEF Spelled, Told, S
      <3>2. u.trajectory_token_ids[Rank(R, p)] = t.trajectory_token_ids[Rank(S, p)]
        BY <1>4, <2>2, <2>4, <2>6
      <3>3. Rank(R, p) <= Len(u.trajectory_token_ids)
        BY <1>4, <2>4, <2>6
      <3>4. SubSeq(u.messages, 1, p) = SubSeq(t.messages, 1, p)
        BY <2>5, <2>6
      <3> QED
        BY <3>1, <3>2, <3>3, <3>4
    <2> QED
      BY <2>6 DEF Told, R
  <1>7. Stopped(u)
    <2>1. Len(t.trajectory_token_ids) \in Nat
      BY <1>2
    <2> QED
      BY <1>4, <2>1, SMTT(30) DEF Spelled, Stopped
  <1> QED
    BY <1>5, <1>6, <1>7 DEF Spelled

(* The answer that is committed goes on from the stored messages: as many  *)
(* turns were stored when it was prepared, and it agrees with every token  *)
(* the stored ones are spelled with.                                       *)
LEMMA CommitContinues ==
    ASSUME NEW t \in Trajectory, Aligned(t), Counted(t), Spelled(t),
           NEW msgs \in Seq(Msgs), NEW prompt \in Seq(Tokens), NEW reply \in Completions,
           Spells(prompt, msgs), Cardinality(AsstPos(msgs)) = t.num_assistant,
           ~PrefixMismatch(t, prompt \o reply)
    PROVE  /\ IsExtension(t.messages, msgs)
           /\ AsstPos(t.messages) = AsstPos(msgs)
  <1> DEFINE m == t.messages
             all == prompt \o reply
             new == Append(msgs, reply[1])
  <1>1. m \in Seq(Msgs) /\ Len(m) \in Nat /\ Len(msgs) \in Nat /\ t.num_assistant \in Nat
    BY DEF Trajectory
  <1>2. /\ IsFiniteSet(AsstPos(m)) /\ Cardinality(AsstPos(m)) = t.num_assistant
        /\ IsFiniteSet(AsstPos(msgs))
    BY <1>1, AsstPosFinite DEF Aligned
  <1>3. CASE t.num_assistant = 0
    <2>1. AsstPos(m) = {} /\ AsstPos(msgs) = {}
      BY <1>2, <1>3, FS_EmptySet
    <2>2. Len(m) = 0
      BY <1>1, <2>1 DEF Spelled, EndsWithAnswer
    <2> QED
      BY <1>1, <2>1, <2>2 DEF IsExtension, Agree
  <1>4. CASE t.num_assistant # 0
    <2> DEFINE last == token_ids(t)
               n == Len(last) - MaxTrim
    <2>1. t.trajectory_token_ids # <<>> /\ t.trajectory_token_ids \in Seq(Seq(Tokens))
      BY <1>1, <1>4 DEF Aligned, Trajectory
    <2>2. last \in Seq(Tokens) /\ Spells(last, m)
      BY <2>1, LastSpells
    <2>3. Len(t.trajectory_token_ids) \in 1..Len(t.trajectory_token_ids)
      BY <2>1
    <2>4. Cardinality(AsstPos(last)) # 0
      BY <1>4, <2>3 DEF Counted, Aligned, token_ids
    <2>5. last # <<>>
      <3>1. SUFFICES ASSUME last = <<>>
                     PROVE  FALSE
        OBVIOUS
      <3>2. AsstPos(last) = {}
        BY <3>1 DEF AsstPos
      <3> QED
        BY <2>4, <3>2, FS_EmptySet
    <2>6. MaxTrim = 1 => last[Len(last)] \in Stops
      BY <2>3 DEF Spelled, Stopped, token_ids
    <2>7. Len(last) \in Nat \ {0} /\ MaxTrim \in {0, 1}
      BY <2>2, <2>5, SessionAssumption
    <2>8. \A s \in Stops : s \notin Asst
      BY SessionAssumption DEF Msgs
    <2> HIDE DEF last
    <2>9. n \in Nat /\ n > 0 /\ n <= Len(last)
      <3>1. CASE MaxTrim = 0
        BY <2>7, <3>1
      <3>2. CASE MaxTrim = 1
        <4>1. ASSUME Len(last) = 1
              PROVE  FALSE
          <5>1. last[1] \notin Asst
            BY <2>6, <2>8, <3>2, <4>1
          <5>2. AsstPos(last) = {}
            BY <4>1, <5>1 DEF AsstPos
          <5> QED
            BY <2>4, <5>2, FS_EmptySet
        <4>2. Len(last) \in Nat /\ Len(last) # 0 /\ Len(last) # 1
          BY <2>7, <4>1
        <4>3. \A l \in Nat : l # 0 /\ l # 1 => l - 1 \in Nat /\ l - 1 > 0 /\ l - 1 <= l
          OBVIOUS
        <4> QED
          BY <3>2, <4>2, <4>3
      <3> QED
        BY <2>7, <3>1, <3>2
    <2>10. \A p \in Said(last) : p <= n
      BY <2>6, <2>7 DEF Said
    <2>11. n <= Len(all) /\ Agree(last, all, n)
      BY <2>1, <2>9 DEF PrefixMismatch, last
    <2>12. /\ all \in Seq(Tokens) /\ Spells(all, new)
      BY ReplyTokens, SpellsReply
    <2>13. reply[1] \in Asst /\ reply[1] \in Msgs
      BY CompletionType DEF Msgs
    <2>14. /\ new \in Seq(Msgs) /\ Len(new) = Len(msgs) + 1
           /\ \A i \in 1..Len(msgs) : new[i] = msgs[i]
      BY <2>13
    <2> HIDE DEF all, n, new
    <2>15. IsExtension(m, new)
      BY <1>1, <2>2, <2>9, <2>10, <2>11, <2>12, <2>14, SpellsExtends
    <2>16. Cardinality(AsstPos(new)) = t.num_assistant + 1
      BY <2>13, AsstPosAppend DEF new
    <2>17. Len(m) # Len(msgs) + 1
      <3>1. SUFFICES ASSUME Len(m) = Len(msgs) + 1
                     PROVE  FALSE
        OBVIOUS
      <3>2. AsstPos(m) = AsstPos(new)
        BY <2>14, <2>15, <3>1 DEF IsExtension, Agree, AsstPos
      <3> QED
        BY <1>1, <1>2, <2>16, <3>2
    <2>18. Len(m) <= Len(msgs) /\ \A i \in 1..Len(m) : m[i] = msgs[i]
      BY <1>1, <2>14, <2>15, <2>17 DEF IsExtension, Agree
    <2>19. AsstPos(m) \subseteq AsstPos(msgs)
      BY <1>1, <2>18 DEF AsstPos
    <2>20. AsstPos(m) = AsstPos(msgs)
      BY <1>2, <2>19, FS_Subset
    <2> QED
      BY <2>18, <2>20 DEF IsExtension, Agree
  <1> QED
    BY <1>3, <1>4

(* A commit adds a checkpoint that spells what it makes the messages, and  *)
(* leaves the others spelling what they did.                               *)
LEMMA SpelledCommitted ==
    ASSUME MaxTrim = 0 \/ ~Truncation, TypeInv, RequestsAligned, RequestsSpelled,
           NEW t \in Trajectory, NEW u, Committed(t, u), Aligned(t), Counted(t), Spelled(t)
    PROVE  Spelled(u) /\ IsExtension(t.messages, u.messages)
  <1>1. PICK c \in Clients, r \in Handler :
            /\ InBackend(c) /\ Answers(req[c], r)
            /\ t.num_assistant = r.expected /\ ~PrefixMismatch(t, r.prompt \o r.reply)
            /\ u = update_pretokenized_state(t, r)
    BY DEF Committed
  <1> DEFINE n == Len(t.trajectory_token_ids)
             ids == u.trajectory_token_ids
             all == r.prompt \o r.reply
             m == r.messages
             R == AsstPos(t.messages)
             S == AsstPos(u.messages)
  <1>2. /\ r.prompt \in Seq(Tokens) /\ r.reply \in Completions /\ m \in Seq(Msgs)
        /\ Spells(r.prompt, m) /\ Cardinality(AsstPos(m)) = t.num_assistant
    BY <1>1 DEF Answers, RequestsSpelled, RequestsAligned, InBackend, Handler
  <1>3. n \in Nat /\ n = t.num_assistant /\ Cardinality(R) = n /\ t.messages \in Seq(Msgs)
    BY DEF Aligned, Trajectory
  <1>4. /\ Len(ids) = n + 1 /\ ids[n + 1] = all
        /\ \A k \in 1..n : ids[k] = t.trajectory_token_ids[k]
        /\ u.messages = Append(m, r.reply[1])
    BY <1>1, <1>2, UpdateFields
  <1>5. r.reply[1] \in Asst /\ r.reply[1] \in Msgs
    BY <1>2, CompletionType DEF Msgs
  <1>6. /\ u.messages \in Seq(Msgs) /\ Len(u.messages) = Len(m) + 1 /\ Len(m) \in Nat
        /\ \A i \in 1..Len(m) : u.messages[i] = m[i]
        /\ u.messages[Len(m) + 1] = r.reply[1]
    BY <1>2, <1>4, <1>5
  <1>7. IsExtension(t.messages, m) /\ R = AsstPos(m)
    BY <1>1, <1>2, CommitContinues
  <1>8. Spells(all, u.messages)
    BY <1>2, <1>4, SpellsReply
  <1>9. Len(t.messages) \in Nat /\ Len(t.messages) <= Len(m)
        /\ \A i \in 1..Len(t.messages) : t.messages[i] = m[i]
    BY <1>3, <1>7 DEF IsExtension, Agree
  <1>10. IsExtension(t.messages, u.messages)
    BY <1>6, <1>9 DEF IsExtension, Agree
  <1>11. S = R \cup {Len(m) + 1} /\ \A p \in R : p \in 1..Len(t.messages)
    <2>1. S = AsstPos(m) \cup {Len(m) + 1}
      BY <1>5, <1>6 DEF AsstPos
    <2> QED
      BY <1>7, <2>1 DEF AsstPos
  <1>12. Cardinality(S) = n + 1
    BY <1>2, <1>3, <1>4, <1>5, AsstPosAppend
  <1> HIDE DEF n, ids, all, m, R, S
  <1>13. EndsWithAnswer(u)
    BY <1>6, <1>11 DEF EndsWithAnswer, S
  <1>14. IsFiniteSet(R) /\ R \subseteq Nat
    BY <1>3, AsstPosFinite DEF R, AsstPos
  <1>15. ASSUME NEW p \in S
         PROVE  /\ Rank(S, p) <= n + 1
                /\ Spells(ids[Rank(S, p)], SubSeq(u.messages, 1, p))
    <2>1. CASE p = Len(m) + 1
      <3>0. \A q \in S : q <= p
        <4>1. \A q \in R : q \in Nat /\ q <= Len(m) + 1
          BY <1>6, <1>9, <1>11
        <4>2. Len(m) + 1 <= Len(m) + 1
          BY <1>6
        <4> QED
          BY <1>11, <2>1, <4>1, <4>2
      <3>1. {q \in S : q <= p} = S
        BY <3>0
      <3>2. Rank(S, p) = n + 1
        BY <1>12, <3>1 DEF Rank
      <3>3. SubSeq(u.messages, 1, p) = u.messages
        BY <1>6, <2>1
      <3>4. Rank(S, p) <= n + 1
        BY <1>3, <3>2
      <3> QED
        BY <1>4, <1>8, <3>2, <3>3, <3>4
    <2>2. CASE p \in R
      <3>1. p \in 1..Len(t.messages)
        BY <1>11, <2>2
      <3>2. {q \in S : q <= p} = {q \in R : q <= p}
        BY <1>9, <1>11, <3>1
      <3>3. Rank(S, p) = Rank(R, p)
        BY <3>2 DEF Rank
      <3>4. Rank(R, p) \in 1..n
        BY <1>3, <1>14, <2>2, RankNumbers
      <3>5. SubSeq(u.messages, 1, p) = SubSeq(t.messages, 1, p)
        BY <1>3, <1>6, <1>9, <3>1
      <3>6. Spells(t.trajectory_token_ids[Rank(R, p)], SubSeq(t.messages, 1, p))
        BY <2>2 DEF Spelled, Told, R
      <3>7. Rank(R, p) <= n + 1
        BY <1>3, <3>4
      <3>8. ids[Rank(R, p)] = t.trajectory_token_ids[Rank(R, p)]
        BY <1>4, <3>4
      <3> QED
        BY <3>3, <3>5, <3>6, <3>7, <3>8
    <2> QED
      BY <1>11, <1>15, <2>1, <2>2
  <1>16. Told(u)
    BY <1>4, <1>15 DEF Told, S, ids
  <1>17. Stopped(u)
    <2> SUFFICES ASSUME MaxTrim = 1, NEW k \in 1..(n + 1)
                 PROVE  ids[k] # <<>> /\ ids[k][Len(ids[k])] \in Stops
      BY <1>4 DEF Stopped, ids
    <2>1. CASE k \in 1..n
      BY <1>4, <2>1 DEF Spelled, Stopped, n
    <2>2. CASE k = n + 1
      <3>1. Len(r.prompt) \in Nat /\ all \in Seq(Tokens)
        BY <1>2, ReplyTokens DEF all
      <3>2. ~Truncation
        BY SessionAssumption
      <3>3. Len(all) = Len(r.prompt) + 2 /\ all[Len(r.prompt) + 2] \in Stops
        BY <1>2, <3>2, ReplyTokens DEF all
      <3>4. all # <<>>
        BY <3>1, <3>3
      <3> QED
        BY <1>4, <2>2, <3>3, <3>4
    <2> QED
      BY <1>3, <2>1, <2>2
  <1> QED
    BY <1>10, <1>13, <1>16, <1>17 DEF Spelled

(* Every step keeps what is spelled, and what it commits goes on from what *)
(* is stored.                                                              *)
LEMMA SpellStep ==
    ASSUME FewShot = FALSE, MaxTrim = 0 \/ ~Truncation,
           TypeInv, TypeInv', AlignedInv, AlignedInv', ChainInv, ChainInv', SpellInv, [Next]_vars
    PROVE  /\ SpellInv'
           /\ \A s \in Sessions : traj'[s].num_assistant > traj[s].num_assistant =>
                  IsExtension(traj[s].messages, traj'[s].messages)
  <1>1. /\ \A s \in Sessions : TrajectoryEffect(traj[s], traj'[s])
        /\ RequestsEffect
    BY StepEffect
  <1>2. ASSUME NEW s \in Sessions
        PROVE  /\ Spelled(traj'[s])
               /\ traj'[s].num_assistant > traj[s].num_assistant =>
                      IsExtension(traj[s].messages, traj'[s].messages)
    <2> DEFINE t == traj[s]
               u == traj'[s]
    <2>1. /\ t \in Trajectory /\ Aligned(t) /\ Counted(t) /\ Spelled(t)
          /\ u \in Trajectory /\ Aligned(u)
      BY DEF TypeInv, TypeOK, AlignedInv, CheckpointsAligned, Aligned, ChainInv, SpellInv
    <2>2. t.num_assistant \in Nat /\ u.num_assistant \in Nat
      BY <2>1 DEF Trajectory
    <2> HIDE DEF t, u
    <2>3. CASE SameContent(t, u)
      <3>1. Spelled(u)
        BY <2>1, <2>3 DEF SameContent, Spelled, EndsWithAnswer, Told, Stopped
      <3>2. ~(u.num_assistant > t.num_assistant)
        BY <2>2, <2>3 DEF SameContent
      <3> QED
        BY <3>1, <3>2 DEF t, u
    <2>4. CASE u = LinearTrajectory
      <3>1. Spelled(u) /\ u.num_assistant = 0
        BY <2>4 DEF LinearTrajectory, Spelled, EndsWithAnswer, Told, Stopped, AsstPos
      <3>2. ~(u.num_assistant > t.num_assistant)
        BY <2>2, <3>1
      <3> QED
        BY <3>1, <3>2 DEF t, u
    <2>5. CASE RolledBack(t, u)
      <3>1. Spelled(u)
        BY <2>1, <2>5, SpelledRolledBack
      <3>2. PICK msgs \in Seq(Msgs), end \in 1..Len(t.messages) :
                IsRollbackEnd(t, msgs, end) /\ t.trajectory_token_ids # <<>> /\ u = Rollback(t, msgs, end)
        BY <2>5 DEF RolledBack
      <3>3. u.num_assistant <= Cardinality(AsstPos(t.messages))
        BY <2>1, <3>2, RollbackType
      <3>4. ~(u.num_assistant > t.num_assistant)
        BY <2>1, <2>2, <3>3 DEF Aligned
      <3> QED
        BY <3>1, <3>4 DEF t, u
    <2>6. CASE Committed(t, u)
      <3>1. Spelled(u) /\ IsExtension(t.messages, u.messages)
        BY <2>1, <2>6, SpelledCommitted DEF AlignedInv, SpellInv
      <3> QED
        BY <3>1 DEF t, u
    <2> QED
      BY <1>1, <2>3, <2>4, <2>5, <2>6 DEF TrajectoryEffect, t, u
  <1>3. ASSUME NEW c \in Clients, InBackend(c)'
        PROVE  Spells(req'[c].prompt, req'[c].messages)
    <2>1. CASE InBackend(c) /\ SameRequest(req[c], req'[c])
      BY <2>1 DEF SpellInv, RequestsSpelled, SameRequest
    <2>2. CASE req'[c].sid \in Sessions /\ PreparedOn(traj'[req'[c].sid], req'[c])
      <3>1. /\ traj'[req'[c].sid] \in Trajectory /\ Aligned(traj'[req'[c].sid])
            /\ Counted(traj'[req'[c].sid])
        BY <2>2 DEF TypeInv, TypeOK, AlignedInv, CheckpointsAligned, Aligned, ChainInv
      <3> QED
        BY <1>2, <2>2, <3>1, PreparedSpelled
    <2> QED
      BY <1>1, <1>3, <2>1, <2>2 DEF RequestsEffect
  <1> QED
    BY <1>2, <1>3 DEF SpellInv, RequestsSpelled

TokensInv == TypeInv /\ AlignedInv /\ ChainInv /\ SpellInv

(* The strengthening holds in every state.                                 *)
LEMMA TokensInvariant ==
    ASSUME FewShot = FALSE, MaxTrim = 0 \/ ~Truncation
    PROVE  /\ Init => TokensInv
           /\ TokensInv /\ [Next]_vars => TokensInv'
  <1>1. Init => ChainInv /\ SpellInv
    <2>1. /\ Counted(LinearTrajectory) /\ Chained(LinearTrajectory)
          /\ Spelled(LinearTrajectory)
      BY DEF LinearTrajectory, Counted, Chained, Spelled, EndsWithAnswer, Told, Stopped, AsstPos
    <2>2. Init => \A c \in Clients : ~InBackend(c)
      BY DEF Init, InBackend, Idle
    <2> QED
      BY <2>1, <2>2 DEF Init, ChainInv, RequestsCounted, SpellInv, RequestsSpelled
  <1>2. Init => TypeInv /\ AlignedInv
    BY TypeInit, AlignedInit
  <1>3. ASSUME TokensInv, [Next]_vars
        PROVE  TokensInv'
    <2>1. TypeInv' /\ AlignedInv'
      BY <1>3, TypeStep, AlignedStep DEF TokensInv
    <2>2. ChainInv'
      BY <1>3, <2>1, ChainStep DEF TokensInv
    <2>3. SpellInv'
      BY <1>3, <2>1, <2>2, SpellStep DEF TokensInv
    <2> QED
      BY <2>1, <2>2, <2>3 DEF TokensInv
  <1> QED
    BY <1>1, <1>2, <1>3 DEF TokensInv

(* What is trained on is what was said: every token checkpoint spells the  *)
(* stored messages up to its answer, after any commits, retries and        *)
(* rollbacks of concurrent requests.                                       *)
THEOREM TokensAreTheMessages ==
    ASSUME FewShot = FALSE, MaxTrim = 0 \/ ~Truncation
    PROVE  Spec => []TokensMatchMessages
  <1>1. TokensInv => TokensMatchMessages
    BY DEF TokensInv, SpellInv, Spelled, Told, TokensMatchMessages
  <1> QED
    BY <1>1, TokensInvariant, PTL DEF Spec

(* No commit replaces history: an answer is added to the messages that are *)
(* stored when it arrives, even if the session was rolled back and grew    *)
(* again while the backend worked.                                         *)
THEOREM CommitsExtend ==
    ASSUME FewShot = FALSE, MaxTrim = 0 \/ ~Truncation
    PROVE  Spec => CommitExtendsStored
  <1>1. ASSUME TokensInv, TokensInv', [Next]_vars
        PROVE  [\A s \in Sessions : traj'[s].num_assistant > traj[s].num_assistant =>
                    IsExtension(traj[s].messages, traj'[s].messages)]_vars
    BY <1>1, SpellStep DEF TokensInv
  <1> QED
    BY <1>1, TokensInvariant, PTL DEF Spec, CommitExtendsStored
(***************************************************************************)
(* Samples.                                                                *)
(***************************************************************************)
\* Samples of tokens of T.
SamplesOf(T) ==
    [tokens : Seq(T), response_length : Int, loss_mask : Seq({0, 1}), rollout_log_probs : Seq(T \cup {Filler}),
     rollout_routed_experts : Seq(T), status : {"PENDING", "COMPLETED", "TRUNCATED", "ABORTED"}]

\* What merge_samples does with the samples merged so far, if there are any, and the next.
MergeOn(acc, b) == IF acc # <<>> /\ Mergeable(acc[1], b) THEN <<_merge_sample_pair(acc[1], b)>> ELSE <<>>

\* f is what the first samples merge into.
Merging(f, samples) ==
    /\ f[1] = <<samples[1]>>
    /\ \A k \in 1..(Len(samples) - 1) : f[k + 1] = MergeOn(f[k], samples[k + 1])

(* Some token, as often as is said, is a sequence of that length.          *)
LEMMA TimesIs ==
    ASSUME NEW S, NEW x \in S, NEW n \in Nat
    PROVE  /\ Times(x, n) \in Seq(S) /\ Len(Times(x, n)) = n
           /\ \A i \in 1..n : Times(x, n)[i] = x
  <1> DEFINE f == [i \in 1..n |-> x]
  <1>1. f \in Seq(S) /\ DOMAIN f = 1..n
    OBVIOUS
  <1>2. Len(f) = n
    BY <1>1
  <1> QED
    BY <1>1, <1>2 DEF Times

(* Merged samples are samples.                                             *)
LEMMA MergedType ==
    ASSUME NEW T, NEW a \in SamplesOf(T), NEW b \in SamplesOf(T), Mergeable(a, b)
    PROVE  _merge_sample_pair(a, b) \in SamplesOf(T)
  <1>1. obs_len(a, b) \in Nat
    BY DEF Mergeable, obs_len, SamplesOf
  <1>2. Times(0, obs_len(a, b)) \in Seq({0, 1}) /\ Times(Filler, obs_len(a, b)) \in Seq(T \cup {Filler})
    BY <1>1, TimesIs
  <1>3. /\ a.loss_mask \o Times(0, obs_len(a, b)) \o b.loss_mask \in Seq({0, 1})
        /\ a.rollout_log_probs \o Times(Filler, obs_len(a, b)) \o b.rollout_log_probs \in Seq(T \cup {Filler})
    BY <1>2 DEF SamplesOf
  <1>4. a.response_length + obs_len(a, b) + b.response_length \in Int
    BY <1>1 DEF SamplesOf
  <1> QED
    BY <1>3, <1>4 DEF _merge_sample_pair, SamplesOf

(* The fold that merges takes one sample after the other.                  *)
LEMMA MergesExist ==
    ASSUME NEW T, NEW samples \in Seq(SamplesOf(T)), samples # <<>>
    PROVE  \E f : Merging(f, samples) /\ merge_samples(samples) = f[Len(samples)]
  <1> DEFINE rest == Tail(samples)
             n == Len(rest)
             V == {<<>>} \cup {<<w>> : w \in SamplesOf(T)}
             v == <<samples[1]>>
             h == [ib \in (1..n) \X V |-> MergeOn(ib[2], rest[ib[1]])]
             E(it) == it = [s \in SUBSET DOMAIN rest |->
                          IF s = {} THEN v
                          ELSE LET x == Max(s)
                               IN  IF it[s \ {x}] # <<>> /\ Mergeable(it[s \ {x}][1], rest[x])
                                   THEN <<_merge_sample_pair(it[s \ {x}][1], rest[x])>> ELSE <<>>]
             jt == CHOOSE it : E(it)
  <1>1. /\ n \in Nat /\ DOMAIN rest = 1..n /\ Len(samples) = n + 1
        /\ \A i \in 1..n : rest[i] = samples[i + 1] /\ rest[i] \in SamplesOf(T)
    OBVIOUS
  <1>2. v \in V
    OBVIOUS
  <1>3. ASSUME NEW acc \in V, NEW b \in SamplesOf(T) PROVE MergeOn(acc, b) \in V
    <2>1. CASE acc # <<>> /\ Mergeable(acc[1], b)
      <3>1. acc[1] \in SamplesOf(T)
        BY <2>1
      <3>2. _merge_sample_pair(acc[1], b) \in SamplesOf(T)
        BY <2>1, <3>1, MergedType
      <3> QED
        BY <2>1, <3>2 DEF MergeOn
    <2>2. CASE ~(acc # <<>> /\ Mergeable(acc[1], b))
      BY <2>2 DEF MergeOn
    <2> QED
      BY <2>1, <2>2
  <1>4. h \in [(1..n) \X V -> V]
    <2> HIDE DEF V, rest
    <2>1. \A i \in 1..n : rest[i] \in SamplesOf(T)
      BY <1>1
    <2> HIDE DEF n
    <2> QED
      BY <1>3, <2>1
  <1>5. PICK it : FoldsLeft(it, n, V, v, h)
    <2> HIDE DEF n, V, v, h
    <2> QED
      BY <1>1, <1>2, <1>4, FoldLeftExists
  <1>6. E(it)
    <2>1. ASSUME NEW s \in SUBSET (1..n), s # {}
          PROVE  it[s] = MergeOn(it[s \ {Max(s)}], rest[Max(s)])
      <3>1. Max(s) \in 1..n
        <4> HIDE DEF n, V, v, h
        <4>1. Max(s) \in s
          BY <1>1, <2>1, LargestIn
        <4> QED
          BY <4>1
      <3>2. it[s \ {Max(s)}] \in V
        BY <1>5 DEF FoldsLeft
      <3>3. it[s] = h[<<Max(s), it[s \ {Max(s)}]>>]
        BY <1>5, <2>1 DEF FoldsLeft
      <3> HIDE DEF V, n, rest
      <3> QED
        BY <3>1, <3>2, <3>3
    <2> HIDE DEF V, v, h
    <2>2. it = [s \in SUBSET DOMAIN rest |-> it[s]] /\ it[{}] = v
      BY <1>1, <1>5 DEF FoldsLeft
    <2> HIDE DEF n, rest
    <2> QED
      BY <1>1, <2>1, <2>2 DEF MergeOn
  <1>7. E(jt)
    BY <1>6
  <1>8. merge_samples(samples) = jt[DOMAIN rest]
    BY DEF merge_samples, FoldLeft, MapThenFoldSet
  <1> HIDE DEF jt
  <1> DEFINE f == [k \in 1..(n + 1) |-> jt[1..(k - 1)]]
  <1>9. f[1] = v /\ f[n + 1] = jt[DOMAIN rest]
    <2>1. 1..(1 - 1) = {} /\ 1 \in 1..(n + 1) /\ n + 1 \in 1..(n + 1) /\ (n + 1) - 1 = n
      BY <1>1
    <2>2. {} \in SUBSET DOMAIN rest
      OBVIOUS
    <2> HIDE DEF v, n, rest
    <2>3. jt[{}] = v
      BY <1>7, <2>2
    <2> QED
      BY <1>1, <2>1, <2>3
  <1>10. ASSUME NEW k \in 1..n PROVE f[k + 1] = MergeOn(f[k], samples[k + 1])
    <2> DEFINE i == k - 1
    <2>1. i \in Nat /\ k \in 1..(n + 1) /\ k + 1 \in 1..(n + 1) /\ k = i + 1 /\ (k + 1) - 1 = k
      BY <1>1
    <2>2. Max(1..k) = k /\ (1..k) \ {k} = 1..i /\ 1..k # {}
      <3> HIDE DEF i
      <3> QED
        BY <2>1, LastNumber
    <2>3. 1..k \in SUBSET DOMAIN rest
      BY <1>1
    <2>4. jt[1..k] = MergeOn(jt[(1..k) \ {k}], rest[k])
      <3> HIDE DEF v, n, rest
      <3> QED
        BY <1>7, <2>2, <2>3 DEF MergeOn
    <2>5. f[k + 1] = jt[1..k] /\ f[k] = jt[1..i]
      <3> HIDE DEF n
      <3> QED
        BY <2>1
    <2> QED
      BY <1>1, <2>2, <2>4, <2>5
  <1> HIDE DEF f, v
  <1>11. Merging(f, samples)
    <2>1. Len(samples) - 1 = n
      BY <1>1
    <2> QED
      BY <2>1, <1>9, <1>10 DEF Merging, v
  <1> QED
    BY <1>1, <1>8, <1>9, <1>11

\* What the samples of turns have in common with the tokens of their session: from
\* Asks[k] on what turn k answered is in them, with a mask of ones and its log-probs,
\* and each turn begins where the one before has ended.
TurnOf(x, ids, ask) ==
    /\ x.tokens = SubSeq(ids, 1, Len(x.tokens)) /\ Len(x.tokens) <= Len(ids)
    /\ ask < Len(x.tokens) /\ x.response_length = Len(x.tokens) - ask
    /\ Len(x.loss_mask) = x.response_length /\ Len(x.rollout_log_probs) = x.response_length
    /\ \A i \in 1..x.response_length : x.loss_mask[i] = 1 /\ x.rollout_log_probs[i] = ids[ask + i]

\* x has a row of routing for each token but the last, or none at all.
RowsOf(x, routed) == Len(x.rollout_routed_experts) = IF routed THEN Len(x.tokens) - 1 ELSE 0

InTurns(all, ids, asks, routed) ==
    /\ asks \in [DOMAIN all -> Nat]
    /\ \A k \in DOMAIN all : TurnOf(all[k], ids, asks[k])
    /\ Len(all[Len(all)].tokens) = Len(ids)
    /\ \A k \in 1..(Len(all) - 1) : Len(all[k].tokens) < asks[k + 1]
    /\ Len(all) > 1 => \A k \in DOMAIN all : RowsOf(all[k], routed)

\* The sample x has the first n tokens of the answer output to the prompt input.
Sampled(x, T, input, output, finish, n, routed) ==
    /\ x \in SamplesOf(T)
    /\ x.tokens = SubSeq(input \o output, 1, Len(input) + n) /\ Len(x.tokens) = Len(input) + n
    /\ x.response_length = n /\ Len(x.loss_mask) = n /\ Len(x.rollout_log_probs) = n
    /\ \A i \in 1..n : x.loss_mask[i] = 1 /\ x.rollout_log_probs[i] = output[i]
    /\ Len(x.rollout_routed_experts) = IF routed THEN Len(input) + n - 1 ELSE 0
    /\ x.status = IF finish = "stop" THEN "COMPLETED" ELSE "TRUNCATED"

(* A record's sample, of whose answer the last tokens are dropped.         *)
LEMMA RecordSample ==
    ASSUME NEW T, NEW input \in Seq(T), NEW output \in Seq(T), NEW finish \in {"stop", "length"},
           NEW trim \in 0..Len(output), Len(input) > 1, NEW routed \in BOOLEAN
    PROVE  Sampled(_compute_sample_from_openai_record(
                        [input_ids |-> input, output_ids |-> output, finish_reason |-> finish], trim, routed),
                   T, input, output, finish, Len(output) - trim, routed)
  <1> DEFINE record == [input_ids |-> input, output_ids |-> output, finish_reason |-> finish]
             x == _compute_sample_from_openai_record(record, trim, routed)
             said == input \o output
             ones == Times(1, Len(output))
             n == Len(output) - trim
             new == NewSample(input)
             answered == update_sample_from_response(new, output, finish, routed)
             rows == IF routed THEN Front(said) ELSE <<>>
  <1>1. n \in Nat /\ n <= Len(output) /\ Len(output) \in Nat /\ Len(input) \in Nat
    OBVIOUS
  <1>2. /\ ones \in Seq({0, 1}) /\ Len(ones) = Len(output) /\ \A i \in 1..Len(output) : ones[i] = 1
    BY <1>1, TimesIs
  <1>3. /\ answered.tokens = said
        /\ answered.response_length = 0 + Len(output)
        /\ answered.loss_mask = <<>> \o ones
        /\ answered.rollout_log_probs = <<>> \o output
        /\ answered.rollout_routed_experts = rows
        /\ answered.status = IF finish = "stop" THEN "COMPLETED" ELSE "TRUNCATED"
        /\ answered = [tokens |-> answered.tokens, response_length |-> answered.response_length,
                       loss_mask |-> answered.loss_mask, rollout_log_probs |-> answered.rollout_log_probs,
                       rollout_routed_experts |-> answered.rollout_routed_experts, status |-> answered.status]
    <2> DEFINE before == [tokens |-> said, response_length |-> 0 + Len(output), loss_mask |-> <<>> \o ones,
                          rollout_log_probs |-> <<>> \o output, rollout_routed_experts |-> rows,
                          status |-> "PENDING"]
               ended == IF finish = "stop" THEN "COMPLETED" ELSE "TRUNCATED"
    <2>1. /\ new.tokens = input /\ new.response_length = 0 /\ new.loss_mask = <<>>
          /\ new.rollout_log_probs = Unset /\ new.status = "PENDING"
      BY DEF NewSample
    <2> HIDE DEF new
    <2>2. answered = update_from_meta_info(before, finish)
      BY <2>1 DEF update_sample_from_response, get_rollout_topk_from_response
    <2>3. answered = [before EXCEPT !.status = ended]
      BY <2>2 DEF update_from_meta_info
    <2> HIDE DEF said, ones, answered
    <2> QED
      BY <2>3
  <1> HIDE DEF answered
  <1>4. x = strip_last_output_tokens(answered, trim)
    BY DEF _compute_sample_from_openai_record, answered
  <1>5. <<>> \o ones = ones /\ <<>> \o output = output
    BY <1>2
  <1>6. /\ said \in Seq(T) /\ Len(said) = Len(input) + Len(output)
        /\ Front(said) \in Seq(T) /\ Len(Front(said)) = Len(said) - 1 /\ Front(said) # <<>>
    <2>1. said \in Seq(T) /\ Len(said) = Len(input) + Len(output)
      OBVIOUS
    <2> HIDE DEF said
    <2>2. Front(said) \in Seq(T) /\ Len(Front(said)) = Len(said) - 1
      BY <1>1, <2>1 DEF Front
    <2>3. Len(Front(said)) # 0
      BY <1>1, <2>1, <2>2
    <2> QED
      BY <2>1, <2>2, <2>3
  <1> HIDE DEF said, ones, record, x
  <1>7. /\ x.tokens = DropLast(said, trim) /\ x.response_length = Len(output) - trim
        /\ x.loss_mask = DropLast(ones, trim) /\ x.rollout_log_probs = DropLast(output, trim)
        /\ x.rollout_routed_experts = (IF routed THEN DropLast(Front(said), trim) ELSE <<>>)
        /\ x.status = answered.status
        /\ x = [tokens |-> x.tokens, response_length |-> x.response_length,
                loss_mask |-> x.loss_mask, rollout_log_probs |-> x.rollout_log_probs,
                rollout_routed_experts |-> x.rollout_routed_experts, status |-> x.status]
    <2> DEFINE y == [tokens |-> DropLast(said, trim), response_length |-> Len(output) - trim,
                     loss_mask |-> DropLast(ones, trim), rollout_log_probs |-> DropLast(output, trim),
                     rollout_routed_experts |-> IF routed THEN DropLast(Front(said), trim) ELSE <<>>,
                     status |-> answered.status]
    <2>1. /\ answered.tokens = said /\ answered.response_length = Len(output) /\ answered.loss_mask = ones
          /\ answered.rollout_log_probs = output /\ answered.rollout_routed_experts = rows
      BY <1>1, <1>3, <1>5
    <2>2. x = [answered EXCEPT !.tokens = DropLast(@, trim), !.response_length = @ - trim,
                   !.rollout_log_probs = DropLast(@, trim), !.loss_mask = DropLast(@, trim),
                   !.rollout_routed_experts = IF routed THEN DropLast(@, trim) ELSE @]
      BY <1>4, <1>6, <2>1 DEF strip_last_output_tokens
    <2>3. x = y
      BY <1>3, <2>1, <2>2
    <2> QED
      BY <2>3
  <1>8. ASSUME NEW S, NEW s \in Seq(S), Len(s) >= trim
        PROVE  /\ DropLast(s, trim) \in Seq(S) /\ Len(DropLast(s, trim)) = Len(s) - trim
               /\ \A i \in 1..(Len(s) - trim) : DropLast(s, trim)[i] = s[i]
    BY <1>8 DEF DropLast
  <1>9. /\ x.tokens \in Seq(T) /\ Len(x.tokens) = Len(input) + n
        /\ x.loss_mask \in Seq({0, 1}) /\ Len(x.loss_mask) = n
        /\ x.rollout_log_probs \in Seq(T) /\ Len(x.rollout_log_probs) = n
        /\ x.rollout_routed_experts \in Seq(T)
        /\ Len(x.rollout_routed_experts) = IF routed THEN Len(input) + n - 1 ELSE 0
        /\ \A i \in 1..n : x.loss_mask[i] = ones[i] /\ x.rollout_log_probs[i] = output[i]
    <2>1. Len(said) >= trim /\ Len(ones) >= trim /\ Len(output) >= trim /\ Len(Front(said)) >= trim
      BY <1>1, <1>2, <1>6
    <2>2. x.tokens \in Seq(T) /\ Len(x.tokens) = Len(input) + n
      BY <1>1, <1>6, <1>7, <1>8, <2>1, SMTT(30)
    <2>3. x.loss_mask \in Seq({0, 1}) /\ Len(x.loss_mask) = n /\ \A i \in 1..n : x.loss_mask[i] = ones[i]
      BY <1>1, <1>2, <1>7, <1>8, <2>1
    <2>4. /\ x.rollout_log_probs \in Seq(T) /\ Len(x.rollout_log_probs) = n
          /\ \A i \in 1..n : x.rollout_log_probs[i] = output[i]
      BY <1>1, <1>7, <1>8, <2>1
    <2>5. /\ x.rollout_routed_experts \in Seq(T)
          /\ Len(x.rollout_routed_experts) = IF routed THEN Len(input) + n - 1 ELSE 0
      <3>1. /\ DropLast(Front(said), trim) \in Seq(T)
            /\ Len(DropLast(Front(said), trim)) = Len(Front(said)) - trim
        BY <1>6, <1>8, <2>1
      <3> QED
        BY <1>1, <1>6, <1>7, <3>1
    <2> QED
      BY <2>2, <2>3, <2>4, <2>5
  <1>10. x.tokens = SubSeq(said, 1, Len(input) + n)
    <2>1. Len(said) - trim = Len(input) + n
      BY <1>1, <1>6
    <2> QED
      BY <1>7, <2>1 DEF DropLast
  <1>11. x \in SamplesOf(T)
    <2>1. x.rollout_log_probs \in Seq(T \cup {Filler})
      BY <1>9
    <2>2. x.response_length \in Int
      BY <1>1, <1>7
    <2> HIDE DEF n
    <2> QED
      BY <1>3, <1>7, <1>9, <2>1, <2>2 DEF SamplesOf
  <1> HIDE DEF n
  <1>12. \A i \in 1..n : x.loss_mask[i] = 1 /\ x.rollout_log_probs[i] = output[i]
    BY <1>1, <1>2, <1>9
  <1> QED
    BY <1>3, <1>7, <1>9, <1>10, <1>11, <1>12 DEF x, record, said, n, Sampled

\* One of the first k turns answered with the token at p.
AnsweredAt(all, asks, k, p) == \E j \in 1..k : p \in (asks[j] + 1)..Len(all[j].tokens)

\* What the first k turns merge into.
MergedTurns(w, all, ids, asks, k) ==
    /\ w.tokens = all[k].tokens /\ w.status = all[k].status
    /\ w.rollout_routed_experts = all[k].rollout_routed_experts
    /\ w.response_length = Len(w.tokens) - asks[1] /\ w.response_length > 0
    /\ Len(w.loss_mask) = w.response_length /\ Len(w.rollout_log_probs) = w.response_length
    /\ \A i \in 1..w.response_length :
        /\ w.loss_mask[i] = 1 <=> AnsweredAt(all, asks, k, asks[1] + i)
        /\ w.loss_mask[i] = 1 => w.rollout_log_probs[i] = ids[asks[1] + i]
    /\ \A j \in 1..k : Len(all[j].tokens) <= Len(w.tokens)

\* all is s, t and u one after the other.
InThree(all, s, t, u) ==
    /\ Len(all) = Len(s) + Len(t) + Len(u)
    /\ \A i \in 1..Len(s) : all[i] = s[i]
    /\ \A i \in 1..Len(t) : all[Len(s) + i] = t[i]
    /\ \A i \in 1..Len(u) : all[Len(s) + Len(t) + i] = u[i]

(* Where three lists one after the other have their elements.              *)
LEMMA ThreeParts ==
    ASSUME NEW S, NEW s \in Seq(S), NEW t \in Seq(S), NEW u \in Seq(S)
    PROVE  InThree(s \o t \o u, s, t, u)
  <1> DEFINE st == s \o t
             all == st \o u
  <1>1. /\ st \in Seq(S) /\ Len(st) = Len(s) + Len(t)
        /\ \A i \in 1..Len(s) : st[i] = s[i]
        /\ \A i \in 1..Len(t) : st[Len(s) + i] = t[i]
    OBVIOUS
  <1> HIDE DEF st
  <1>2. /\ Len(all) = Len(st) + Len(u)
        /\ \A i \in 1..Len(st) : all[i] = st[i]
        /\ \A i \in 1..Len(u) : all[Len(st) + i] = u[i]
    <2>1. st \in Seq(S) /\ u \in Seq(S)
      BY <1>1
    <2> QED
      BY ONLY <2>1
  <1> HIDE DEF all
  <1>3. Len(s) \in Nat /\ Len(t) \in Nat
    OBVIOUS
  <1>4. \A i \in 1..Len(s) : i \in 1..Len(st)
    BY <1>1, <1>3
  <1>5. \A i \in 1..Len(t) : Len(s) + i \in 1..Len(st)
    BY <1>1, <1>3
  <1>6. InThree(all, s, t, u)
    BY <1>1, <1>2, <1>4, <1>5 DEF InThree
  <1> QED
    BY <1>6 DEF all, st

(* Merged with the next turn they are what the turns so far merge into:    *)
(* no assertion fails, and what is between them is not trained on.         *)
LEMMA NextTurnMerges ==
    ASSUME NEW T, NEW ids \in Seq(T), NEW all \in Seq(SamplesOf(T)), NEW asks, NEW routed \in BOOLEAN,
           InTurns(all, ids, asks, routed), NEW k \in 1..(Len(all) - 1), NEW w \in SamplesOf(T), MergedTurns(w, all, ids, asks, k),
           w.status = "COMPLETED"
    PROVE  /\ Mergeable(w, all[k + 1])
           /\ MergedTurns(_merge_sample_pair(w, all[k + 1]), all, ids, asks, k + 1)
  <1> DEFINE b == all[k + 1]
             L == Len(w.tokens)
             M == Len(b.tokens)
             first == asks[1]
             ask == asks[k + 1]
             obs == obs_len(w, b)
             u == _merge_sample_pair(w, b)
  <1>1. /\ Len(all) \in Nat /\ k \in DOMAIN all /\ k + 1 \in DOMAIN all /\ 1 \in DOMAIN all
        /\ all[k] \in SamplesOf(T) /\ b \in SamplesOf(T)
    OBVIOUS
  <1>2. first \in Nat /\ ask \in Nat
    BY <1>1 DEF InTurns
  <1>3. /\ b.tokens = SubSeq(ids, 1, M) /\ M <= Len(ids) /\ ask < M /\ b.response_length = M - ask
        /\ Len(b.loss_mask) = M - ask /\ Len(b.rollout_log_probs) = M - ask
        /\ \A i \in 1..(M - ask) : b.loss_mask[i] = 1 /\ b.rollout_log_probs[i] = ids[ask + i]
    BY <1>1 DEF InTurns, TurnOf
  <1>4. w.tokens = all[k].tokens /\ w.tokens = SubSeq(ids, 1, L) /\ L <= Len(ids)
    BY <1>1 DEF InTurns, TurnOf, MergedTurns
  <1>17. /\ Len(w.rollout_routed_experts) = IF routed THEN L - 1 ELSE 0
         /\ Len(b.rollout_routed_experts) = IF routed THEN M - 1 ELSE 0
    <2>1. Len(all) > 1
      BY <1>1
    <2> QED
      BY <1>1, <2>1 DEF InTurns, RowsOf, MergedTurns
  <1>5. L < ask
    BY <1>1, <1>4 DEF InTurns
  <1>6. L \in Nat /\ M \in Nat /\ Len(ids) \in Nat
    <2>1. w.tokens \in Seq(T) /\ b.tokens \in Seq(T)
      BY <1>1 DEF SamplesOf
    <2> QED
      BY <2>1
  <1>7. /\ w.response_length = L - first /\ L - first > 0
        /\ Len(w.loss_mask) = L - first /\ Len(w.rollout_log_probs) = L - first
        /\ \A i \in 1..(L - first) :
            /\ w.loss_mask[i] = 1 <=> AnsweredAt(all, asks, k, first + i)
            /\ w.loss_mask[i] = 1 => w.rollout_log_probs[i] = ids[first + i]
        /\ \A j \in 1..k : Len(all[j].tokens) <= L
    BY DEF MergedTurns
  <1> HIDE DEF L, M, first, ask, b, obs
  <1>8. obs = ask - L /\ obs \in Nat /\ obs > 0
    <2>1. obs = M - L - (M - ask)
      BY <1>3 DEF obs_len, L, M, obs
    <2> QED
      BY <1>2, <1>5, <1>6, <2>1
  <1>9. Mergeable(w, b)
    <2>5. /\ w.rollout_routed_experts \in Seq(T) /\ b.rollout_routed_experts \in Seq(T)
      BY <1>1 DEF SamplesOf, b
    <2>6. /\ w.rollout_routed_experts # <<>> => Len(w.rollout_routed_experts) = L - 1
          /\ b.rollout_routed_experts # <<>> => Len(b.rollout_routed_experts) = M - 1
      BY <1>17, <2>5
    <2>1. validate(w)
      BY <1>2, <1>4, <1>6, <1>7, <2>6 DEF validate, L
    <2>2. validate(b)
      BY <1>2, <1>3, <1>6, <2>6 DEF validate, M
    <2>3. IsPrefix(w.tokens, b.tokens)
      <3>1. L <= M
        BY <1>2, <1>3, <1>5, <1>6
      <3>2. SubSeq(SubSeq(ids, 1, M), 1, L) = SubSeq(ids, 1, L)
        BY <1>3, <1>4, <1>6, <3>1
      <3>3. SubSeq(w.tokens, 1, L) = w.tokens
        BY <1>6 DEF L, SamplesOf
      <3> QED
        BY <1>3, <1>4, <3>1, <3>2, <3>3 DEF IsPrefix, L, M
    <2>4. Len(w.rollout_routed_experts) <= Len(b.rollout_routed_experts)
      BY <1>2, <1>3, <1>5, <1>6, <1>17
    <2> QED
      BY <1>8, <2>1, <2>2, <2>3, <2>4 DEF Mergeable, obs
  <1>10. /\ u.tokens = b.tokens /\ u.response_length = w.response_length + obs + b.response_length
         /\ u.loss_mask = w.loss_mask \o Times(0, obs) \o b.loss_mask
         /\ u.rollout_log_probs = w.rollout_log_probs \o Times(Filler, obs) \o b.rollout_log_probs
         /\ u.rollout_routed_experts = b.rollout_routed_experts /\ u.status = b.status
    BY DEF _merge_sample_pair, obs
  <1> HIDE DEF u
  <1>11. u.response_length = M - first /\ M - first > 0
    <2>1. u.response_length = (L - first) + (ask - L) + (M - ask)
      BY <1>3, <1>7, <1>8, <1>10
    <2> QED
      BY <1>2, <1>3, <1>5, <1>6, <1>7, <2>1
  <1>12. /\ Len(u.loss_mask) = M - first
         /\ \A i \in 1..(L - first) : u.loss_mask[i] = w.loss_mask[i]
         /\ \A i \in 1..obs : u.loss_mask[(L - first) + i] = 0
         /\ \A i \in 1..(M - ask) : u.loss_mask[(L - first) + obs + i] = 1
    <2>1. /\ Times(0, obs) \in Seq({0, 1}) /\ Len(Times(0, obs)) = obs
          /\ \A i \in 1..obs : Times(0, obs)[i] = 0
      BY <1>8, TimesIs
    <2>2. w.loss_mask \in Seq({0, 1}) /\ b.loss_mask \in Seq({0, 1})
      BY <1>1 DEF SamplesOf, b
    <2> DEFINE S == {0, 1}
               zeros == Times(0, obs)
    <2> HIDE DEF S, zeros
    <2>3. /\ Len(u.loss_mask) = Len(w.loss_mask) + obs + Len(b.loss_mask)
          /\ \A i \in 1..Len(w.loss_mask) : u.loss_mask[i] = w.loss_mask[i]
          /\ \A i \in 1..obs : u.loss_mask[Len(w.loss_mask) + i] = zeros[i]
          /\ \A i \in 1..Len(b.loss_mask) : u.loss_mask[Len(w.loss_mask) + obs + i] = b.loss_mask[i]
      <3>1. /\ w.loss_mask \in Seq(S) /\ b.loss_mask \in Seq(S) /\ zeros \in Seq(S) /\ Len(zeros) = obs
            /\ u.loss_mask = w.loss_mask \o zeros \o b.loss_mask
        BY <1>10, <2>1, <2>2 DEF S, zeros
      <3> DEFINE s == w.loss_mask
                 t == b.loss_mask
                 x == u.loss_mask
      <3>2. s \in Seq(S) /\ t \in Seq(S) /\ x = s \o zeros \o t
        BY <3>1
      <3> HIDE DEF s, t, x
      <3>3. InThree(s \o zeros \o t, s, zeros, t)
        BY <3>1, <3>2, ThreeParts
      <3>4. InThree(x, s, zeros, t)
        BY <3>2, <3>3
      <3> QED
        BY <3>1, <3>4 DEF s, t, x, InThree
    <2>4. \A i \in 1..obs : zeros[i] = 0
      BY <2>1 DEF zeros
    <2>5. (L - first) + obs + (M - ask) = M - first
      BY <1>2, <1>6, <1>8
    <2>6. /\ Len(u.loss_mask) = (L - first) + obs + (M - ask)
          /\ \A i \in 1..(L - first) : u.loss_mask[i] = w.loss_mask[i]
          /\ \A i \in 1..obs : u.loss_mask[(L - first) + i] = zeros[i]
          /\ \A i \in 1..(M - ask) : u.loss_mask[(L - first) + obs + i] = b.loss_mask[i]
      <3>1. Len(w.loss_mask) = L - first /\ Len(b.loss_mask) = M - ask
        BY <1>3, <1>7
      <3> QED
        BY ONLY <2>3, <3>1
    <2>7. \A i \in 1..(M - ask) : b.loss_mask[i] = 1
      BY <1>3
    <2> QED
      BY ONLY <2>4, <2>5, <2>6, <2>7
  <1>13. /\ Len(u.rollout_log_probs) = M - first
         /\ \A i \in 1..(L - first) : u.rollout_log_probs[i] = w.rollout_log_probs[i]
         /\ \A i \in 1..(M - ask) : u.rollout_log_probs[(L - first) + obs + i] = ids[ask + i]
    <2>1. Times(Filler, obs) \in Seq(T \cup {Filler}) /\ Len(Times(Filler, obs)) = obs
      BY <1>8, TimesIs
    <2>2. w.rollout_log_probs \in Seq(T \cup {Filler}) /\ b.rollout_log_probs \in Seq(T \cup {Filler})
      BY <1>1 DEF SamplesOf, b
    <2> DEFINE S == T \cup {Filler}
               fill == Times(Filler, obs)
    <2> HIDE DEF S, fill
    <2>3. /\ Len(u.rollout_log_probs) = Len(w.rollout_log_probs) + obs + Len(b.rollout_log_probs)
          /\ \A i \in 1..Len(w.rollout_log_probs) : u.rollout_log_probs[i] = w.rollout_log_probs[i]
          /\ \A i \in 1..Len(b.rollout_log_probs) :
                u.rollout_log_probs[Len(w.rollout_log_probs) + obs + i] = b.rollout_log_probs[i]
      <3>1. /\ w.rollout_log_probs \in Seq(S) /\ b.rollout_log_probs \in Seq(S)
            /\ fill \in Seq(S) /\ Len(fill) = obs
            /\ u.rollout_log_probs = w.rollout_log_probs \o fill \o b.rollout_log_probs
        BY <1>10, <2>1, <2>2 DEF S, fill
      <3> DEFINE s == w.rollout_log_probs
                 t == b.rollout_log_probs
                 x == u.rollout_log_probs
      <3>2. s \in Seq(S) /\ t \in Seq(S) /\ x = s \o fill \o t
        BY <3>1
      <3> HIDE DEF s, t, x
      <3>3. InThree(s \o fill \o t, s, fill, t)
        BY <3>1, <3>2, ThreeParts
      <3>4. InThree(x, s, fill, t)
        BY <3>2, <3>3
      <3> QED
        BY <3>1, <3>4 DEF s, t, x, InThree
    <2>5. (L - first) + obs + (M - ask) = M - first
      BY <1>2, <1>6, <1>8
    <2> QED
      BY <1>3, <1>7, <2>3, <2>5
  <1>14. ASSUME NEW i \in 1..(M - first)
         PROVE  /\ u.loss_mask[i] = 1 <=> AnsweredAt(all, asks, k + 1, first + i)
                /\ u.loss_mask[i] = 1 => u.rollout_log_probs[i] = ids[first + i]
    <2> DEFINE p == first + i
    <2>0. p \in Nat /\ p <= M /\ i = p - first
      BY <1>2, <1>6
    <2>1. AnsweredAt(all, asks, k + 1, p) <=> AnsweredAt(all, asks, k, p) \/ p \in (ask + 1)..M
      <3>1. \A j \in 1..(k + 1) : j \in 1..k \/ j = k + 1
        OBVIOUS
      <3>2. k + 1 \in 1..(k + 1) /\ \A j \in 1..k : j \in 1..(k + 1)
        OBVIOUS
      <3> HIDE DEF p
      <3> QED
        BY <3>1, <3>2 DEF AnsweredAt, ask, M, b
    <2>2. AnsweredAt(all, asks, k, p) => p <= L
      <3>1. \A j \in 1..k : Len(all[j].tokens) \in Nat
        <4>1. \A j \in 1..k : j \in 1..Len(all)
          BY <1>1
        <4>2. \A j \in 1..Len(all) : all[j] \in SamplesOf(T)
          OBVIOUS
        <4>3. \A j \in 1..k : all[j].tokens \in Seq(T)
          BY <4>1, <4>2 DEF SamplesOf
        <4> QED
          BY <4>3
      <3>2. \A j \in 1..k : asks[j] \in Nat
        BY <1>1, SMTT(30) DEF InTurns
      <3> QED
        BY <1>6, <1>7, <2>0, <3>1, <3>2 DEF AnsweredAt
    <2> HIDE DEF p
    <2>3. CASE p <= L
      <3>1. i \in 1..(L - first) /\ ~(p \in (ask + 1)..M)
        BY <1>2, <1>5, <1>6, <2>0, <2>3
      <3>2. /\ w.loss_mask[i] = 1 <=> AnsweredAt(all, asks, k, first + i)
            /\ w.loss_mask[i] = 1 => w.rollout_log_probs[i] = ids[first + i]
        BY <1>7, <3>1
      <3>3. u.loss_mask[i] = w.loss_mask[i] /\ u.rollout_log_probs[i] = w.rollout_log_probs[i]
        BY <1>12, <1>13, <3>1
      <3> QED
        BY <2>1, <3>1, <3>2, <3>3 DEF p
    <2>4. CASE L < p /\ p <= ask
      <3> DEFINE j == p - L
      <3>1. j \in 1..obs /\ i = (L - first) + j /\ ~(p \in (ask + 1)..M) /\ ~(p <= L)
        BY <1>2, <1>5, <1>6, <1>8, <2>0, <2>4
      <3> HIDE DEF j
      <3>2. u.loss_mask[i] = 0
        BY <1>12, <3>1
      <3> QED
        BY <2>1, <2>2, <3>1, <3>2 DEF p
    <2>5. CASE ask < p
      <3> DEFINE j == p - ask
      <3>1. j \in 1..(M - ask) /\ i = (L - first) + obs + j /\ p \in (ask + 1)..M /\ ask + j = p
        BY <1>2, <1>5, <1>6, <1>8, <2>0, <2>5
      <3> HIDE DEF j
      <3>2. u.loss_mask[i] = 1 /\ u.rollout_log_probs[i] = ids[ask + j]
        BY <1>12, <1>13, <3>1
      <3> QED
        BY <2>1, <3>1, <3>2 DEF p
    <2> QED
      BY <1>2, <1>6, <2>0, <2>3, <2>4, <2>5
  <1>15. \A j \in 1..(k + 1) : Len(all[j].tokens) <= M
    <2>1. L <= M
      BY <1>2, <1>3, <1>5, <1>6
    <2>2. \A j \in 1..k : Len(all[j].tokens) <= M
      <3>1. \A j \in 1..k : Len(all[j].tokens) \in Nat
        <4>1. \A j \in 1..k : j \in 1..Len(all)
          BY <1>1
        <4>2. \A j \in 1..Len(all) : all[j] \in SamplesOf(T)
          OBVIOUS
        <4>3. \A j \in 1..k : all[j].tokens \in Seq(T)
          BY <4>1, <4>2 DEF SamplesOf
        <4> QED
          BY <4>3
      <3> QED
        BY <1>6, <1>7, <2>1, <3>1
    <2>3. \A j \in 1..(k + 1) : j \in 1..k \/ j = k + 1
      OBVIOUS
    <2> QED
      BY <1>6, <2>2, <2>3 DEF M, b
  <1>16. MergedTurns(u, all, ids, asks, k + 1)
    BY <1>10, <1>11, <1>12, <1>13, <1>14, <1>15 DEF MergedTurns, b, M, first
  <1> QED
    BY <1>9, <1>16 DEF b, u

(* What turns merge into: the tokens of the session, with a mask of one    *)
(* where a turn answered, and there its log-probs.                         *)
LEMMA TurnsMergeInto ==
    ASSUME NEW T, NEW ids \in Seq(T), NEW all \in Seq(SamplesOf(T)), all # <<>>, NEW asks,
           NEW routed \in BOOLEAN, InTurns(all, ids, asks, routed), OnlyLastIsCut(all)
    PROVE  \E w \in SamplesOf(T) :
                merge_samples(all) = <<w>> /\ w.tokens = ids /\ MergedTurns(w, all, ids, asks, Len(all))
  <1> DEFINE n == Len(all)
  <1>1. n \in Nat /\ n > 0 /\ 1 \in DOMAIN all /\ n \in DOMAIN all /\ all[1] \in SamplesOf(T)
    OBVIOUS
  <1>2. PICK f : Merging(f, all) /\ merge_samples(all) = f[n]
    BY MergesExist
  <1> DEFINE Q(k) == \E w \in SamplesOf(T) : f[k] = <<w>> /\ MergedTurns(w, all, ids, asks, k)
             P == {k \in Nat : k + 1 <= n => Q(k + 1)}
  <1>3. 0 \in P
    <2> DEFINE w == all[1]
    <2>1. /\ asks[1] < Len(w.tokens) /\ w.response_length = Len(w.tokens) - asks[1]
          /\ Len(w.loss_mask) = w.response_length /\ Len(w.rollout_log_probs) = w.response_length
          /\ \A i \in 1..w.response_length : w.loss_mask[i] = 1 /\ w.rollout_log_probs[i] = ids[asks[1] + i]
      BY <1>1 DEF InTurns, TurnOf
    <2>2. asks[1] \in Nat /\ w.tokens \in Seq(T)
      BY <1>1 DEF InTurns, SamplesOf
    <2>3. Len(w.tokens) \in Nat
      BY <2>2
    <2>4. ASSUME NEW i \in 1..w.response_length PROVE AnsweredAt(all, asks, 1, asks[1] + i)
      <3>1. asks[1] + i \in (asks[1] + 1)..Len(w.tokens) /\ 1 \in 1..1
        BY <2>1, <2>2, <2>3
      <3> QED
        BY <3>1 DEF AnsweredAt
    <2>5. \A j \in 1..1 : Len(all[j].tokens) <= Len(w.tokens)
      BY <2>3
    <2>6. w.response_length > 0
      BY <2>1, <2>2, <2>3
    <2> HIDE DEF w
    <2>7. MergedTurns(w, all, ids, asks, 1)
      BY <2>1, <2>4, <2>5, <2>6 DEF MergedTurns, w
    <2>8. f[1] = <<w>>
      BY <1>2 DEF Merging, w
    <2>9. Q(1)
      BY <1>1, <2>7, <2>8 DEF w
    <2> HIDE DEF Q
    <2> QED
      BY <2>9
  <1>4. ASSUME NEW k \in P PROVE k + 1 \in P
    <2> SUFFICES ASSUME (k + 1) + 1 <= n PROVE Q((k + 1) + 1)
      OBVIOUS
    <2>1. k \in Nat /\ k + 1 \in 1..(n - 1)
      BY <1>1
    <2>2. Q(k + 1)
      BY <1>1, <2>1
    <2>3. PICK w \in SamplesOf(T) : f[k + 1] = <<w>> /\ MergedTurns(w, all, ids, asks, k + 1)
      BY <2>2
    <2>4. w.status = "COMPLETED"
      BY <2>1, <2>3 DEF MergedTurns, OnlyLastIsCut
    <2> DEFINE u == _merge_sample_pair(w, all[(k + 1) + 1])
    <2>5. Mergeable(w, all[(k + 1) + 1]) /\ MergedTurns(u, all, ids, asks, (k + 1) + 1)
      BY <2>1, <2>3, <2>4, NextTurnMerges
    <2>6. (k + 1) + 1 \in DOMAIN all /\ all[(k + 1) + 1] \in SamplesOf(T)
      BY <1>1, <2>1
    <2>7. u \in SamplesOf(T)
      BY <2>5, <2>6, MergedType
    <2>8. f[(k + 1) + 1] = <<u>>
      <3>1. f[(k + 1) + 1] = MergeOn(<<w>>, all[(k + 1) + 1])
        BY <1>2, <2>1, <2>3 DEF Merging
      <3>2. <<w>> # <<>> /\ <<w>>[1] = w
        OBVIOUS
      <3> QED
        BY <2>5, <3>1, <3>2 DEF MergeOn
    <2> HIDE DEF u
    <2> QED
      BY <2>5, <2>7, <2>8
  <1>5. P = Nat
    <2>1. P \in SUBSET Nat
      OBVIOUS
    <2> HIDE DEF P
    <2> QED
      BY <1>3, <1>4, <2>1, Induction
  <1>6. Q(n)
    <2>1. n - 1 \in Nat /\ (n - 1) + 1 = n
      BY <1>1
    <2>2. n - 1 \in P
      BY <1>5, <2>1
    <2> HIDE DEF Q, n
    <2> QED
      BY <2>1, <2>2
  <1>7. PICK w \in SamplesOf(T) : f[n] = <<w>> /\ MergedTurns(w, all, ids, asks, n)
    BY <1>6
  <1>8. w.tokens = ids
    <2>1. w.tokens = all[n].tokens
      BY <1>7 DEF MergedTurns
    <2>2. all[n].tokens = SubSeq(ids, 1, Len(all[n].tokens)) /\ Len(all[n].tokens) = Len(ids)
      BY <1>1 DEF InTurns, TurnOf
    <2>3. SubSeq(ids, 1, Len(ids)) = ids
      OBVIOUS
    <2> QED
      BY <2>1, <2>2, <2>3
  <1> QED
    BY <1>2, <1>7, <1>8

(* What does not merge with the next sample ends the merging: nothing is   *)
(* left.                                                                   *)
LEMMA MergeStops ==
    ASSUME NEW T, NEW samples \in Seq(SamplesOf(T)), NEW k \in 1..(Len(samples) - 1),
           samples[k].status # "COMPLETED" \/ ~validate(samples[k + 1])
    PROVE  merge_samples(samples) = <<>>
  <1> DEFINE n == Len(samples)
             EndsAs(x, j) == x = <<>> \/ \E w : x = <<w>> /\ w.status = samples[j].status
  <1>1. n \in Nat /\ k \in 1..(n - 1) /\ k \in Nat /\ samples # <<>>
    OBVIOUS
  <1>2. PICK f : Merging(f, samples) /\ merge_samples(samples) = f[n]
    BY <1>1, MergesExist
  <1>3. f[1] = <<samples[1]>> /\ \A j \in 1..(n - 1) : f[j + 1] = MergeOn(f[j], samples[j + 1])
    BY <1>2 DEF Merging
  <1> HIDE DEF n
  <1> DEFINE P == {j \in Nat : j + 1 <= n => EndsAs(f[j + 1], j + 1)}
             R == {j \in Nat : (k + 1) + j <= n => f[(k + 1) + j] = <<>>}
  <1>4. EndsAs(f[0 + 1], 0 + 1)
    BY <1>3
  <1>5. ASSUME NEW j \in 1..(n - 1), EndsAs(f[j], j)
        PROVE  EndsAs(f[j + 1], j + 1)
    <2>1. f[j + 1] = MergeOn(f[j], samples[j + 1])
      BY <1>3
    <2>2. _merge_sample_pair(f[j][1], samples[j + 1]).status = samples[j + 1].status
      BY DEF _merge_sample_pair
    <2> QED
      BY <2>1, <2>2 DEF MergeOn
  <1> HIDE DEF EndsAs
  <1>6. P = Nat
    <2>1. 0 \in P
      BY <1>4
    <2>2. ASSUME NEW j \in P PROVE j + 1 \in P
      <3>1. CASE (j + 1) + 1 <= n
        <4>1. j + 1 \in 1..(n - 1) /\ j + 1 <= n
          BY <1>1, <3>1
        <4>2. EndsAs(f[(j + 1) + 1], (j + 1) + 1)
          BY <1>5, <4>1
        <4> QED
          BY <4>2
      <3> QED
        BY <3>1
    <2>3. P \in SUBSET Nat
      OBVIOUS
    <2> HIDE DEF P
    <2> QED
      BY <2>1, <2>2, <2>3, Induction
  <1>7. EndsAs(f[k], k)
    <2>1. k - 1 \in Nat /\ (k - 1) + 1 = k /\ k <= n
      BY <1>1
    <2>2. k - 1 \in P
      BY <1>6, <2>1
    <2>3. (k - 1) + 1 <= n => EndsAs(f[(k - 1) + 1], (k - 1) + 1)
      BY <2>2
    <2> QED
      BY <2>1, <2>3
  <1>8. f[k + 1] = <<>>
    <2>1. f[k + 1] = MergeOn(f[k], samples[k + 1])
      BY <1>1, <1>3
    <2>2. ~(f[k] # <<>> /\ Mergeable(f[k][1], samples[k + 1]))
      BY <1>7 DEF EndsAs, Mergeable
    <2> QED
      BY <2>1, <2>2 DEF MergeOn
  <1>9. R = Nat
    <2>1. 0 \in R
      BY <1>1, <1>8
    <2>2. ASSUME NEW j \in R PROVE j + 1 \in R
      <3>1. CASE (k + 1) + (j + 1) <= n
        <4>1. /\ (k + 1) + j \in 1..(n - 1) /\ (k + 1) + j <= n
              /\ ((k + 1) + j) + 1 = (k + 1) + (j + 1)
          BY <1>1, <3>1
        <4>2. f[(k + 1) + j] = <<>>
          BY <4>1
        <4>3. f[((k + 1) + j) + 1] = MergeOn(<<>>, samples[((k + 1) + j) + 1])
          BY <1>3, <4>1, <4>2
        <4> QED
          BY <4>1, <4>3 DEF MergeOn
      <3> QED
        BY <3>1
    <2>3. R \in SUBSET Nat
      OBVIOUS
    <2> HIDE DEF R
    <2> QED
      BY <2>1, <2>2, <2>3, Induction
  <1>10. f[n] = <<>>
    <2> DEFINE d == n - (k + 1)
    <2>1. d \in Nat /\ (k + 1) + d = n /\ n <= n
      BY <1>1
    <2> HIDE DEF d
    <2>2. d \in R
      BY <1>9, <2>1
    <2>3. (k + 1) + d <= n => f[(k + 1) + d] = <<>>
      BY <2>2
    <2> QED
      BY <2>1, <2>3
  <1> QED
    BY <1>2, <1>10

\* A turn answered with the token at p exactly if an assistant said it, or may have.
AnswerSaid(all, ids, asks) ==
    /\ \A p \in Nat : AnsweredAt(all, asks, Len(all), p) => SaidAt(ids, p)
    /\ \A p \in 1..Len(ids) : ids[p] \in Asst => AnsweredAt(all, asks, Len(all), p)

(* Turns of which only the last may be truncated merge into their session, *)
(* of which what was said is trained on.                                   *)
LEMMA TurnsTrain ==
    ASSUME NEW T, NEW ids \in Seq(T), NEW all \in Seq(SamplesOf(T)), all # <<>>, NEW asks,
           NEW routed \in BOOLEAN, InTurns(all, ids, asks, routed), OnlyLastIsCut(all), AnswerSaid(all, ids, asks)
    PROVE  merge_samples(all) # <<>> /\ TrainsOnSaid(merge_samples(all)[1], ids)
  <1> DEFINE n == Len(all)
  <1>1. PICK w \in SamplesOf(T) :
              merge_samples(all) = <<w>> /\ w.tokens = ids /\ MergedTurns(w, all, ids, asks, n)
    BY TurnsMergeInto
  <1> DEFINE ask == asks[1]
             r == w.response_length
             L == Len(ids)
  <1>2. ask \in Nat /\ L \in Nat /\ w.loss_mask \in Seq({0, 1})
    <2>1. 1 \in DOMAIN all
      OBVIOUS
    <2>2. asks \in [DOMAIN all -> Nat]
      BY DEF InTurns
    <2>3. ask \in Nat
      BY <2>1, <2>2
    <2>4. L \in Nat
      OBVIOUS
    <2>5. w.loss_mask \in Seq({0, 1})
      BY <1>1 DEF SamplesOf
    <2> QED
      BY <2>3, <2>4, <2>5
  <1>3. /\ r = L - ask /\ Len(w.loss_mask) = r
        /\ \A i \in 1..r : /\ w.loss_mask[i] = 1 <=> AnsweredAt(all, asks, n, ask + i)
                           /\ w.loss_mask[i] = 1 => w.rollout_log_probs[i] = ids[ask + i]
    BY <1>1 DEF MergedTurns
  <1>4. Len(w.tokens) - w.response_length = ask
    BY <1>1, <1>2, <1>3
  <1>5. DOMAIN w.loss_mask = 1..r
    BY <1>2, <1>3
  <1> HIDE DEF ask, r, L
  <1>6. ASSUME NEW i \in 1..r
        PROVE  /\ w.loss_mask[i] = 1 => SaidAt(ids, ask + i) /\ w.rollout_log_probs[i] = ids[ask + i]
               /\ ids[ask + i] \in Asst => w.loss_mask[i] = 1
    <2>1. ask + i \in Nat /\ ask + i \in 1..L
      BY <1>2, <1>3
    <2> QED
      BY <1>3, <2>1 DEF L, AnswerSaid
  <1> HIDE DEF n
  <1>7. TrainsOnSaid(w, ids)
    BY <1>1, <1>4, <1>5, <1>6 DEF TrainsOnSaid
  <1> QED
    BY <1>1, <1>7

(* Turns merge exactly if none but the last is truncated.                  *)
LEMMA TurnsMerge ==
    ASSUME NEW T, NEW ids \in Seq(T), NEW all \in Seq(SamplesOf(T)), all # <<>>, NEW asks,
           NEW routed \in BOOLEAN, InTurns(all, ids, asks, routed), AnswerSaid(all, ids, asks)
    PROVE  LET whole == merge_samples(all)
           IN  /\ whole # <<>> <=> OnlyLastIsCut(all)
               /\ whole # <<>> => TrainsOnSaid(whole[1], ids)
  <1>1. CASE OnlyLastIsCut(all)
    BY <1>1, TurnsTrain
  <1>2. CASE ~OnlyLastIsCut(all)
    <2>1. PICK k \in 1..(Len(all) - 1) : all[k].status # "COMPLETED"
      BY <1>2 DEF OnlyLastIsCut
    <2>2. merge_samples(all) = <<>>
      BY <2>1, MergeStops
    <2> QED
      BY <1>2, <2>2
  <1> QED
    BY <1>1, <1>2

\* What is left of turns that are cut at a length.
CutAt(all, ids, max_seq_len) ==
    LET samples == truncate_samples_by_total_tokens(all, max_seq_len)
        last == samples[Len(samples)]
    IN  samples # <<>> =>
            /\ \A i \in DOMAIN samples : Len(samples[i].tokens) <= max_seq_len
            /\ \A i \in 1..(Len(samples) - 1) : samples[i] = all[i]
            /\ IsPrefix(last.tokens, ids) /\ last.response_length > 0
            /\ Len(last.tokens) < max_seq_len => last = all[Len(samples)]

\* They are turns of the same session; of the last the rows of routing are not cut.
CutTurns(samples, T, all, ids, asks) ==
    LET k == Len(samples)
    IN  samples # <<>> =>
            /\ samples \in Seq(SamplesOf(T)) /\ k <= Len(all)
            /\ \A i \in 1..k : TurnOf(samples[i], ids, asks[i])
            /\ \/ samples[k] = all[k]
               \/ /\ Len(samples[k].tokens) < Len(all[k].tokens)
                  /\ samples[k].rollout_routed_experts = all[k].rollout_routed_experts

(* Cut at any length turns are the beginning of their session, as long as  *)
(* the length allows.                                                      *)
LEMMA TurnsCut ==
    ASSUME NEW T, NEW ids \in Seq(T), NEW all \in Seq(SamplesOf(T)), all # <<>>, NEW asks,
           NEW routed \in BOOLEAN, InTurns(all, ids, asks, routed), NEW m \in 1..(Len(ids) - 1)
    PROVE  CutAt(all, ids, m) /\ CutTurns(truncate_samples_by_total_tokens(all, m), T, all, ids, asks)
  <1> DEFINE n == Len(all)
             long == {i \in DOMAIN all : Len(all[i].tokens) > m}
             first == Min(long)
             L == Len(all[first].tokens)
             samples == truncate_samples_by_total_tokens(all, m)
             allowed == all[first].response_length - (L - m)
             cut == SubSeq(all, 1, first - 1)
             short == _truncate_sample_output(all[first], allowed)
  <1>1. n \in Nat /\ n > 0 /\ n \in DOMAIN all /\ DOMAIN all = 1..n /\ Len(ids) \in Nat /\ m \in Nat /\ m < Len(ids)
    OBVIOUS
  <1>2. first \in long /\ \A i \in long : first <= i
    <2>1. n \in long
      BY <1>1 DEF InTurns
    <2>2. long \in SUBSET Nat /\ long # {}
      BY <1>1, <2>1
    <2> HIDE DEF long
    <2>3. \E x \in long : \A y \in long : x <= y
      BY <2>2, LeastNumber
    <2> QED
      BY <2>3 DEF Min
  <1>3. first \in 1..n /\ L > m
    BY <1>1, <1>2
  <1>4. /\ all[first] \in SamplesOf(T) /\ all[first].tokens \in Seq(T) /\ L \in Nat
        /\ all[first].tokens = SubSeq(ids, 1, L) /\ L <= Len(ids)
        /\ asks[first] \in Nat /\ asks[first] < L /\ all[first].response_length = L - asks[first]
    <2>1. all[first] \in SamplesOf(T)
      BY <1>1, <1>3
    <2>2. all[first].tokens \in Seq(T)
      BY <2>1 DEF SamplesOf
    <2>3. L \in Nat
      BY <2>2
    <2> QED
      BY <1>1, <1>3, <2>1, <2>2, <2>3 DEF InTurns, TurnOf
  <1>5. samples = IF allowed <= 0 THEN cut ELSE Append(cut, short)
    <2>1. long # {}
      BY <1>2
    <2>2. allowed \in Int
      <3> DEFINE x == all[first].response_length
                 a == asks[first]
      <3>1. m \in Nat /\ L \in Nat /\ a \in Nat /\ x = L - a
        BY <1>1, <1>4, Zenon
      <3> HIDE DEF x, a, L
      <3>2. x - (L - m) \in Int
        BY ONLY <3>1
      <3> QED
        BY <3>2, Zenon DEF x
    <2> HIDE DEF first
    <2> QED
      BY <2>1, <2>2 DEF truncate_samples_by_total_tokens, first
  <1>6. /\ cut \in Seq(SamplesOf(T)) /\ Len(cut) = first - 1
        /\ \A i \in 1..(first - 1) : cut[i] = all[i] /\ i \in 1..n /\ Len(all[i].tokens) <= m
    <2>1. cut \in Seq(SamplesOf(T)) /\ Len(cut) = first - 1 /\ \A i \in 1..(first - 1) : cut[i] = all[i]
      <3> DEFINE k == first - 1
                 S == SamplesOf(T)
      <3>1. k \in 0..n /\ all \in Seq(S)
        BY <1>1, <1>3
      <3> HIDE DEF k, S, first
      <3>2. SubSeq(all, 1, k) \in Seq(S) /\ Len(SubSeq(all, 1, k)) = k /\ \A i \in 1..k : SubSeq(all, 1, k)[i] = all[i]
        BY <1>1, <3>1
      <3> QED
        BY <3>2 DEF k, S
    <2>2. ASSUME NEW i \in 1..(first - 1) PROVE i \in 1..n /\ Len(all[i].tokens) <= m
      <3>1. i \in 1..n /\ ~(first <= i)
        BY <1>1, <1>3
      <3>2. i \notin long
        BY <1>2, <3>1
      <3>3. all[i].tokens \in Seq(T)
        <4>1. all[i] \in SamplesOf(T)
          BY <3>1
        <4> QED
          BY <4>1 DEF SamplesOf
      <3>4. Len(all[i].tokens) \in Nat
        BY <3>3
      <3> QED
        BY <1>1, <3>1, <3>2, <3>4
    <2> QED
      BY <2>1, <2>2
  <1>7. ASSUME NEW i \in 1..n
        PROVE  IsPrefix(all[i].tokens, ids) /\ all[i].response_length > 0
    <2>1. all[i].tokens \in Seq(T)
      <3>1. all[i] \in SamplesOf(T)
        BY <1>1
      <3> QED
        BY <3>1 DEF SamplesOf
    <2>2. Len(all[i].tokens) \in Nat
      BY <2>1
    <2>3. /\ all[i].tokens = SubSeq(ids, 1, Len(all[i].tokens)) /\ Len(all[i].tokens) <= Len(ids)
          /\ asks[i] < Len(all[i].tokens) /\ all[i].response_length = Len(all[i].tokens) - asks[i]
          /\ asks[i] \in Nat
      BY <1>1 DEF InTurns, TurnOf
    <2>4. SubSeq(all[i].tokens, 1, Len(all[i].tokens)) = all[i].tokens
      BY <2>1
    <2> QED
      BY <2>2, <2>3, <2>4 DEF IsPrefix
  <1> HIDE DEF first
  <1>8. CASE allowed <= 0
    <2>1. samples = cut /\ DOMAIN cut = 1..(first - 1)
      BY <1>5, <1>6, <1>8
    <2> SUFFICES ASSUME samples # <<>> PROVE CutAt(all, ids, m) /\ CutTurns(samples, T, all, ids, asks)
      BY DEF CutAt, CutTurns
    <2>2. Len(samples) = first - 1 /\ first - 1 \in 1..(first - 1) /\ first - 1 \in 1..n
      BY <1>3, <1>6, <2>1
    <2>3. samples[Len(samples)] = all[first - 1]
      BY <1>6, <2>1, <2>2
    <2>4. \A i \in DOMAIN samples : Len(samples[i].tokens) <= m
      BY <1>6, <2>1
    <2>5. \A i \in 1..(Len(samples) - 1) : samples[i] = all[i]
      BY <1>3, <1>6, <2>1, <2>2
    <2>6. IsPrefix(all[first - 1].tokens, ids) /\ all[first - 1].response_length > 0
      BY <1>7, <2>2
    <2>8. /\ samples \in Seq(SamplesOf(T)) /\ first - 1 <= n
          /\ \A i \in 1..(first - 1) : TurnOf(samples[i], ids, asks[i])
      <3>1. \A i \in 1..n : TurnOf(all[i], ids, asks[i])
        BY <1>1 DEF InTurns
      <3>2. first - 1 <= n
        BY <1>1, <1>3
      <3> HIDE DEF samples, cut, n
      <3> QED
        BY <1>6, <2>1, <3>1, <3>2
    <2> HIDE DEF samples, cut
    <2>7. samples[Len(samples)] = all[Len(samples)]
      BY <2>2, <2>3
    <2>9. CutTurns(samples, T, all, ids, asks)
      BY <2>2, <2>7, <2>8 DEF CutTurns
    <2> QED
      BY <2>3, <2>4, <2>5, <2>6, <2>7, <2>9 DEF CutAt, samples
  <1>9. CASE ~(allowed <= 0)
    <2>1. samples = Append(cut, short)
      BY <1>5, <1>9
    <2>2. allowed \in Nat /\ allowed > 0 /\ all[first].response_length - allowed = L - m
      BY <1>1, <1>3, <1>4, <1>9
    <2>3. /\ short.tokens = DropLast(all[first].tokens, L - m) /\ short.response_length = allowed
          /\ short.loss_mask = SubSeq(all[first].loss_mask, 1, allowed)
          /\ short.rollout_log_probs = SubSeq(all[first].rollout_log_probs, 1, allowed)
          /\ short.rollout_routed_experts = all[first].rollout_routed_experts
          /\ short = [tokens |-> short.tokens, response_length |-> short.response_length,
                      loss_mask |-> short.loss_mask, rollout_log_probs |-> short.rollout_log_probs,
                      rollout_routed_experts |-> short.rollout_routed_experts, status |-> "TRUNCATED"]
      <3>1. all[first] = [tokens |-> all[first].tokens, response_length |-> all[first].response_length,
                          loss_mask |-> all[first].loss_mask, rollout_log_probs |-> all[first].rollout_log_probs,
                          rollout_routed_experts |-> all[first].rollout_routed_experts,
                          status |-> all[first].status]
        BY <1>4 DEF SamplesOf
      <3> DEFINE x == all[first]
      <3>2. short = [x EXCEPT !.tokens = DropLast(@, x.response_length - allowed), !.response_length = allowed,
                              !.rollout_log_probs = SubSeq(@, 1, allowed), !.loss_mask = SubSeq(@, 1, allowed),
                              !.status = "TRUNCATED"]
        BY DEF _truncate_sample_output
      <3>3. x.response_length - allowed = L - m
        BY <2>2
      <3> HIDE DEF allowed, L, short, x
      <3>4. x = [tokens |-> x.tokens, response_length |-> x.response_length, loss_mask |-> x.loss_mask,
                 rollout_log_probs |-> x.rollout_log_probs,
                 rollout_routed_experts |-> x.rollout_routed_experts, status |-> x.status]
        BY <3>1 DEF x
      <3>5. short = [tokens |-> DropLast(x.tokens, L - m), response_length |-> allowed,
                     loss_mask |-> SubSeq(x.loss_mask, 1, allowed),
                     rollout_log_probs |-> SubSeq(x.rollout_log_probs, 1, allowed),
                     rollout_routed_experts |-> x.rollout_routed_experts, status |-> "TRUNCATED"]
        BY <3>2, <3>3, <3>4
      <3> QED
        BY <3>5 DEF x
    <2>4. short.tokens = SubSeq(ids, 1, m) /\ Len(short.tokens) = m
      <3>1. DropLast(all[first].tokens, L - m) = SubSeq(all[first].tokens, 1, m)
        BY <1>1, <1>4 DEF DropLast
      <3>2. SubSeq(SubSeq(ids, 1, L), 1, m) = SubSeq(ids, 1, m) /\ Len(SubSeq(ids, 1, m)) = m
        BY <1>1, <1>3, <1>4
      <3> QED
        BY <1>4, <2>3, <3>1, <3>2
    <2>8. short \in SamplesOf(T) /\ TurnOf(short, ids, asks[first])
      <3> DEFINE mask == all[first].loss_mask
                 probs == all[first].rollout_log_probs
                 a == asks[first]
      <3>1. /\ mask \in Seq({0, 1}) /\ probs \in Seq(T \cup {Filler})
            /\ all[first].rollout_routed_experts \in Seq(T)
        BY <1>4 DEF SamplesOf
      <3>2. /\ Len(mask) = L - a /\ Len(probs) = L - a
            /\ \A i \in 1..(L - a) : mask[i] = 1 /\ probs[i] = ids[a + i]
        BY <1>1, <1>3, <1>4 DEF InTurns, TurnOf
      <3>3. allowed = m - a /\ a < m /\ allowed <= L - a /\ a \in Nat
        BY <1>1, <1>3, <1>4, <2>2, SMTT(30)
      <3> HIDE DEF short, allowed, mask, probs, a, L
      <3>4. /\ SubSeq(mask, 1, allowed) \in Seq({0, 1}) /\ Len(SubSeq(mask, 1, allowed)) = allowed
            /\ SubSeq(probs, 1, allowed) \in Seq(T \cup {Filler}) /\ Len(SubSeq(probs, 1, allowed)) = allowed
            /\ \A i \in 1..allowed : SubSeq(mask, 1, allowed)[i] = 1 /\ SubSeq(probs, 1, allowed)[i] = ids[a + i]
        <4> DEFINE N == L - a
                   P == T \cup {Filler}
        <4>0. N \in Nat /\ allowed \in Nat /\ allowed <= N
          BY <1>4, <2>2, <3>3
        <4> HIDE DEF N, P
        <4>1. \A i \in 1..allowed : i \in 1..N
          BY ONLY <4>0
        <4>2. /\ mask \in Seq({0, 1}) /\ Len(mask) = N /\ \A i \in 1..N : mask[i] = 1
              /\ probs \in Seq(P) /\ Len(probs) = N /\ \A i \in 1..N : probs[i] = ids[a + i]
          BY <3>1, <3>2 DEF N, P
        <4>3. /\ SubSeq(mask, 1, allowed) \in Seq({0, 1}) /\ Len(SubSeq(mask, 1, allowed)) = allowed
              /\ \A i \in 1..allowed : SubSeq(mask, 1, allowed)[i] = mask[i]
          BY ONLY <4>0, <4>2
        <4>4. /\ SubSeq(probs, 1, allowed) \in Seq(P) /\ Len(SubSeq(probs, 1, allowed)) = allowed
              /\ \A i \in 1..allowed : SubSeq(probs, 1, allowed)[i] = probs[i]
          BY ONLY <4>0, <4>2
        <4> QED
          BY <4>1, <4>2, <4>3, <4>4 DEF P
      <3>5. /\ short.loss_mask = SubSeq(mask, 1, allowed) /\ short.rollout_log_probs = SubSeq(probs, 1, allowed)
        BY <2>3 DEF mask, probs
      <3>6. short.tokens \in Seq(T) /\ short.response_length \in Int
        <4>1. SubSeq(ids, 1, m) \in Seq(T)
          BY <1>1
        <4>2. short.tokens \in Seq(T)
          BY <2>4, <4>1
        <4>3. short.response_length \in Int
          BY <2>2, <2>3
        <4> QED
          BY <4>2, <4>3
      <3>7. short \in SamplesOf(T)
        <4> DEFINE P == T \cup {Filler}
        <4>1. /\ short.loss_mask \in Seq({0, 1}) /\ short.rollout_log_probs \in Seq(P)
              /\ short.rollout_routed_experts \in Seq(T)
          BY <2>3, <3>1, <3>4, <3>5
        <4> HIDE DEF P
        <4>2. short \in [tokens : Seq(T), response_length : Int, loss_mask : Seq({0, 1}), rollout_log_probs : Seq(P),
                         rollout_routed_experts : Seq(T), status : {"PENDING", "COMPLETED", "TRUNCATED", "ABORTED"}]
          <5>1. short = [tokens |-> short.tokens, response_length |-> short.response_length,
                         loss_mask |-> short.loss_mask, rollout_log_probs |-> short.rollout_log_probs,
                         rollout_routed_experts |-> short.rollout_routed_experts, status |-> "TRUNCATED"]
            BY <2>3
          <5>2. /\ short.tokens \in Seq(T) /\ short.response_length \in Int
                /\ short.loss_mask \in Seq({0, 1}) /\ short.rollout_log_probs \in Seq(P)
                /\ short.rollout_routed_experts \in Seq(T)
            BY <3>6, <4>1
          <5> QED
            BY ONLY <5>1, <5>2
        <4> QED
          BY <4>2 DEF SamplesOf, P
      <3>8. /\ m <= Len(ids) /\ short.response_length = m - a
            /\ \A i \in 1..short.response_length :
                  short.loss_mask[i] = 1 /\ short.rollout_log_probs[i] = ids[a + i]
        <4>1. m <= Len(ids) /\ short.response_length = allowed /\ allowed = m - a
          BY <1>1, <2>3, <3>3
        <4> QED
          BY ONLY <3>4, <3>5, <4>1
      <3>9. Len(short.loss_mask) = short.response_length /\ Len(short.rollout_log_probs) = short.response_length
        BY <2>3, <3>4, <3>5
      <3>10. TurnOf(short, ids, a)
        BY <2>4, <3>3, <3>8, <3>9 DEF TurnOf
      <3> QED
        BY <3>7, <3>10 DEF a
    <2>9. short.rollout_routed_experts = all[first].rollout_routed_experts
      BY <2>3
    <2> HIDE DEF short, allowed
    <2>5. /\ Len(samples) = first /\ DOMAIN samples = 1..first /\ samples[first] = short
          /\ \A i \in 1..(first - 1) : samples[i] = cut[i]
      <3>1. first - 1 \in Nat /\ DOMAIN cut = 1..(first - 1)
        BY <1>3, <1>6
      <3> HIDE DEF cut, samples
      <3> QED
        BY <1>3, <1>6, <2>1, <3>1
    <2>6. \A i \in DOMAIN samples : Len(samples[i].tokens) <= m
      <3>1. \A i \in 1..first : i \in 1..(first - 1) \/ i = first
        BY <1>3
      <3>2. m <= m
        BY <1>1
      <3> HIDE DEF cut, samples
      <3>3. ASSUME NEW i \in 1..first PROVE Len(samples[i].tokens) <= m
        <4>1. CASE i \in 1..(first - 1)
          <5>1. samples[i] = all[i] /\ Len(all[i].tokens) <= m
            BY ONLY <1>6, <2>5, <4>1
          <5> QED
            BY ONLY <5>1
        <4>2. CASE i = first
          BY ONLY <2>4, <2>5, <3>2, <4>2
        <4> QED
          BY ONLY <3>1, <4>1, <4>2
      <3> QED
        BY ONLY <2>5, <3>3
    <2>7. IsPrefix(short.tokens, ids)
      <3>1. SubSeq(SubSeq(ids, 1, m), 1, m) = SubSeq(ids, 1, m)
        BY <1>1
      <3> QED
        BY <1>1, <2>4, <3>1 DEF IsPrefix
    <2>10. /\ samples \in Seq(SamplesOf(T)) /\ first <= n
           /\ \A i \in 1..first : TurnOf(samples[i], ids, asks[i])
      <3>1. samples \in Seq(SamplesOf(T))
        <4> HIDE DEF cut, samples
        <4> QED
          BY <1>6, <2>1, <2>8
      <3>2. \A i \in 1..(first - 1) : TurnOf(all[i], ids, asks[i])
        BY <1>1, <1>6 DEF InTurns
      <3>3. \A i \in 1..first : i \in 1..(first - 1) \/ i = first
        BY <1>3
      <3> HIDE DEF cut, samples
      <3> QED
        BY <1>3, <1>6, <2>5, <2>8, <3>1, <3>2, <3>3
    <2> HIDE DEF samples, cut
    <2>11. CutTurns(samples, T, all, ids, asks)
      BY <1>3, <2>4, <2>5, <2>9, <2>10 DEF CutTurns, L
    <2> QED
      BY <1>1, <1>6, <2>2, <2>3, <2>4, <2>5, <2>6, <2>7, <2>11 DEF CutAt, samples
  <1> QED
    BY <1>8, <1>9 DEF samples

(* A turn begins after all the turns before it.                            *)
LEMMA TurnsGrow ==
    ASSUME NEW T, NEW ids \in Seq(T), NEW all \in Seq(SamplesOf(T)), all # <<>>, NEW asks,
           NEW routed \in BOOLEAN, InTurns(all, ids, asks, routed),
           NEW i \in DOMAIN all, NEW j \in DOMAIN all, i < j
    PROVE  Len(all[i].tokens) < asks[j]
  <1> DEFINE n == Len(all)
             size(k) == Len(all[k].tokens)
             P == {d \in Nat : i + d + 1 <= n => size(i) < asks[i + d + 1]}
  <1>1. /\ n \in Nat /\ i \in 1..n /\ j \in 1..n
        /\ \A k \in 1..n : size(k) \in Nat /\ asks[k] \in Nat /\ asks[k] < size(k)
        /\ \A k \in 1..(n - 1) : size(k) < asks[k + 1]
    <2>1. \A k \in DOMAIN all : all[k] \in SamplesOf(T)
      OBVIOUS
    <2>2. \A k \in DOMAIN all : all[k].tokens \in Seq(T)
      BY <2>1 DEF SamplesOf
    <2> QED
      BY <2>2 DEF InTurns, TurnOf
  <1> HIDE DEF n, size
  <1>7. n \in Nat /\ i \in Nat /\ j \in Nat /\ i > 0 /\ j <= n /\ i < j
    BY <1>1
  <1>2. 0 \in P
    <2>1. CASE i + 0 + 1 <= n
      <3>1. i \in 1..(n - 1) /\ i + 0 + 1 = i + 1
        BY <1>1, <2>1
      <3>2. size(i) < asks[i + 1]
        BY <1>1, <3>1
      <3> QED
        BY <3>1, <3>2
    <2> QED
      BY <2>1
  <1>3. ASSUME NEW d \in P PROVE d + 1 \in P
    <2>1. CASE i + (d + 1) + 1 <= n
      <3> DEFINE k == i + d + 1
      <3>0. d \in Nat
        OBVIOUS
      <3>1. k \in 1..(n - 1) /\ k \in 1..n /\ i + (d + 1) + 1 = k + 1 /\ k + 1 \in 1..n
        BY ONLY <1>7, <2>1, <3>0
      <3>2. size(i) < asks[k]
        <4>1. i + d + 1 <= n
          BY ONLY <1>7, <2>1, <3>0
        <4> QED
          BY <4>1
      <3>3. asks[k] < size(k) /\ size(k) < asks[k + 1]
        BY <1>1, <3>1
      <3> HIDE DEF k
      <3>4. size(i) < asks[k + 1]
        <4>1. size(i) \in Nat /\ asks[k] \in Nat /\ size(k) \in Nat /\ asks[k + 1] \in Nat
          BY <1>1, <3>1
        <4> QED
          BY ONLY <3>2, <3>3, <4>1
      <3> QED
        BY <3>1, <3>4
    <2> QED
      BY <2>1
  <1>4. P = Nat
    <2>1. P \in SUBSET Nat
      OBVIOUS
    <2> HIDE DEF P
    <2> QED
      BY <1>2, <1>3, <2>1, Induction
  <1> DEFINE d == j - i - 1
  <1>5. d \in Nat /\ i + d + 1 = j /\ j <= n
    BY ONLY <1>7
  <1> HIDE DEF d
  <1>6. size(i) < asks[j]
    <2>1. d \in P
      BY <1>4, <1>5
    <2>2. i + d + 1 <= n => size(i) < asks[i + d + 1]
      BY <2>1
    <2> QED
      BY <1>5, <2>2
  <1> QED
    BY <1>6 DEF size

(* What turns are cut to merges, unless one but the last is truncated or   *)
(* the last of several is cut and has its rows of routing still.           *)
LEMMA CutMerges ==
    ASSUME NEW T, NEW ids \in Seq(T), NEW all \in Seq(SamplesOf(T)), all # <<>>, NEW asks,
           NEW routed \in BOOLEAN, InTurns(all, ids, asks, routed), AnswerSaid(all, ids, asks),
           NEW samples, samples # <<>>, CutTurns(samples, T, all, ids, asks),
           \A i \in 1..(Len(samples) - 1) : samples[i] = all[i]
    PROVE  LET last == samples[Len(samples)]
               uncut == last = all[Len(samples)]
               whole == merge_samples(samples)
           IN  /\ whole # <<>> <=> OnlyLastIsCut(samples) /\ (routed => uncut \/ Len(samples) = 1)
               /\ whole # <<>> => TrainsOnSaid(whole[1], last.tokens)
  <1> DEFINE n == Len(all)
             k == Len(samples)
             last == samples[k]
             said == last.tokens
             L == Len(said)
             cutasks == [i \in DOMAIN samples |-> asks[i]]
             uncut == last = all[k]
  <1>1. /\ samples \in Seq(SamplesOf(T)) /\ k <= n /\ n \in Nat /\ k \in Nat /\ k > 0
        /\ DOMAIN samples = 1..k /\ DOMAIN all = 1..n /\ k \in 1..k /\ k \in 1..n
        /\ \A i \in 1..k : TurnOf(samples[i], ids, asks[i]) /\ asks[i] \in Nat /\ i \in 1..n
    <2>1. samples \in Seq(SamplesOf(T)) /\ k <= n /\ \A i \in 1..k : TurnOf(samples[i], ids, asks[i])
      BY DEF CutTurns
    <2>2. n \in Nat /\ k \in Nat /\ k > 0 /\ DOMAIN samples = 1..k /\ DOMAIN all = 1..n
      BY <2>1
    <2> HIDE DEF n, k
    <2> QED
      BY <2>1, <2>2 DEF InTurns
  <1>2. \A i \in 1..k : samples[i] \in SamplesOf(T) /\ samples[i].tokens \in Seq(T) /\ Len(samples[i].tokens) \in Nat
    <2>1. \A i \in 1..k : samples[i] \in SamplesOf(T)
      BY <1>1
    <2>2. \A i \in 1..k : samples[i].tokens \in Seq(T)
      BY <2>1 DEF SamplesOf
    <2> QED
      BY <2>1, <2>2
  <1>3. \A i \in 1..n : all[i] \in SamplesOf(T) /\ all[i].tokens \in Seq(T) /\ Len(all[i].tokens) \in Nat
    <2>1. \A i \in 1..n : all[i] \in SamplesOf(T)
      BY <1>1
    <2>2. \A i \in 1..n : all[i].tokens \in Seq(T)
      BY <2>1 DEF SamplesOf
    <2> QED
      BY <2>1, <2>2
  <1>4. /\ \A i \in 1..(k - 1) : samples[i] = all[i]
        /\ \/ last = all[k]
           \/ Len(last.tokens) < Len(all[k].tokens) /\ last.rollout_routed_experts = all[k].rollout_routed_experts
    BY DEF CutTurns
  <1>5. \A i \in 1..n, j \in 1..n : i < j => Len(all[i].tokens) < asks[j]
    BY <1>1, TurnsGrow
  <1>6. /\ said \in Seq(T) /\ L \in Nat /\ said = SubSeq(ids, 1, L) /\ L <= Len(ids)
        /\ L <= Len(all[k].tokens) /\ asks[k] < L /\ Len(ids) \in Nat
    <2>1. said = SubSeq(ids, 1, L) /\ L <= Len(ids) /\ asks[k] < L
      BY <1>1 DEF TurnOf
    <2>2. said \in Seq(T) /\ L \in Nat
      BY <1>1, <1>2
    <2>3. L <= Len(all[k].tokens)
      BY <1>1, <1>3, <1>4, <2>2
    <2> QED
      BY <2>1, <2>2, <2>3
  <1> HIDE DEF n, k, last, said, L
  <1>7. \A p \in 1..L : said[p] = ids[p]
    BY <1>6
  <1>8. \A i \in 1..k : i = k \/ (i \in 1..(k - 1) /\ i < k)
    BY <1>1
  <1>9. \A i \in 1..k : /\ Len(samples[i].tokens) <= L /\ Len(samples[i].tokens) <= Len(all[i].tokens)
                        /\ i < k => samples[i] = all[i] /\ Len(samples[i].tokens) < asks[k]
    <2> SUFFICES ASSUME NEW i \in 1..k
                 PROVE  /\ Len(samples[i].tokens) <= L /\ Len(samples[i].tokens) <= Len(all[i].tokens)
                        /\ i < k => samples[i] = all[i] /\ Len(samples[i].tokens) < asks[k]
      OBVIOUS
    <2>1. CASE i = k
      BY <1>1, <1>6, <2>1 DEF L, said, last
    <2>2. CASE i \in 1..(k - 1) /\ i < k
      <3>1. samples[i] = all[i] /\ Len(all[i].tokens) < asks[k]
        BY <1>1, <1>4, <1>5, <2>2
      <3> QED
        BY <1>1, <1>2, <1>6, <3>1
    <2> QED
      BY <1>8, <2>1, <2>2
  <1>10. ASSUME NEW i \in 1..k PROVE TurnOf(samples[i], said, cutasks[i])
    <2> DEFINE x == samples[i]
               M == Len(x.tokens)
               a == asks[i]
    <2>1. /\ x.tokens = SubSeq(ids, 1, M) /\ M <= Len(ids)
          /\ a < M /\ x.response_length = M - a
          /\ Len(x.loss_mask) = x.response_length /\ Len(x.rollout_log_probs) = x.response_length
          /\ \A l \in 1..x.response_length : x.loss_mask[l] = 1 /\ x.rollout_log_probs[l] = ids[a + l]
      BY <1>1 DEF TurnOf
    <2>2. M \in Nat /\ M <= L /\ a \in Nat /\ cutasks[i] = a
      BY <1>1, <1>2, <1>9
    <2> HIDE DEF x, M, a
    <2>3. x.tokens = SubSeq(said, 1, M)
      <3>1. SubSeq(SubSeq(ids, 1, L), 1, M) = SubSeq(ids, 1, M)
        BY <1>6, <2>2
      <3> QED
        BY <1>6, <2>1, <3>1
    <2>4. \A l \in 1..(M - a) : x.loss_mask[l] = 1 /\ x.rollout_log_probs[l] = said[a + l]
      <3>1. \A l \in 1..(M - a) : a + l \in 1..L
        BY <2>1, <2>2, <1>6
      <3> QED
        BY <1>7, <2>1, <3>1
    <2>5. M = Len(x.tokens) /\ M <= Len(said)
      BY <2>2 DEF M, L
    <2>6. TurnOf(x, said, a)
      BY <2>1, <2>2, <2>3, <2>4, <2>5 DEF TurnOf
    <2> QED
      BY <2>2, <2>6 DEF x
  <1>11. AnswerSaid(samples, said, cutasks)
    <2>1. ASSUME NEW p \in Nat, AnsweredAt(samples, cutasks, k, p)
          PROVE  SaidAt(said, p)
      <3>1. PICK j \in 1..k : p \in (cutasks[j] + 1)..Len(samples[j].tokens)
        BY <2>1 DEF AnsweredAt
      <3>2. /\ cutasks[j] = asks[j] /\ asks[j] \in Nat /\ j \in 1..n
            /\ Len(samples[j].tokens) \in Nat /\ Len(all[j].tokens) \in Nat
            /\ Len(samples[j].tokens) <= L /\ Len(samples[j].tokens) <= Len(all[j].tokens)
        BY <1>1, <1>2, <1>3, <1>9
      <3>3. p \in (asks[j] + 1)..Len(all[j].tokens) /\ p \in 1..L
        BY <1>6, <3>1, <3>2, SMTT(30)
      <3>4. AnsweredAt(all, asks, n, p)
        BY <3>2, <3>3 DEF AnsweredAt
      <3>5. SaidAt(ids, p)
        BY <3>4 DEF AnswerSaid, n
      <3>6. said[p] = ids[p] /\ (p > 1 => said[p - 1] = ids[p - 1])
        <4>1. p > 1 => p - 1 \in 1..L
          BY <1>6, <3>3
        <4> QED
          BY <1>7, <3>3, <4>1
      <3> QED
        BY <3>5, <3>6 DEF SaidAt
    <2>2. ASSUME NEW p \in 1..L, said[p] \in Asst
          PROVE  AnsweredAt(samples, cutasks, k, p)
      <3>1. p \in 1..Len(ids) /\ ids[p] \in Asst
        BY <1>6, <1>7, <2>2
      <3>2. AnsweredAt(all, asks, n, p)
        BY <3>1 DEF AnswerSaid, n
      <3>3. PICK j \in 1..n : p \in (asks[j] + 1)..Len(all[j].tokens)
        BY <3>2 DEF AnsweredAt
      <3>4. ~(k < j)
        <4>1. ASSUME k < j PROVE FALSE
          <5>1. Len(all[k].tokens) < asks[j] /\ asks[j] \in Nat /\ Len(all[k].tokens) \in Nat
            <6>1. asks[j] \in Nat
              BY <1>1 DEF InTurns
            <6> QED
              BY <1>1, <1>3, <1>5, <4>1, <6>1
          <5>2. p \in Nat /\ p <= L /\ asks[j] < p
            BY <1>6, <3>3, <5>1
          <5> QED
            BY <1>6, <5>1, <5>2
        <4> QED
          BY <4>1
      <3>5. j \in 1..k /\ cutasks[j] = asks[j] /\ asks[j] \in Nat
        BY <1>1, <3>4
      <3>6. p \in (cutasks[j] + 1)..Len(samples[j].tokens)
        <4>1. CASE j = k
          BY <1>6, <3>3, <3>5, <4>1 DEF L, said, last
        <4>2. CASE j \in 1..(k - 1) /\ j < k
          BY <1>9, <3>3, <3>5, <4>2
        <4> QED
          BY <1>8, <3>5, <4>1, <4>2
      <3> QED
        BY <3>5, <3>6 DEF AnsweredAt
    <2> HIDE DEF cutasks
    <2> QED
      BY <2>1, <2>2 DEF AnswerSaid, k, L
  <1>12. k > 1 => /\ \A i \in 1..(k - 1) : RowsOf(samples[i], routed)
                  /\ RowsOf(all[k], routed)
    <2> SUFFICES ASSUME k > 1
                 PROVE  /\ \A i \in 1..(k - 1) : RowsOf(samples[i], routed)
                        /\ RowsOf(all[k], routed)
      OBVIOUS
    <2>1. \A i \in 1..n : RowsOf(all[i], routed)
      <3>1. Len(all) > 1
        BY <1>1 DEF n
      <3> QED
        BY <1>1, <3>1 DEF InTurns
    <2>2. \A i \in 1..(k - 1) : i \in 1..n
      BY <1>1
    <2> QED
      BY <1>1, <1>4, <2>1, <2>2
  <1>13. CASE routed => uncut \/ k = 1
    <2>1. k > 1 => \A i \in 1..k : RowsOf(samples[i], routed)
      <3>1. k > 1 => RowsOf(last, routed)
        <4>1. CASE uncut
          BY <1>12, <4>1
        <4>2. CASE ~uncut /\ (k > 1 => ~routed)
          <5>1. last.rollout_routed_experts = all[k].rollout_routed_experts
            BY <1>4, <4>2
          <5> QED
            BY <1>12, <4>2, <5>1 DEF RowsOf
        <4> QED
          BY <1>1, <1>13, <4>1, <4>2
      <3> QED
        BY <1>8, <1>12, <3>1 DEF last
    <2>2. InTurns(samples, said, cutasks, routed)
      <3>1. cutasks \in [DOMAIN samples -> Nat]
        BY <1>1
      <3>2. \A i \in 1..(k - 1) : Len(samples[i].tokens) < cutasks[i + 1]
        <4>1. \A i \in 1..(k - 1) : i \in 1..k /\ i + 1 \in 1..k /\ i \in 1..n /\ i + 1 \in 1..n /\ i < i + 1
          BY <1>1
        <4> QED
          BY <1>1, <1>4, <1>5, <4>1
      <3> HIDE DEF cutasks
      <3> QED
        BY <1>1, <1>10, <2>1, <3>1, <3>2 DEF InTurns, k, said, last
    <2> DEFINE whole == merge_samples(samples)
    <2> HIDE DEF cutasks, uncut
    <2>3. (whole # <<>> <=> OnlyLastIsCut(samples)) /\ (whole # <<>> => TrainsOnSaid(whole[1], said))
      BY <1>1, <1>6, <1>11, <2>2, TurnsMerge
    <2> HIDE DEF whole
    <2> QED
      BY <1>13, <2>3 DEF whole, said, last, k, uncut
  <1>14. CASE ~(routed => uncut \/ k = 1)
    <2> DEFINE i == k - 1
    <2>1. i \in 1..(k - 1) /\ i + 1 = k /\ k > 1 /\ routed /\ ~uncut
      BY <1>1, <1>14
    <2>2. /\ Len(last.rollout_routed_experts) = Len(all[k].tokens) - 1
          /\ L < Len(all[k].tokens)
      BY <1>4, <1>12, <2>1 DEF RowsOf, L, said
    <2>3. ~validate(samples[i + 1])
      <3>1. /\ Len(last.rollout_routed_experts) > L - 1 /\ Len(last.rollout_routed_experts) > 0
        <4>1. L > 0 /\ Len(all[k].tokens) \in Nat
          BY <1>1, <1>3, <1>6
        <4> QED
          BY <1>6, <2>2, <4>1
      <3>2. last.rollout_routed_experts # <<>>
        BY <3>1
      <3> QED
        BY <1>6, <2>1, <3>1, <3>2 DEF validate, L, said, last
    <2> HIDE DEF i
    <2>4. merge_samples(samples) = <<>>
      BY <1>1, <2>1, <2>3, MergeStops DEF k
    <2> QED
      BY <1>14, <2>4 DEF uncut, k, last
  <1> QED
    BY <1>13, <1>14

(***************************************************************************)
(* The records of a session are turns.                                     *)
(***************************************************************************)
\* A prompt that ends with a message of another role than the assistant's.
Asked(prompt) ==
    /\ Len(prompt) > 1
    /\ IF MaxTrim = 0 THEN prompt[Len(prompt)] = Boundary /\ prompt[Len(prompt) - 1] \in Other
       ELSE prompt[Len(prompt)] \in Other

\* What a turn adds to the tokens, but for the token that may be trimmed.
Spoken(t) ==
    \A k \in 1..Len(t.records) :
        t.records[k].output_ids \in Completions /\ Asked(t.records[k].input_ids)

\* How the prompt next goes on from an answer to the prompt input.
Linked(input, output, next) ==
    LET all == input \o output
        core == Len(all) - MaxTrim
    IN  /\ Len(input) < core /\ core < Len(next)
        /\ \A p \in 1..core : next[p] = all[p]
        /\ \A p \in 1..Len(next) : core < p => next[p] \notin Asst
        /\ MaxTrim = 1 => all[Len(all)] \in Stops

(* An answer is an assistant's message, and the token it stops on.         *)
LEMMA Completed ==
    ASSUME NEW reply \in Completions
    PROVE  /\ reply \in Seq(Tokens) /\ reply[1] \in Asst /\ Len(reply) \in {1, 2}
           /\ Len(reply) = 1 => Truncation
           /\ Len(reply) = 2 => reply[2] \in Stops
  <1>1. reply[1] \in Asst /\ reply \in Seq(Tokens)
    BY CompletionType
  <1>2. \/ Len(reply) = 1 /\ Truncation
        \/ Len(reply) = 2 /\ reply[2] \in Stops
    BY SMT DEF Completions
  <1> QED
    BY <1>1, <1>2

(* A prompt that goes on from an answer and asks for another has more than *)
(* the answer in it, and no assistant's token beyond it.                   *)
LEMMA PromptLinked ==
    ASSUME MaxTrim = 0 \/ ~Truncation, NEW input \in Seq(Tokens), NEW output \in Completions,
           NEW next \in Seq(Tokens), Continues(input \o output, next), Asked(next),
           Cardinality(AsstPos(next)) = Cardinality(AsstPos(input \o output))
    PROVE  Linked(input, output, next)
  <1> DEFINE all == input \o output
             core == Len(all) - MaxTrim
  <1>1. /\ output \in Seq(Tokens) /\ output[1] \in Asst /\ Len(output) \in {1, 2}
        /\ Len(output) = 1 => Truncation
        /\ Len(output) = 2 => output[2] \in Stops
    BY Completed
  <1>2. /\ all \in Seq(Tokens) /\ Len(all) = Len(input) + Len(output)
        /\ \A i \in 1..Len(output) : all[Len(input) + i] = output[i]
        /\ Len(input) \in Nat /\ Len(next) \in Nat /\ Len(all) \in Nat
    BY <1>1
  <1>3. MaxTrim \in {0, 1} /\ Stops \cap Msgs = {} /\ Boundary \in Stops /\ Asst \cap Other = {}
    BY SessionAssumption
  <1>4. core <= Len(next) /\ \A p \in 1..core : all[p] = next[p]
    BY DEF Continues, Agree
  <1>5. AsstPos(all) = AsstPos(input) \cup {Len(input) + 1}
    BY ReplyCount
  <1> HIDE DEF all
  <1>6. /\ core \in Nat /\ Len(input) < core /\ all[Len(input) + 1] \in Asst
        /\ MaxTrim = 1 => all[Len(all)] \in Stops /\ core = Len(input) + 1
    <2>1. 1 \in 1..Len(output) /\ (Len(output) = 2 => 2 \in 1..Len(output))
      BY <1>1
    <2>2. all[Len(input) + 1] \in Asst /\ (Len(output) = 2 => all[Len(input) + 2] \in Stops)
      BY <1>1, <1>2, <2>1
    <2>3. MaxTrim = 1 => Len(output) = 2
      BY <1>1
    <2>4. Len(output) = 1 \/ Len(output) = 2
      BY <1>1
    <2>5. core \in Nat /\ Len(input) < core /\ (MaxTrim = 1 => core = Len(input) + 1 /\ Len(all) = Len(input) + 2)
      <3> DEFINE i == Len(input)
                 o == Len(output)
                 l == Len(all)
      <3>1. i \in Nat /\ l = i + o /\ (o = 1 \/ o = 2) /\ (MaxTrim = 0 \/ MaxTrim = 1) /\ (MaxTrim = 1 => o = 2)
        BY <1>2, <1>3, <2>3, <2>4
      <3>2. core = l - MaxTrim
        OBVIOUS
      <3> HIDE DEF i, o, l, core
      <3>3. core \in Nat /\ i < core /\ (MaxTrim = 1 => core = i + 1 /\ l = i + 2)
        BY <3>1, <3>2
      <3> QED
        BY <3>3 DEF i, l
    <2> HIDE DEF core
    <2> QED
      BY <2>2, <2>3, <2>5
  <1>7. AsstPos(all) \subseteq 1..core
    <2>1. \A p \in AsstPos(all) : p \in 1..Len(all) /\ all[p] \in Asst
      BY DEF AsstPos
    <2>2. \A x : ~(x \in Asst /\ x \in Stops)
      BY <1>3 DEF Msgs
    <2> QED
      BY <1>2, <1>3, <1>6, <2>1, <2>2
  <1>8. AsstPos(all) \subseteq AsstPos(next)
    <2>1. \A p \in AsstPos(all) : p \in 1..core /\ all[p] \in Asst
      BY <1>7 DEF AsstPos
    <2> HIDE DEF core
    <2>2. \A p \in AsstPos(all) : p \in 1..Len(next) /\ next[p] \in Asst
      BY <1>2, <1>4, <1>6, <2>1
    <2> QED
      BY <2>2 DEF AsstPos
  <1>9. AsstPos(all) = AsstPos(next)
    <2>1. IsFiniteSet(AsstPos(next))
      BY AsstTokensFinite
    <2>2. Cardinality(AsstPos(next)) = Cardinality(AsstPos(all))
      BY DEF all
    <2> QED
      BY <1>8, <2>1, <2>2, FS_Subset
  <1>10. \A p \in 1..Len(next) : core < p => next[p] \notin Asst
    <2>1. \A p \in 1..Len(next) : next[p] \in Asst => p \in AsstPos(next)
      BY DEF AsstPos
    <2> QED
      BY <1>2, <1>6, <1>7, <1>9, <2>1
  <1>11. core # Len(next)
    <2> SUFFICES ASSUME core = Len(next) PROVE FALSE
      OBVIOUS
    <2>1. Len(next) > 1 /\ (IF MaxTrim = 0 THEN next[Len(next)] = Boundary /\ next[Len(next) - 1] \in Other
                            ELSE next[Len(next)] \in Other)
      BY DEF Asked
    <2>2. \A x : ~(x \in Asst /\ x \in Other) /\ (x = Boundary => x \notin Asst)
      BY <1>3 DEF Msgs
    <2>3. CASE MaxTrim = 1
      <3>1. Len(next) = Len(input) + 1 /\ next[Len(next)] = all[Len(input) + 1]
        BY <1>2, <1>4, <1>6, <2>3
      <3> QED
        BY <1>6, <2>1, <2>2, <2>3, <3>1
    <2>4. CASE MaxTrim = 0
      <3>1. Len(next) = Len(input) + Len(output) /\ Len(input) + 1 \in 1..Len(next)
        BY <1>1, <1>2, <2>4
      <3>2. next[Len(input) + 1] \in Asst
        BY <1>2, <1>4, <1>6, <2>4, <3>1
      <3>3. Len(input) + 1 = Len(next) \/ Len(input) + 1 = Len(next) - 1
        <4>1. Len(output) = 1 \/ Len(output) = 2
          BY <1>1
        <4> QED
          BY <1>2, <3>1, <4>1
      <3> QED
        BY <2>1, <2>2, <2>4, <3>2, <3>3
    <2> QED
      BY <1>3, <2>3, <2>4
  <1>12. core < Len(next) /\ \A p \in 1..core : next[p] = all[p]
    <2> HIDE DEF core
    <2> QED
      BY <1>2, <1>4, <1>6, <1>11
  <1> QED
    BY <1>6, <1>10, <1>12 DEF Linked, all

\* The first n tokens of an answer are in the tokens ids after its prompt.
Matches(input, output, ids, n) ==
    \A j \in 1..n : Len(input) + j <= Len(ids) /\ output[j] = ids[Len(input) + j]

(* How many of them there are.                                             *)
LEMMA MatchedIs ==
    ASSUME NEW record, NEW ids, record.output_ids \in Seq(Tokens)
    PROVE  LET m == matched(record, ids) IN
           /\ m \in 0..Len(record.output_ids) /\ Matches(record.input_ids, record.output_ids, ids, m)
           /\ \A n \in 0..Len(record.output_ids) : Matches(record.input_ids, record.output_ids, ids, n) => n <= m
  <1> DEFINE o == Len(record.output_ids)
             s == {n \in 0..o : Matches(record.input_ids, record.output_ids, ids, n)}
  <1>1. matched(record, ids) = Max(s)
    BY DEF matched, Matches
  <1>2. o \in Nat
    OBVIOUS
  <1>3. Matches(record.input_ids, record.output_ids, ids, 0)
    BY DEF Matches
  <1>4. s \in SUBSET Nat /\ s # {} /\ \A n \in s : n <= o
    BY <1>2, <1>3
  <1> HIDE DEF s, o
  <1>5. \E x \in s : \A y \in s : y <= x
    BY <1>2, <1>4, GreatestNumber
  <1>6. \E x \in s : \A y \in s : x >= y
    BY <1>4, <1>5
  <1>7. Max(s) \in s /\ \A y \in s : Max(s) >= y
    BY <1>6 DEF Max
  <1>8. \A y \in s : y <= Max(s)
    BY <1>4, <1>7
  <1> QED
    BY <1>1, <1>7, <1>8 DEF s, o

\* What the records of a trajectory and its tokens have to do with each other.
Threaded(t) ==
    LET n == Len(t.records)
        ids == token_ids(t)
    IN  /\ n \in Nat /\ n > 0 /\ ids \in Seq(Tokens)
        /\ ids = t.records[n].input_ids \o t.records[n].output_ids
        /\ \A k \in 1..n : t.records[k].input_ids \in Seq(Tokens)
        /\ \A k \in 1..(n - 1) :
            Linked(t.records[k].input_ids, t.records[k].output_ids, t.records[k + 1].input_ids)
        /\ \A k \in 1..n : /\ Len(t.records[k].input_ids) <= Len(ids)
                           /\ Agree(t.records[k].input_ids, ids, Len(t.records[k].input_ids))
        /\ \A p \in 1..Len(t.records[1].input_ids) : t.records[1].input_ids[p] \notin Asst

(* The chain of records makes each prompt a beginning of the tokens.       *)
LEMMA RecordsThreaded ==
    ASSUME MaxTrim = 0 \/ ~Truncation, NEW t \in Trajectory, t.records # <<>>,
           Counted(t), Chained(t), Spoken(t)
    PROVE  Threaded(t)
  <1> DEFINE n == Len(t.records)
             ids == token_ids(t)
             in(k) == t.records[k].input_ids
             out(k) == t.records[k].output_ids
             all(k) == t.trajectory_token_ids[k]
  <1>1. /\ t.records \in Seq(Record) /\ t.trajectory_token_ids \in Seq(Seq(Tokens))
        /\ n \in Nat /\ n > 0 /\ Len(t.trajectory_token_ids) = n
    <2>1. t.records \in Seq(Record) /\ t.trajectory_token_ids \in Seq(Seq(Tokens))
      BY DEF Trajectory
    <2>2. n \in Nat /\ n > 0
      BY <2>1
    <2>3. Len(t.trajectory_token_ids) = n
      BY DEF Chained
    <2> QED
      BY <2>1, <2>2, <2>3
  <1>2. ASSUME NEW k \in 1..n
        PROVE  /\ in(k) \in Seq(Tokens) /\ out(k) \in Completions /\ Asked(in(k))
               /\ all(k) = in(k) \o out(k) /\ Cardinality(AsstPos(all(k))) = k
               /\ Cardinality(AsstPos(in(k))) = k - 1
    <2>1. t.records[k] \in Record
      BY <1>1
    <2>2. in(k) \in Seq(Tokens)
      BY <2>1 DEF Record
    <2>3. out(k) \in Completions /\ Asked(in(k))
      BY DEF Spoken
    <2>4. all(k) = in(k) \o out(k)
      BY DEF Chained
    <2>5. Cardinality(AsstPos(all(k))) = k
      BY <1>1 DEF Counted
    <2>6. Cardinality(AsstPos(in(k) \o out(k))) = Cardinality(AsstPos(in(k))) + 1
      BY <2>2, <2>3, ReplyCount
    <2>7. Cardinality(AsstPos(in(k))) \in Nat
      BY <2>2, AsstTokensFinite
    <2> HIDE DEF in, out, all, n
    <2>8. Cardinality(AsstPos(in(k))) = k - 1
      BY <1>1, <2>4, <2>5, <2>6, <2>7
    <2> QED
      BY <2>2, <2>3, <2>4, <2>5, <2>8
  <1>3. ids = in(n) \o out(n) /\ ids \in Seq(Tokens)
    <2>1. n \in 1..n /\ ids = all(n)
      BY <1>1 DEF token_ids
    <2>2. all(n) \in Seq(Tokens)
      BY <1>1, <2>1
    <2> HIDE DEF in, out, all, n, ids
    <2> QED
      BY <1>2, <2>1, <2>2
  <1>4. ASSUME NEW k \in 1..(n - 1)
        PROVE  Linked(in(k), out(k), in(k + 1))
    <2>1. k \in 1..n /\ k + 1 \in 1..n /\ k + 1 > 1 /\ (k + 1) - 1 = k
      BY <1>1
    <2>2. Continues(all((k + 1) - 1), in(k + 1))
      <3> HIDE DEF n
      <3> QED
        BY <2>1 DEF Chained, n
    <2>3. Continues(in(k) \o out(k), in(k + 1))
      BY <1>2, <2>1, <2>2
    <2>4. Cardinality(AsstPos(in(k + 1))) = Cardinality(AsstPos(in(k) \o out(k)))
      <3>1. Cardinality(AsstPos(in(k + 1))) = (k + 1) - 1
        BY ONLY <1>2, <2>1
      <3>2. Cardinality(AsstPos(in(k) \o out(k))) = k
        BY ONLY <1>2, <2>1
      <3> QED
        BY <2>1, <3>1, <3>2
    <2>5. in(k) \in Seq(Tokens) /\ out(k) \in Completions /\ in(k + 1) \in Seq(Tokens) /\ Asked(in(k + 1))
      BY <1>2, <2>1
    <2> HIDE DEF in, out, all, n
    <2> QED
      BY <2>3, <2>4, <2>5, PromptLinked
  <1> DEFINE Begins(k) == Len(in(k)) <= Len(ids) /\ Agree(in(k), ids, Len(in(k)))
             P == {j \in Nat : j < n => Begins(n - j)}
  <1>5. 0 \in P
    <2>1. n \in 1..n /\ n - 0 = n
      BY <1>1
    <2>2. in(n) \in Seq(Tokens) /\ out(n) \in Seq(Tokens)
      BY <1>2, <2>1, CompletionType
    <2> HIDE DEF in, out, ids, n
    <2>3. Begins(n)
      BY <1>3, <2>2 DEF Agree
    <2> QED
      BY <2>1, <2>3
  <1>6. ASSUME NEW j \in P PROVE j + 1 \in P
    <2> SUFFICES ASSUME j + 1 < n PROVE Begins(n - (j + 1))
      OBVIOUS
    <2> DEFINE k == n - (j + 1)
    <2>1. k \in 1..(n - 1) /\ k + 1 = n - j /\ k \in 1..n /\ k + 1 \in 1..n /\ j < n /\ j \in Nat
      BY <1>1, SMTT(30)
    <2>2. Begins(k + 1)
      BY <2>1
    <2>3. Linked(in(k), out(k), in(k + 1))
      BY <1>4, <2>1
    <2>4. in(k) \in Seq(Tokens) /\ out(k) \in Seq(Tokens) /\ in(k + 1) \in Seq(Tokens)
      BY <1>2, <2>1, CompletionType
    <2> HIDE DEF k, in, out, n, ids
    <2>5. /\ \A p \in 1..Len(in(k)) : (in(k) \o out(k))[p] = in(k)[p]
          /\ Len(in(k)) \in Nat /\ Len(in(k + 1)) \in Nat /\ Len(in(k) \o out(k)) \in Nat /\ Len(ids) \in Nat
      BY <1>3, <2>4
    <2>6. Len(in(k)) <= Len(in(k + 1)) /\ \A p \in 1..Len(in(k)) : in(k + 1)[p] = in(k)[p]
      <3> DEFINE core == Len(in(k) \o out(k)) - MaxTrim
      <3>1. /\ Len(in(k)) < core /\ core < Len(in(k + 1)) /\ core \in Int
            /\ \A p \in 1..core : in(k + 1)[p] = (in(k) \o out(k))[p]
        BY <2>3, <2>5, SessionAssumption DEF Linked
      <3> HIDE DEF core
      <3> QED
        BY <2>5, <3>1
    <2>7. Begins(k)
      BY <2>2, <2>5, <2>6 DEF Agree
    <2> QED
      BY <2>7 DEF k
  <1>7. P = Nat
    <2>1. P \in SUBSET Nat
      OBVIOUS
    <2> HIDE DEF P
    <2> QED
      BY <1>5, <1>6, <2>1, Induction
  <1>8. ASSUME NEW k \in 1..n PROVE Begins(k)
    <2>1. n - k \in Nat /\ n - k < n /\ n - (n - k) = k
      BY <1>1
    <2>2. n - k \in P
      BY <1>7, <2>1
    <2> HIDE DEF Begins, n
    <2> QED
      BY <2>1, <2>2
  <1>9. \A p \in 1..Len(in(1)) : in(1)[p] \notin Asst
    <2>1. in(1) \in Seq(Tokens) /\ Cardinality(AsstPos(in(1))) = 0
      <3>1. 1 \in 1..n /\ 1 - 1 = 0
        BY <1>1
      <3> QED
        BY ONLY <1>2, <3>1
    <2>2. AsstPos(in(1)) = {}
      BY <2>1, AsstTokensFinite, FS_EmptySet
    <2> QED
      BY <2>2 DEF AsstPos
  <1>10. \A k \in 1..n : in(k) \in Seq(Tokens)
    BY <1>2
  <1> HIDE DEF P
  <1> QED
    BY <1>1, <1>3, <1>4, <1>8, <1>9, <1>10 DEF Threaded

(* Where two lists one after the other have their elements.                *)
LEMMA TwoParts ==
    ASSUME NEW S, NEW s \in Seq(S), NEW t \in Seq(S)
    PROVE  /\ s \o t \in Seq(S) /\ Len(s \o t) = Len(s) + Len(t)
           /\ \A i \in 1..Len(s) : (s \o t)[i] = s[i]
           /\ \A i \in 1..Len(t) : (s \o t)[Len(s) + i] = t[i]
  OBVIOUS

(* An answer that the next prompt goes on from is in the tokens, but for   *)
(* what may be trimmed, and ends before that prompt does.                  *)
LEMMA AnswerMatched ==
    ASSUME MaxTrim = 0 \/ ~Truncation, NEW record, NEW ids \in Seq(Tokens), NEW next \in Seq(Tokens),
           record.input_ids \in Seq(Tokens), record.output_ids \in Completions,
           Linked(record.input_ids, record.output_ids, next), Asked(next),
           Len(next) <= Len(ids), Agree(next, ids, Len(next))
    PROVE  LET m == matched(record, ids) IN
           /\ m \in 1..Len(record.output_ids) /\ Len(record.output_ids) - m <= MaxTrim
           /\ Matches(record.input_ids, record.output_ids, ids, m)
           /\ Len(record.input_ids) + m < Len(next)
  <1> DEFINE input == record.input_ids
             output == record.output_ids
             all == input \o output
             i == Len(input)
             o == Len(output)
             core == Len(all) - MaxTrim
             l == Len(next)
             m == matched(record, ids)
  <1>1. /\ input \in Seq(Tokens) /\ output \in Seq(Tokens) /\ i \in Nat /\ o \in Nat /\ l \in Nat
        /\ Len(ids) \in Nat /\ l <= Len(ids) /\ MaxTrim \in {0, 1}
    BY Completed, SessionAssumption
  <1>2. /\ Len(all) = i + o /\ \A j \in 1..o : all[i + j] = output[j]
    <2> HIDE DEF input, output
    <2> QED
      BY <1>1, TwoParts
  <1>3. /\ i < core /\ core < l /\ core = i + o - MaxTrim
        /\ \A p \in 1..core : next[p] = all[p]
        /\ MaxTrim = 1 => all[Len(all)] \in Stops
    <2>1. core = i + o - MaxTrim
      <3> HIDE DEF all, i, o
      <3> QED
        BY <1>1, <1>2
    <2> HIDE DEF i, o
    <2> QED
      BY <2>1 DEF Linked, i
  <1>4. \A p \in 1..l : next[p] = ids[p]
    BY DEF Agree
  <1>5. /\ m \in 0..o /\ Matches(input, output, ids, m)
        /\ \A n \in 0..o : Matches(input, output, ids, n) => n <= m
    BY <1>1, MatchedIs
  <1> HIDE DEF m, core, l, o, i, all, input, output
  <1>6. Matches(input, output, ids, o - MaxTrim)
    <2> SUFFICES ASSUME NEW j \in 1..(o - MaxTrim)
                 PROVE  i + j <= Len(ids) /\ output[j] = ids[i + j]
      BY DEF Matches, i
    <2>1. j \in 1..o /\ i + j \in 1..core /\ i + j \in 1..l /\ i + j <= Len(ids)
      BY <1>1, <1>3
    <2> QED
      BY <1>2, <1>3, <1>4, <2>1
  <1>7. o - MaxTrim \in 0..o /\ o - MaxTrim <= m /\ m \in 1..o
    BY <1>1, <1>3, <1>5, <1>6
  <1>8. i + m < l
    <2> SUFFICES ASSUME ~(i + m < l) PROVE FALSE
      OBVIOUS
    <2>1. MaxTrim = 1 /\ m = o /\ i + o = l /\ o \in 1..m
      BY <1>1, <1>3, <1>7
    <2>2. ids[i + o] = output[o] /\ all[i + o] = output[o] /\ all[i + o] \in Stops
      BY <1>2, <1>3, <1>5, <2>1 DEF Matches, i
    <2>3. next[l] = ids[l] /\ next[l] \in Other
      <3>1. next[l] \in Other
        BY <2>1 DEF Asked, l
      <3>2. l \in 1..l
        BY <1>1, <1>3, <2>1
      <3> QED
        BY <1>4, <3>1, <3>2
    <2> QED
      BY <2>1, <2>2, <2>3, SessionAssumption DEF Msgs
  <1> QED
    BY <1>1, <1>5, <1>7, <1>8 DEF m, o, i, l, input, output

(* The last answer is in the tokens to its end.                            *)
LEMMA LastMatched ==
    ASSUME NEW record, record.input_ids \in Seq(Tokens), record.output_ids \in Completions,
           NEW ids, ids = record.input_ids \o record.output_ids
    PROVE  LET m == matched(record, ids) IN
           /\ m = Len(record.output_ids) /\ m > 0 /\ Len(record.input_ids) + m = Len(ids)
           /\ Matches(record.input_ids, record.output_ids, ids, m)
  <1> DEFINE input == record.input_ids
             output == record.output_ids
             o == Len(output)
             m == matched(record, ids)
  <1>1. input \in Seq(Tokens) /\ output \in Seq(Tokens) /\ o \in Nat /\ o > 0 /\ Len(input) \in Nat
    BY Completed
  <1>2. /\ m \in 0..o /\ Matches(input, output, ids, m)
        /\ \A n \in 0..o : Matches(input, output, ids, n) => n <= m
    BY <1>1, MatchedIs
  <1>3. Len(ids) = Len(input) + o /\ \A j \in 1..o : ids[Len(input) + j] = output[j]
    <2>1. ids = input \o output
      OBVIOUS
    <2> HIDE DEF input, output
    <2> QED
      BY <1>1, <2>1, TwoParts
  <1> HIDE DEF m, o, input, output
  <1>4. Matches(input, output, ids, o)
    <2>1. \A j \in 1..o : Len(input) + j <= Len(input) + o
      BY <1>1
    <2> QED
      BY <1>3, <2>1 DEF Matches
  <1>5. m = o
    BY <1>1, <1>2, <1>4
  <1> QED
    BY <1>1, <1>2, <1>3, <1>5 DEF m, o, input, output

\* The sample x is a turn of the tokens ids that answers the prompt input with m tokens.
Turned(x, ids, input, m, finish, routed) ==
    /\ x \in SamplesOf(Tokens) /\ TurnOf(x, ids, Len(input)) /\ Len(x.tokens) = Len(input) + m
    /\ RowsOf(x, routed)
    /\ x.status = IF finish = "stop" THEN "COMPLETED" ELSE "TRUNCATED"

(* The sample of a record is a turn of the session.                        *)
LEMMA RecordIsTurn ==
    ASSUME NEW ids \in Seq(Tokens), NEW input \in Seq(Tokens), NEW output \in Seq(Tokens),
           NEW finish \in {"stop", "length"}, Len(input) > 1,
           Len(input) <= Len(ids), Agree(input, ids, Len(input)), NEW m \in 1..Len(output),
           Matches(input, output, ids, m), NEW routed \in BOOLEAN
    PROVE  LET x == _compute_sample_from_openai_record(
                        [input_ids |-> input, output_ids |-> output, finish_reason |-> finish],
                        Len(output) - m, routed)
           IN  Turned(x, ids, input, m, finish, routed)
  <1> DEFINE trim == Len(output) - m
             x == _compute_sample_from_openai_record(
                        [input_ids |-> input, output_ids |-> output, finish_reason |-> finish], trim, routed)
             said == input \o output
             i == Len(input)
             L == i + m
  <1>1. i \in Nat /\ m \in Nat /\ m > 0 /\ Len(output) \in Nat /\ m <= Len(output) /\ Len(ids) \in Nat
    OBVIOUS
  <1>2. trim \in 0..Len(output) /\ Len(output) - trim = m
    BY <1>1
  <1>3. /\ x \in SamplesOf(Tokens)
        /\ x.tokens = SubSeq(said, 1, L) /\ Len(x.tokens) = L
        /\ x.response_length = m /\ Len(x.loss_mask) = m /\ Len(x.rollout_log_probs) = m
        /\ \A j \in 1..m : x.loss_mask[j] = 1 /\ x.rollout_log_probs[j] = output[j]
        /\ Len(x.rollout_routed_experts) = IF routed THEN L - 1 ELSE 0
        /\ x.status = IF finish = "stop" THEN "COMPLETED" ELSE "TRUNCATED"
    <2>1. trim \in 0..Len(output) /\ Len(input) > 1 /\ input \in Seq(Tokens) /\ output \in Seq(Tokens)
          /\ finish \in {"stop", "length"} /\ routed \in BOOLEAN
      BY <1>2
    <2> HIDE DEF trim
    <2>2. Sampled(x, Tokens, input, output, finish, Len(output) - trim, routed)
      BY ONLY <2>1, RecordSample
    <2>3. Sampled(x, Tokens, input, output, finish, m, routed)
      BY <1>2, <2>2
    <2> HIDE DEF x
    <2> QED
      BY <2>3 DEF Sampled
  <1> HIDE DEF x, trim
  <1>4. \A j \in 1..m : i + j <= Len(ids) /\ output[j] = ids[i + j]
    BY DEF Matches
  <1>5. L \in Nat /\ i < L /\ L <= Len(ids) /\ m = L - i
    BY <1>1, <1>4
  <1>6. SubSeq(said, 1, L) = SubSeq(ids, 1, L)
    <2>1. said \in Seq(Tokens) /\ Len(said) = i + Len(output)
          /\ (\A p \in 1..i : said[p] = input[p]) /\ \A j \in 1..Len(output) : said[i + j] = output[j]
      OBVIOUS
    <2> HIDE DEF said, i, L
    <2>2. ASSUME NEW p \in 1..L PROVE said[p] = ids[p]
      <3>1. CASE p \in 1..i
        BY <2>1, <3>1 DEF Agree, i
      <3>2. CASE ~(p \in 1..i)
        <4> DEFINE j == p - i
        <4>1. j \in 1..m /\ j \in 1..Len(output) /\ p = i + j
          BY <1>1, <1>5, <3>2
        <4> HIDE DEF j
        <4> QED
          BY <1>4, <2>1, <4>1
      <3> QED
        BY <3>1, <3>2
    <2>3. L <= Len(said)
      BY <1>1, <1>5, <2>1
    <2> QED
      BY <1>1, <1>5, <2>1, <2>2, <2>3
  <1>7. TurnOf(x, ids, i)
    <2> HIDE DEF L, i, said
    <2> QED
      BY <1>3, <1>4, <1>5, <1>6 DEF TurnOf
  <1>8. RowsOf(x, routed)
    BY <1>3 DEF RowsOf
  <1> QED
    BY <1>3, <1>7, <1>8 DEF x, trim, L, i, Turned

\* m tokens of the answer in record k are in the session's tokens, few are not, and what
\* is in them ends before the prompt next.
Kept(t, k, m) ==
    LET n == Len(t.records)
        ids == token_ids(t)
        record == t.records[k]
        ends == Len(record.input_ids) + m
    IN  /\ m \in 1..Len(record.output_ids)
        /\ Len(record.output_ids) - m <= IF k = n THEN 0 ELSE MaxTrim
        /\ Matches(record.input_ids, record.output_ids, ids, m)
        /\ IF k = n THEN ends = Len(ids) ELSE ends < Len(t.records[k + 1].input_ids)

\* Where the answers of the records begin.
AsksOf(t) == [k \in DOMAIN t.records |-> Len(t.records[k].input_ids)]

SamplesIn(t, routed) == compute_samples_from_openai_records(Collected(t), token_ids(t), routed)

(* The tokens of a session keep all its answers, but for what is trimmed.  *)
LEMMA AnswersKept ==
    ASSUME MaxTrim = 0 \/ ~Truncation, NEW t \in Trajectory, Threaded(t), Spoken(t),
           NEW k \in 1..Len(t.records)
    PROVE  Kept(t, k, matched(Collected(t)[k], token_ids(t)))
  <1> DEFINE n == Len(t.records)
             ids == token_ids(t)
             record == Collected(t)[k]
             m == matched(record, ids)
             in(j) == t.records[j].input_ids
  <1>1. /\ n \in Nat /\ ids \in Seq(Tokens) /\ t.records \in Seq(Record)
        /\ \A j \in 1..n : in(j) \in Seq(Tokens) /\ Asked(in(j)) /\ t.records[j].output_ids \in Completions
        /\ \A j \in 1..n : Len(in(j)) <= Len(ids) /\ Agree(in(j), ids, Len(in(j)))
    BY DEF Threaded, Spoken, Trajectory
  <1>2. record.input_ids = in(k) /\ record.output_ids = t.records[k].output_ids
    BY <1>1 DEF Collected
  <1>5. ASSUME NEW x, NEW i, NEW o, i = t.records[k].input_ids, o = t.records[k].output_ids,
               x \in 1..Len(o), Len(o) - x <= (IF k = n THEN 0 ELSE MaxTrim), Matches(i, o, ids, x),
               IF k = n THEN Len(i) + x = Len(ids) ELSE Len(i) + x < Len(t.records[k + 1].input_ids)
        PROVE  Kept(t, k, x)
    BY <1>5 DEF Kept
  <1>3. CASE k = n
    <2>1. ids = record.input_ids \o record.output_ids
      BY <1>2, <1>3 DEF Threaded
    <2>2. record.input_ids \in Seq(Tokens) /\ record.output_ids \in Completions
      BY <1>1, <1>2
    <2>3. /\ m = Len(record.output_ids) /\ m > 0 /\ Len(record.input_ids) + m = Len(ids)
          /\ Matches(record.input_ids, record.output_ids, ids, m)
      <3> HIDE DEF ids, record
      <3> QED
        BY <2>1, <2>2, LastMatched
    <2>4. Len(record.output_ids) \in Nat
      BY <2>2, Completed
    <2>5. m \in 1..Len(record.output_ids) /\ Len(record.output_ids) - m <= 0
      <3> HIDE DEF m, record
      <3> QED
        BY <2>3, <2>4
    <2>6. Kept(t, k, m)
      <3> HIDE DEF m, record
      <3> QED
        BY <1>2, <1>3, <1>5, <2>3, <2>5
    <2> QED
      BY <2>6
  <1>4. CASE k # n
    <2> DEFINE next == in(k + 1)
    <2>1. k \in 1..(n - 1) /\ k + 1 \in 1..n
      BY <1>1, <1>4
    <2>2. Linked(record.input_ids, record.output_ids, next)
      BY <1>2, <2>1 DEF Threaded
    <2>3. /\ next \in Seq(Tokens) /\ Asked(next) /\ Len(next) <= Len(ids) /\ Agree(next, ids, Len(next))
          /\ record.input_ids \in Seq(Tokens) /\ record.output_ids \in Completions
      BY <1>1, <1>2, <2>1
    <2>4. /\ m \in 1..Len(record.output_ids) /\ Len(record.output_ids) - m <= MaxTrim
          /\ Matches(record.input_ids, record.output_ids, ids, m)
          /\ Len(record.input_ids) + m < Len(next)
      <3> HIDE DEF ids, record, next
      <3> QED
        BY <1>1, <2>2, <2>3, AnswerMatched
    <2>5. Kept(t, k, m)
      <3> HIDE DEF m, record
      <3> QED
        BY <1>2, <1>4, <1>5, <2>4
    <2> QED
      BY <2>5
  <1> QED
    BY <1>3, <1>4

(* The records of a session pass the assertions, and their samples are its *)
(* turns.                                                                  *)
LEMMA RecordsInTurns ==
    ASSUME MaxTrim = 0 \/ ~Truncation, NEW t \in Trajectory, Threaded(t), Spoken(t), NEW routed \in BOOLEAN
    PROVE  /\ RecordsConsumed(Collected(t), token_ids(t), MaxTrim)
           /\ SamplesIn(t, routed) \in Seq(SamplesOf(Tokens)) /\ Len(SamplesIn(t, routed)) = Len(t.records)
           /\ InTurns(SamplesIn(t, routed), token_ids(t), AsksOf(t), routed)
           /\ \A k \in 1..Len(t.records) :
                Len(SamplesIn(t, routed)[k].tokens) = AsksOf(t)[k] + matched(Collected(t)[k], token_ids(t))
  <1> DEFINE n == Len(t.records)
             ids == token_ids(t)
             records == Collected(t)
             all == SamplesIn(t, routed)
             asks == AsksOf(t)
             in(k) == t.records[k].input_ids
             out(k) == t.records[k].output_ids
             m(k) == matched(records[k], ids)
  <1>1. /\ n \in Nat /\ n > 0 /\ ids \in Seq(Tokens) /\ DOMAIN t.records = 1..n
        /\ \A k \in 1..n : in(k) \in Seq(Tokens) /\ Asked(in(k)) /\ out(k) \in Completions
        /\ \A k \in 1..n : Len(in(k)) <= Len(ids) /\ Agree(in(k), ids, Len(in(k)))
    <2>1. t.records \in Seq(Record)
      BY DEF Trajectory
    <2>4. DOMAIN t.records = 1..n
      BY <2>1
    <2>2. /\ n \in Nat /\ n > 0 /\ ids \in Seq(Tokens)
          /\ \A k \in 1..n : Len(in(k)) <= Len(ids) /\ Agree(in(k), ids, Len(in(k)))
          /\ \A k \in 1..n : in(k) \in Seq(Tokens)
      BY DEF Threaded
    <2>3. \A k \in 1..n : Asked(in(k)) /\ out(k) \in Completions
      BY DEF Spoken
    <2> QED
      BY <2>2, <2>3, <2>4
  <1>2. /\ DOMAIN records = 1..n /\ Len(records) = n
        /\ \A k \in 1..n : \E finish \in {"stop", "length"} :
                records[k] = [input_ids |-> in(k), output_ids |-> out(k), finish_reason |-> finish]
        /\ \A k \in 1..n : records[k].input_ids = in(k) /\ records[k].output_ids = out(k)
    <2>1. DOMAIN records = 1..n
      BY <1>1 DEF Collected
    <2>2. Len(records) = n
      <3> HIDE DEF records, n
      <3> QED
        BY <1>1, <2>1
    <2> QED
      BY <1>1, <2>1, <2>2 DEF Collected
  <1>3. \A k \in 1..n : Kept(t, k, m(k))
    BY AnswersKept
  <1>4. ASSUME NEW k \in 1..n
        PROVE  /\ all[k] \in SamplesOf(Tokens) /\ TurnOf(all[k], ids, Len(in(k)))
               /\ Len(all[k].tokens) = Len(in(k)) + m(k) /\ RowsOf(all[k], routed)
    <2> DEFINE input == in(k)
               output == out(k)
               mk == m(k)
    <2>1. PICK finish \in {"stop", "length"} :
                records[k] = [input_ids |-> input, output_ids |-> output, finish_reason |-> finish]
      BY <1>2
    <2>2. /\ input \in Seq(Tokens) /\ output \in Seq(Tokens) /\ Len(input) > 1
          /\ Len(input) <= Len(ids) /\ Agree(input, ids, Len(input))
      BY <1>1, Completed DEF Asked
    <2>3. mk \in 1..Len(output) /\ Matches(input, output, ids, mk)
      BY <1>3 DEF Kept
    <2>4. all[k] = _compute_sample_from_openai_record(
                        [input_ids |-> input, output_ids |-> output, finish_reason |-> finish],
                        Len(output) - mk, routed)
      <3>1. all[k] = _compute_sample_from_openai_record(records[k], Len(records[k].output_ids) - mk, routed)
        BY <1>2 DEF SamplesIn, compute_samples_from_openai_records, trim_count
      <3>2. records[k].output_ids = output
        BY <2>1
      <3> HIDE DEF records, all, mk, input, output
      <3> QED
        BY <2>1, <3>1, <3>2
    <2> DEFINE x == all[k]
    <2> HIDE DEF input, output, mk, ids, x
    <2>5. x \in SamplesOf(Tokens) /\ TurnOf(x, ids, Len(input)) /\ Len(x.tokens) = Len(input) + mk
          /\ RowsOf(x, routed)
      <3>1. Turned(x, ids, input, mk, finish, routed)
        <4>1. ids \in Seq(Tokens)
          BY <1>1 DEF ids
        <4> QED
          BY <2>2, <2>3, <2>4, <4>1, RecordIsTurn DEF x
      <3> QED
        BY <3>1 DEF Turned
    <2> QED
      BY <2>5 DEF x, input, mk, ids
  <1>5. all \in Seq(SamplesOf(Tokens)) /\ Len(all) = n /\ DOMAIN all = 1..n
    <2>1. DOMAIN all = 1..n /\ all = [k \in 1..n |-> all[k]]
      BY <1>2 DEF SamplesIn, compute_samples_from_openai_records
    <2> HIDE DEF all, n
    <2> QED
      BY <1>1, <1>4, <2>1
  <1>6. asks = [k \in 1..n |-> Len(in(k))] /\ asks \in [1..n -> Nat]
    <2>1. asks = [k \in 1..n |-> Len(in(k))]
      BY <1>1 DEF AsksOf
    <2>2. \A k \in 1..n : Len(in(k)) \in Nat
      BY <1>1
    <2> QED
      BY <2>1, <2>2
  <1> HIDE DEF all, asks
  <1>7. InTurns(all, ids, asks, routed)
    <2>1. n \in 1..n /\ Kept(t, n, m(n))
      BY <1>1, <1>3
    <2>2. Len(all[n].tokens) = Len(ids)
      BY <1>4, <2>1, SMTT(30) DEF Kept
    <2>3. ASSUME NEW k \in 1..(n - 1) PROVE Len(all[k].tokens) < asks[k + 1]
      <3>1. k \in 1..n /\ k + 1 \in 1..n /\ k # n
        BY <1>1
      <3>2. Len(in(k)) + m(k) < Len(in(k + 1))
        BY <1>3, <3>1 DEF Kept
      <3>3. Len(all[k].tokens) = Len(in(k)) + m(k)
        BY <1>4, <3>1
      <3>4. asks[k + 1] = Len(in(k + 1))
        BY <1>6, <3>1
      <3> QED
        BY <3>2, <3>3, <3>4
    <2> HIDE DEF n, ids
    <2>4. \A k \in 1..n : TurnOf(all[k], ids, asks[k]) /\ RowsOf(all[k], routed)
      BY <1>4, <1>6
    <2> QED
      BY <1>5, <1>6, <2>2, <2>3, <2>4 DEF InTurns
  <1>8. RecordsConsumed(records, ids, MaxTrim)
    <2>1. \A k \in 1..n : trim_count(records[k], ids) <= IF k = n THEN 0 ELSE MaxTrim
      BY <1>2, <1>3 DEF trim_count, Kept
    <2>2. n \in 1..n /\ Kept(t, n, m(n))
      BY <1>1, <1>3
    <2>3. Len(records[n].input_ids) + matched(records[n], ids) = Len(ids)
      BY <1>2, <2>2 DEF Kept
    <2> HIDE DEF n, ids, records
    <2> QED
      BY <1>2, <2>1, <2>3 DEF RecordsConsumed
  <1> QED
    BY <1>4, <1>5, <1>6, <1>7, <1>8 DEF all, asks

(* What the turns answered is what assistants said, or stopped on.         *)
LEMMA AnswersAreSaid ==
    ASSUME MaxTrim = 0 \/ ~Truncation, NEW t \in Trajectory, Threaded(t), Spoken(t),
           NEW routed \in BOOLEAN, NEW p \in Nat, AnsweredAt(SamplesIn(t, routed), AsksOf(t), Len(t.records), p)
    PROVE  SaidAt(token_ids(t), p)
  <1> DEFINE ids == token_ids(t)
  <1>1. PICK k \in 1..Len(t.records) : p \in (AsksOf(t)[k] + 1)..Len(SamplesIn(t, routed)[k].tokens)
    BY DEF AnsweredAt
  <1> DEFINE input == t.records[k].input_ids
             output == t.records[k].output_ids
             m == matched(Collected(t)[k], ids)
             i == Len(input)
             j == p - i
  <1>2. AsksOf(t)[k] = i /\ Len(SamplesIn(t, routed)[k].tokens) = i + m
    <2>1. t.records \in Seq(Record)
      BY DEF Trajectory
    <2>2. DOMAIN t.records = 1..Len(t.records)
      BY <2>1
    <2>3. AsksOf(t)[k] = i
      BY <2>2 DEF AsksOf
    <2>4. Len(SamplesIn(t, routed)[k].tokens) = AsksOf(t)[k] + matched(Collected(t)[k], token_ids(t))
      BY RecordsInTurns
    <2> QED
      BY <2>3, <2>4
  <1>3. input \in Seq(Tokens) /\ output \in Completions /\ i \in Nat /\ i > 1
    BY DEF Threaded, Spoken, Asked
  <1>4. /\ output[1] \in Asst /\ Len(output) \in {1, 2} /\ (Len(output) = 2 => output[2] \in Stops)
    BY <1>3, Completed
  <1>5. m \in 1..Len(output) /\ Matches(input, output, ids, m)
    BY AnswersKept DEF Kept
  <1> HIDE DEF m, input, output
  <1>6. j \in 1..m /\ p = i + j /\ (j = 1 \/ j = 2) /\ m \in Nat
    <2> DEFINE o == Len(output)
    <2>3. (o = 1 \/ o = 2) /\ m \in 1..o
      BY <1>4, <1>5
    <2> HIDE DEF o
    <2>1. m \in Nat /\ m <= 2
      BY ONLY <2>3
    <2> HIDE DEF i
    <2>2. p \in (i + 1)..(i + m)
      BY <1>1, <1>2
    <2> QED
      BY <1>3, <2>1, <2>2
  <1> HIDE DEF i, j
  <1>7. \A l \in 1..m : output[l] = ids[i + l]
    BY <1>5 DEF Matches, i
  <1>8. CASE j = 1
    <2>1. ids[p] \in Asst
      BY <1>4, <1>6, <1>7, <1>8
    <2> QED
      BY <2>1 DEF SaidAt
  <1>9. CASE j = 2
    <2> DEFINE o == Len(output)
    <2>3. (o = 1 \/ o = 2) /\ m \in 1..o
      BY <1>4, <1>5
    <2>4. i \in Nat /\ i > 1
      BY <1>3 DEF i
    <2> HIDE DEF o
    <2>5. 1 \in 1..m /\ 2 \in 1..m /\ p - 1 = i + 1 /\ p > 1 /\ o = 2
      BY ONLY <1>6, <1>9, <2>3, <2>4
    <2>1. 1 \in 1..m /\ 2 \in 1..m /\ p - 1 = i + 1 /\ p > 1 /\ Len(output) = 2
      BY <2>5 DEF o
    <2>2. ids[p] \in Stops /\ ids[p - 1] \in Asst
      BY <1>4, <1>6, <1>7, <1>9, <2>1
    <2> QED
      BY <2>1, <2>2 DEF SaidAt
  <1> QED
    BY <1>6, <1>8, <1>9

(* Each assistant's token in a prompt is one that a turn before answered.  *)
LEMMA PromptsAnswered ==
    ASSUME MaxTrim = 0 \/ ~Truncation, NEW t \in Trajectory, Threaded(t), Spoken(t),
           NEW k \in 1..Len(t.records), NEW p \in 1..Len(t.records[k].input_ids),
           t.records[k].input_ids[p] \in Asst
    PROVE  \E j \in 1..(k - 1) : p = Len(t.records[j].input_ids) + 1
  <1> DEFINE n == Len(t.records)
             in(x) == t.records[x].input_ids
             out(x) == t.records[x].output_ids
             Before(x, q) == \E j \in 1..(x - 1) : q = Len(in(j)) + 1
             Heard(x) == \A q \in 1..Len(in(x)) : in(x)[q] \in Asst => Before(x, q)
             P == {x \in Nat : x + 1 <= n => Heard(x + 1)}
  <1>1. n \in Nat /\ \A x \in 1..n : in(x) \in Seq(Tokens) /\ out(x) \in Completions
    BY DEF Threaded, Spoken
  <1>2. 0 \in P
    BY DEF Threaded
  <1>3. ASSUME NEW x \in P PROVE x + 1 \in P
    <2> SUFFICES ASSUME (x + 1) + 1 <= n PROVE Heard((x + 1) + 1)
      OBVIOUS
    <2> DEFINE y == x + 1
    <2>1. y \in 1..(n - 1) /\ y \in 1..n /\ y + 1 \in 1..n /\ y \in Nat /\ y > 0 /\ (y + 1) - 1 = y
      BY <1>1
    <2>2. Heard(y)
      BY <1>1, <2>1
    <2>3. Linked(in(y), out(y), in(y + 1))
      BY <2>1 DEF Threaded
    <2>4. /\ in(y) \in Seq(Tokens) /\ out(y) \in Seq(Tokens) /\ in(y + 1) \in Seq(Tokens)
          /\ Len(out(y)) \in {1, 2} /\ (Len(out(y)) = 2 => out(y)[2] \in Stops)
      BY <1>1, <2>1, Completed
    <2> DEFINE input == in(y)
               output == out(y)
               next == in(y + 1)
               all == input \o output
               core == Len(all) - MaxTrim
               i == Len(input)
    <2> HIDE DEF n, y
    <2>5. /\ Len(all) = i + Len(output) /\ i \in Nat
          /\ \A q \in 1..i : all[q] = input[q]
          /\ \A j \in 1..Len(output) : all[i + j] = output[j]
      <3>1. input \in Seq(Tokens) /\ output \in Seq(Tokens)
        BY <2>4
      <3> HIDE DEF input, output
      <3> QED
        BY <3>1, TwoParts
    <2>6. /\ core \in Int /\ core <= Len(all)
          /\ \A q \in 1..core : next[q] = all[q]
          /\ \A q \in 1..Len(next) : core < q => next[q] \notin Asst
      <3>1. core \in Int /\ core <= Len(all)
        <4> HIDE DEF all
        <4>1. Len(all) \in Int /\ MaxTrim \in {0, 1}
          <5>1. Len(output) \in Int
            BY <2>4
          <5> HIDE DEF i, output
          <5> QED
            BY <2>5, <5>1, SessionAssumption
        <4> QED
          BY <4>1
      <3> QED
        BY <2>3, <3>1 DEF Linked
    <2>7. ASSUME NEW q \in 1..Len(next), next[q] \in Asst PROVE Before(y + 1, q)
      <3>1. q \in 1..core /\ q \in Nat /\ q > 0
        <4>1. Len(next) \in Nat
          BY <2>4, SMTT(30)
        <4> HIDE DEF next, core
        <4> QED
          BY <2>6, <2>7, <4>1
      <3>2. all[q] \in Asst /\ q <= i + Len(output)
        <4> HIDE DEF next, core, all, i, output
        <4> QED
          BY <2>5, <2>6, <2>7, <3>1
      <3>3. CASE q <= i
        <4>1. q \in 1..i /\ input[q] \in Asst
          <5> HIDE DEF input, all, i
          <5> QED
            BY <2>5, <3>1, <3>2, <3>3
        <4>2. Before(y, q)
          BY <2>2, <4>1
        <4>3. \A j \in 1..(y - 1) : j \in 1..((y + 1) - 1)
          BY <2>1
        <4> HIDE DEF in
        <4> QED
          BY <4>2, <4>3
      <3>4. CASE ~(q <= i)
        <4> DEFINE j == q - i
        <4>1. j \in 1..Len(output) /\ q = i + j /\ (j = 1 \/ (j = 2 /\ Len(output) = 2))
          <5>1. Len(output) = 1 \/ Len(output) = 2
            BY <2>4
          <5> DEFINE o == Len(output)
          <5>2. (o = 1 \/ o = 2) /\ i \in Nat /\ q \in Nat /\ q <= i + o /\ ~(q <= i)
            BY <2>5, <3>1, <3>2, <3>4, <5>1
          <5> HIDE DEF i, o
          <5>3. j \in 1..o /\ q = i + j /\ (j = 1 \/ (j = 2 /\ o = 2))
            BY ONLY <5>2
          <5> QED
            BY <5>3 DEF o
        <4> HIDE DEF j
        <4>2. output[j] \in Asst
          <5> HIDE DEF all, i, output
          <5> QED
            BY <2>5, <3>2, <4>1
        <4>3. \A z : ~(z \in Asst /\ z \in Stops)
          BY SessionAssumption DEF Msgs
        <4>4. j = 1
          BY <2>4, <4>1, <4>2, <4>3
        <4>5. q = Len(in(y)) + 1 /\ y \in 1..((y + 1) - 1)
          BY <2>1, <4>1, <4>4
        <4> HIDE DEF in
        <4> QED
          BY <4>5
      <3> QED
        BY <3>3, <3>4
    <2> QED
      BY <2>7 DEF y
  <1>4. P = Nat
    <2>1. P \in SUBSET Nat
      OBVIOUS
    <2> HIDE DEF P
    <2> QED
      BY <1>2, <1>3, <2>1, Induction
  <1>5. k - 1 \in Nat /\ (k - 1) + 1 = k /\ k <= n
    BY <1>1
  <1>6. k - 1 \in P
    BY <1>4, <1>5
  <1> HIDE DEF Heard, n
  <1>7. Heard(k)
    BY <1>5, <1>6
  <1> QED
    BY <1>7 DEF Heard

(* All that assistants said a turn answered.                               *)
LEMMA SaidIsAnswered ==
    ASSUME MaxTrim = 0 \/ ~Truncation, NEW t \in Trajectory, Threaded(t), Spoken(t),
           NEW p \in 1..Len(token_ids(t)), token_ids(t)[p] \in Asst, NEW routed \in BOOLEAN
    PROVE  AnsweredAt(SamplesIn(t, routed), AsksOf(t), Len(t.records), p)
  <1> DEFINE n == Len(t.records)
             ids == token_ids(t)
             in(x) == t.records[x].input_ids
             out(x) == t.records[x].output_ids
             m(x) == matched(Collected(t)[x], ids)
  <1>1. /\ n \in Nat /\ n > 0 /\ \A x \in 1..n : in(x) \in Seq(Tokens) /\ out(x) \in Completions
    BY DEF Threaded, Spoken
  <1>2. ids = in(n) \o out(n)
    BY DEF Threaded
  <1>3. \E j \in 1..n : p = Len(in(j)) + 1
    <2> DEFINE input == in(n)
               output == out(n)
               i == Len(input)
               o == Len(output)
    <2>1. /\ input \in Seq(Tokens) /\ output \in Seq(Tokens)
          /\ (o = 1 \/ o = 2) /\ (o = 2 => output[2] \in Stops) /\ n \in 1..n
      BY <1>1, Completed
    <2>2. /\ Len(ids) = i + o /\ i \in Nat
          /\ \A q \in 1..i : ids[q] = input[q]
          /\ \A j \in 1..o : ids[i + j] = output[j]
      <3>1. ids = input \o output
        BY <1>2
      <3> HIDE DEF input, output, ids
      <3> QED
        BY <2>1, <3>1, TwoParts
    <2>3. CASE p <= i
      <3>1. p \in 1..i /\ input[p] \in Asst
        <4> HIDE DEF i, o, input, output
        <4> QED
          BY <2>1, <2>2, <2>3
      <3>2. \E j \in 1..(n - 1) : p = Len(in(j)) + 1
        BY <2>1, <3>1, PromptsAnswered
      <3>3. \A j \in 1..(n - 1) : j \in 1..n
        BY <1>1
      <3> HIDE DEF in
      <3> QED
        BY <3>2, <3>3
    <2>4. CASE ~(p <= i)
      <3> DEFINE j == p - i
      <3>1. j \in 1..o /\ p = i + j /\ (j = 1 \/ (j = 2 /\ o = 2))
        <4>1. (o = 1 \/ o = 2) /\ i \in Nat /\ p \in Nat /\ p <= i + o /\ ~(p <= i)
          <5>1. p \in 1..Len(ids)
            OBVIOUS
          <5> HIDE DEF ids, i, o
          <5> QED
            BY <2>1, <2>2, <2>4, <5>1
        <4> HIDE DEF i, o
        <4> QED
          BY ONLY <4>1
      <3> HIDE DEF j
      <3>2. output[j] \in Asst
        <4> HIDE DEF i, output, o
        <4> QED
          BY <2>2, <3>1
      <3>3. \A z : ~(z \in Asst /\ z \in Stops)
        BY SessionAssumption DEF Msgs
      <3>4. p = Len(in(n)) + 1
        BY <2>1, <3>1, <3>2, <3>3
      <3> HIDE DEF in
      <3> QED
        BY <2>1, <3>4
    <2> QED
      BY <2>3, <2>4
  <1>4. PICK j \in 1..n : p = Len(in(j)) + 1
    BY <1>3
  <1>5. AsksOf(t)[j] = Len(in(j))
    <2>1. t.records \in Seq(Record)
      BY DEF Trajectory
    <2>2. DOMAIN t.records = 1..n
      BY <2>1
    <2> QED
      BY <2>2 DEF AsksOf
  <1>6. Len(SamplesIn(t, routed)[j].tokens) = Len(in(j)) + m(j)
    BY <1>5, RecordsInTurns
  <1>7. m(j) \in 1..Len(out(j)) /\ Len(in(j)) \in Nat /\ Len(out(j)) \in Nat
    <2>1. Kept(t, j, m(j))
      BY AnswersKept
    <2>2. m(j) \in 1..Len(out(j))
      BY <2>1 DEF Kept
    <2>3. out(j) \in Seq(Tokens) /\ in(j) \in Seq(Tokens)
      BY <1>1, Completed
    <2> HIDE DEF m, in, out
    <2> QED
      BY <2>2, <2>3
  <1> DEFINE a == Len(in(j))
             b == m(j)
             c == Len(out(j))
  <1>8. b \in 1..c /\ a \in Nat /\ c \in Nat /\ p = a + 1
    BY <1>4, <1>7
  <1> HIDE DEF a, b, c
  <1>9. p \in (a + 1)..(a + b)
    BY ONLY <1>8
  <1>10. AsksOf(t)[j] = a /\ Len(SamplesIn(t, routed)[j].tokens) = a + b
    BY <1>5, <1>6 DEF a, b
  <1> QED
    BY <1>9, <1>10 DEF AnsweredAt

(* The records of a session are made into samples.                         *)
LEMMA TrajectoryMakesSample ==
    ASSUME MaxTrim = 0 \/ ~Truncation, NEW t \in Trajectory, t.records # <<>>,
           Counted(t), Chained(t), Spoken(t), NEW routed \in BOOLEAN,
           NEW collected, collected = [records |-> Collected(t), accumulated_token_ids |-> token_ids(t)]
    PROVE  MakesSample(collected, routed) /\ CutIsPrefix(collected, routed)
  <1> DEFINE ids == token_ids(t)
             all == SamplesIn(t, routed)
             asks == AsksOf(t)
             n == Len(t.records)
  <1>1. Threaded(t)
    BY RecordsThreaded
  <1>2. /\ RecordsConsumed(Collected(t), ids, MaxTrim)
        /\ all \in Seq(SamplesOf(Tokens)) /\ Len(all) = n /\ InTurns(all, ids, asks, routed)
    BY <1>1, RecordsInTurns
  <1>3. n \in Nat /\ n > 0 /\ ids \in Seq(Tokens) /\ all # <<>>
    <2>1. n \in Nat /\ n > 0 /\ ids \in Seq(Tokens)
      BY <1>1, Zenon DEF Threaded
    <2>2. Len(all) = n
      BY ONLY <1>2
    <2> HIDE DEF all, n, ids
    <2> QED
      BY ONLY <2>1, <2>2
  <1>4. /\ collected.records = Collected(t) /\ collected.accumulated_token_ids = ids
        /\ computed(collected, routed) = all
    BY DEF computed, SamplesIn
  <1>5. AnswerSaid(all, ids, asks)
    BY <1>1, <1>2, AnswersAreSaid, SaidIsAnswered DEF AnswerSaid
  <1> HIDE DEF ids, all, asks, n
  <1>6. MakesSample(collected, routed)
    <2>1. LET whole == merge_samples(all)
          IN  /\ whole # <<>> <=> OnlyLastIsCut(all)
              /\ whole # <<>> => TrainsOnSaid(whole[1], ids)
      BY <1>2, <1>3, <1>5, TurnsMerge
    <2> QED
      BY <1>2, <1>4, <2>1 DEF MakesSample
  <1>7. ASSUME NEW m \in 1..(Len(ids) - 1)
        PROVE  LET samples == truncate_samples_by_total_tokens(all, m)
                   last == samples[Len(samples)]
                   uncut == last = all[Len(samples)]
                   whole == merge_samples(samples)
               IN  samples # <<>> =>
                       /\ \A i \in DOMAIN samples : Len(samples[i].tokens) <= m
                       /\ \A i \in 1..(Len(samples) - 1) : samples[i] = all[i]
                       /\ IsPrefix(last.tokens, ids) /\ last.response_length > 0
                       /\ Len(last.tokens) < m => uncut
                       /\ whole # <<>> <=> OnlyLastIsCut(samples) /\ (routed => uncut \/ Len(samples) = 1)
                       /\ whole # <<>> => TrainsOnSaid(whole[1], last.tokens)
    <2> DEFINE samples == truncate_samples_by_total_tokens(all, m)
    <2>1. CutAt(all, ids, m) /\ CutTurns(samples, Tokens, all, ids, asks)
      BY <1>2, <1>3, TurnsCut
    <2>2. samples # <<>> =>
              /\ \A i \in DOMAIN samples : Len(samples[i].tokens) <= m
              /\ \A i \in 1..(Len(samples) - 1) : samples[i] = all[i]
              /\ IsPrefix(samples[Len(samples)].tokens, ids) /\ samples[Len(samples)].response_length > 0
              /\ Len(samples[Len(samples)].tokens) < m => samples[Len(samples)] = all[Len(samples)]
      BY <2>1 DEF CutAt
    <2> HIDE DEF samples
    <2>3. ASSUME samples # <<>>
          PROVE  LET last == samples[Len(samples)]
                     uncut == last = all[Len(samples)]
                     whole == merge_samples(samples)
                 IN  /\ whole # <<>> <=> OnlyLastIsCut(samples) /\ (routed => uncut \/ Len(samples) = 1)
                     /\ whole # <<>> => TrainsOnSaid(whole[1], last.tokens)
      BY <1>2, <1>3, <1>5, <2>1, <2>2, <2>3, CutMerges
    <2> QED
      BY <2>2, <2>3 DEF samples
  <1>8. CutIsPrefix(collected, routed)
    BY <1>4, <1>7 DEF CutIsPrefix
  <1> QED
    BY <1>6, <1>8

(***************************************************************************)
(* Every record is of a request that asks and of what was answered to it.  *)
(***************************************************************************)
SpokenInv ==
    /\ \A s \in Sessions : Spoken(traj[s])
    /\ \A c \in Clients : InBackend(c) => Asked(req[c].prompt)

\* Agents ask: what they send ends with a message that is not an assistant's.
AgentsAsk == \A msgs \in Requests : msgs # <<>> /\ msgs[Len(msgs)] \in Other

(* A prompt that ends with rendered messages asks when they do.            *)
LEMMA RenderedAsks ==
    ASSUME NEW prefix \in Seq(Tokens), NEW msgs \in Seq(Msgs), msgs # <<>>, msgs[Len(msgs)] \in Other
    PROVE  Asked(prefix \o render_messages(msgs))
  <1> DEFINE r == render_messages(msgs)
             n == Len(msgs)
             k == Len(prefix)
             prompt == prefix \o r
             l == Len(prompt)
  <1>1. n \in Nat /\ n > 0 /\ k \in Nat /\ MaxTrim \in {0, 1}
    BY SessionAssumption
  <1>2. /\ r \in Seq(Tokens) /\ Len(r) = 2 * n
        /\ \A i \in 1..(2 * n) : r[i] = IF (i % 2 = 1) <=> (MaxTrim = 0) THEN msgs[(i + 1) \div 2] ELSE Boundary
    BY RenderTokens
  <1> HIDE DEF r
  <1>3. /\ l = k + Len(r) /\ \A i \in 1..Len(r) : prompt[k + i] = r[i]
    <2>1. r \in Seq(Tokens)
      BY <1>2
    <2> QED
      BY <2>1, TwoParts
  <1> HIDE DEF n, k, prompt, l
  <1>4. /\ 2 * n \in 1..(2 * n) /\ 2 * n - 1 \in 1..(2 * n) /\ (2 * n) % 2 = 0 /\ (2 * n - 1) % 2 = 1
        /\ (2 * n + 1) \div 2 = n /\ ((2 * n - 1) + 1) \div 2 = n
    BY <1>1
  <1>5. /\ r[2 * n] = IF MaxTrim = 0 THEN Boundary ELSE msgs[n]
        /\ r[2 * n - 1] = IF MaxTrim = 0 THEN msgs[n] ELSE Boundary
    BY <1>1, <1>2, <1>4
  <1>6. /\ l > 1 /\ l = k + 2 * n /\ l - 1 = k + (2 * n - 1)
    BY <1>1, <1>2, <1>3
  <1>7. prompt[l] = r[2 * n] /\ prompt[l - 1] = r[2 * n - 1]
    BY <1>2, <1>3, <1>4, <1>6
  <1>8. msgs[n] \in Other
    BY DEF n
  <1>9. Asked(prompt)
    BY <1>1, <1>5, <1>6, <1>7, <1>8 DEF Asked, l
  <1> QED
    BY <1>9 DEF prompt, r

(* A request is prepared with a prompt that asks: the stored messages end  *)
(* with an answer, so that what goes on from them has a message of its own.*)
LEMMA PreparedAsks ==
    ASSUME AgentsAsk, NEW t \in Trajectory, Aligned(t), Spelled(t), NEW h, PreparedOn(t, h)
    PROVE  Asked(h.prompt)
  <1> DEFINE msgs == h.messages
  <1>1. /\ msgs \in Seq(Msgs) /\ msgs # <<>> /\ msgs[Len(msgs)] \in Other
    BY DEF PreparedOn, AgentsAsk
  <1>2. CASE h.prompt = render_messages(msgs)
    <2>1. render_messages(msgs) \in Seq(Tokens) /\ <<>> \in Seq(Tokens)
      BY <1>1, RenderTokens
    <2>2. <<>> \o render_messages(msgs) = render_messages(msgs)
      BY <2>1
    <2> HIDE DEF msgs
    <2>3. Asked(<<>> \o render_messages(msgs))
      BY <1>1, <2>1, RenderedAsks
    <2> QED
      BY <1>2, <2>2, <2>3
  <1>3. CASE /\ t.trajectory_token_ids # <<>> /\ IsExtension(t.messages, msgs)
             /\ h.prompt = merge_tokens(Len(t.messages), msgs, token_ids(t))
    <2> DEFINE n == Len(t.messages)
               prefix == token_ids(t)
               kept == IF MaxTrim = 1 /\ prefix[Len(prefix)] \in Stops
                       THEN SubSeq(prefix, 1, Len(prefix) - 1) ELSE prefix
               new == SubSeq(msgs, n + 1, Len(msgs))
    <2>1. prefix \in Seq(Tokens) /\ t.messages # <<>> /\ t.messages \in Seq(Msgs)
      BY <1>3, LastSpells DEF Trajectory
    <2>2. n \in Nat /\ n > 0 /\ n \in 1..n /\ t.messages[n] \in Asst /\ n <= Len(msgs) /\ msgs[n] = t.messages[n]
      <3>1. n \in Nat /\ n > 0 /\ n \in 1..n
        BY <2>1
      <3>2. t.messages[n] \in Asst
        BY <2>1 DEF Spelled, EndsWithAnswer, AsstPos
      <3>3. n <= Len(msgs) /\ t.messages[n] = msgs[n]
        BY <1>3, <3>1 DEF IsExtension, Agree
      <3> QED
        BY <3>1, <3>2, <3>3
    <2>3. n < Len(msgs)
      <3>1. n # Len(msgs)
        BY <1>1, <2>2, SessionAssumption
      <3>2. Len(msgs) \in Nat
        BY <1>1
      <3> HIDE DEF n, msgs
      <3> QED
        BY <2>2, <3>1, <3>2
    <2>4. new \in Seq(Msgs) /\ new # <<>> /\ new[Len(new)] = msgs[Len(msgs)]
      <3> HIDE DEF n, msgs
      <3>1. /\ new \in Seq(Msgs) /\ Len(new) = Len(msgs) - n
            /\ \A i \in 1..(Len(msgs) - n) : new[i] = msgs[n + i]
        BY <1>1, <2>2, <2>3
      <3>2. Len(msgs) \in Nat /\ Len(msgs) - n \in 1..(Len(msgs) - n) /\ n + (Len(msgs) - n) = Len(msgs)
        BY <1>1, <2>2, <2>3
      <3> HIDE DEF new
      <3>3. new # <<>>
        BY <3>1, <3>2
      <3> QED
        BY <3>1, <3>2, <3>3
    <2>5. kept \in Seq(Tokens)
      <3> HIDE DEF prefix
      <3>1. Len(prefix) \in Nat
        BY <2>1
      <3>2. SubSeq(prefix, 1, Len(prefix) - 1) \in Seq(Tokens)
        <4>1. CASE Len(prefix) = 0
          BY <2>1, <4>1
        <4>2. CASE Len(prefix) # 0
          BY <2>1, <4>2
        <4> QED
          BY <4>1, <4>2
      <3> QED
        BY <2>1, <3>2
    <2>6. h.prompt = kept \o render_messages(new)
      BY <1>3 DEF merge_tokens
    <2> HIDE DEF kept, new, msgs
    <2>7. Asked(kept \o render_messages(new))
      BY <1>1, <2>4, <2>5, RenderedAsks
    <2> QED
      BY <2>6, <2>7
  <1> QED
    BY <1>2, <1>3 DEF PreparedOn

(* Every step keeps it.                                                    *)
LEMMA SpokenStep ==
    ASSUME FewShot = FALSE, AgentsAsk, TokensInv, TokensInv', SpokenInv, [Next]_vars
    PROVE  SpokenInv'
  <1>1. (\A s \in Sessions : TrajectoryEffect(traj[s], traj'[s])) /\ RequestsEffect
    BY StepEffect DEF TokensInv
  <1>2. ASSUME NEW s \in Sessions PROVE Spoken(traj'[s])
    <2> DEFINE t == traj[s]
               u == traj'[s]
    <2>1. t \in Trajectory /\ Spoken(t)
      BY DEF TokensInv, TypeInv, TypeOK, SpokenInv
    <2>2. t.records \in Seq(Record) /\ Len(t.records) \in Nat
      BY <2>1 DEF Trajectory
    <2>3. CASE SameContent(t, u)
      BY <2>1, <2>3 DEF SameContent, Spoken
    <2>4. CASE u = LinearTrajectory
      BY <2>4 DEF LinearTrajectory, Spoken
    <2>5. CASE RolledBack(t, u)
      <3>1. PICK msgs \in Seq(Msgs), end \in 1..Len(t.messages) :
                IsRollbackEnd(t, msgs, end) /\ t.trajectory_token_ids # <<>> /\ u = Rollback(t, msgs, end)
        BY <2>5 DEF RolledBack
      <3> DEFINE k == checkpoint_count(t, msgs)
      <3>2. /\ Len(u.records) = IF k <= Len(t.records) THEN k ELSE Len(t.records)
            /\ \A i \in 1..Len(u.records) : u.records[i] = t.records[i]
        <4> HIDE DEF t, u
        <4> QED
          BY <2>1, <3>1, RollbackFields
      <3>3. k \in Nat \ {0}
        <4> HIDE DEF t, u
        <4> QED
          BY <2>1, <3>1, RollbackType
      <3> HIDE DEF t, u, k
      <3>4. \A i \in 1..Len(u.records) : i \in 1..Len(t.records)
        BY <2>2, <3>2, <3>3
      <3>5. Spoken(u)
        BY <2>1, <3>2, <3>4 DEF Spoken
      <3> QED
        BY <3>5 DEF u
    <2>6. CASE Committed(t, u)
      <3>1. PICK c \in Clients, r \in Handler :
                InBackend(c) /\ Answers(req[c], r) /\ u = update_pretokenized_state(t, r)
        BY <2>6 DEF Committed
      <3>2. r.reply \in Completions /\ Asked(r.prompt)
        BY <3>1 DEF Answers, SpokenInv
      <3> DEFINE n == Len(t.records)
      <3>3. /\ Len(u.records) = n + 1
            /\ u.records[n + 1] = [input_ids |-> r.prompt, output_ids |-> r.reply]
            /\ \A k \in 1..n : u.records[k] = t.records[k]
        <4> HIDE DEF t, u
        <4> QED
          BY <2>1, <3>1, <3>2, UpdateFields
      <3>4. \A k \in 1..Len(u.records) : k \in 1..n \/ k = n + 1
        <4>1. n \in Nat
          BY <2>2
        <4> HIDE DEF n, t, u
        <4> QED
          BY <3>3, <4>1
      <3> HIDE DEF t, u, n
      <3>5. u.records[n + 1].output_ids = r.reply /\ u.records[n + 1].input_ids = r.prompt
        BY <3>3
      <3>6. Spoken(u)
        BY <2>1, <3>2, <3>3, <3>4, <3>5 DEF Spoken, n
      <3> QED
        BY <3>6 DEF u
    <2> QED
      BY <1>1, <2>3, <2>4, <2>5, <2>6 DEF TrajectoryEffect
  <1>3. ASSUME NEW c \in Clients, InBackend(c)'
        PROVE  Asked(req'[c].prompt)
    <2>1. CASE InBackend(c) /\ SameRequest(req[c], req'[c])
      BY <2>1 DEF SpokenInv, SameRequest
    <2>2. CASE req'[c].sid \in Sessions /\ PreparedOn(traj'[req'[c].sid], req'[c])
      <3>1. traj'[req'[c].sid] \in Trajectory /\ Aligned(traj'[req'[c].sid]) /\ Spelled(traj'[req'[c].sid])
        BY <2>2 DEF TokensInv, TypeInv, TypeOK, AlignedInv, CheckpointsAligned, Aligned, SpellInv
      <3> QED
        BY <2>2, <3>1, PreparedAsks
    <2> QED
      BY <1>1, <1>3, <2>1, <2>2 DEF RequestsEffect
  <1> QED
    BY <1>2, <1>3 DEF SpokenInv

(* Whatever retries, rollbacks and late answers went before: the records   *)
(* of a session are turned into samples that merge into the session, cut   *)
(* at any length into its beginning, with exactly what was said trained    *)
(* on. The assertions of the merge fail if and only if a turn before the   *)
(* last was truncated, or the last of several was cut and has the rows of  *)
(* its routing still.                                                      *)
THEOREM SessionsMakeSamples ==
    ASSUME FewShot = FALSE, MaxTrim = 0 \/ ~Truncation, AgentsAsk
    PROVE  Spec => []SessionMakesSample
  <1>1. Init => SpokenInv
    <2>1. Spoken(LinearTrajectory)
      BY DEF LinearTrajectory, Spoken
    <2> QED
      BY <2>1 DEF Init, SpokenInv, InBackend, Idle
  <1>2. TokensInv /\ TokensInv' /\ SpokenInv /\ [Next]_vars => SpokenInv'
    BY SpokenStep
  <1>3. TokensInv /\ SpokenInv => SessionMakesSample
    <2> SUFFICES ASSUME TokensInv, SpokenInv, NEW s \in registry, traj[s].records # <<>>, NEW routed \in BOOLEAN
                 PROVE  MakesSample(collect_records(s), routed) /\ CutIsPrefix(collect_records(s), routed)
      BY DEF SessionMakesSample
    <2> DEFINE t == traj[s]
               collected == collect_records(s)
    <2>1. s \in Sessions /\ t \in Trajectory
      BY DEF TokensInv, TypeInv, TypeOK
    <2>2. Counted(t) /\ Chained(t) /\ Spoken(t)
      BY <2>1 DEF TokensInv, ChainInv, SpokenInv
    <2>3. collected = [records |-> Collected(t), accumulated_token_ids |-> token_ids(t)]
      BY DEF collect_records
    <2> HIDE DEF t, collected
    <2>4. MakesSample(collected, routed) /\ CutIsPrefix(collected, routed)
      <3>1. t.records # <<>>
        BY DEF t
      <3> QED
        BY <2>1, <2>2, <2>3, <3>1, TrajectoryMakesSample
    <2> QED
      BY <2>4 DEF collected
  <1> QED
    BY <1>1, <1>2, <1>3, TokensInvariant, PTL DEF Spec
=============================================================================
