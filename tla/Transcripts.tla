----------------------------- MODULE Transcripts -----------------------------
(***************************************************************************)
(* What the bridge answers when the transcript of one Session is read.     *)
(* Two sources describe the same conversation: the harness's own journal,  *)
(* which lags behind (the records not flushed yet are the "backlog"), and  *)
(* the messages the bridge records from its own stream.  They use          *)
(* different ids for the same message, and which of the two answers a read *)
(* depends on the harness, on who writes the Session and on whether a turn *)
(* is running:                                                             *)
(*   pi      journal, merged with the stream while a turn is running or    *)
(*           failed without the journal knowing;                           *)
(*   codex   journal, the stream while a turn is running;                  *)
(*   omp     journal until the bridge writes, its stream from then on;     *)
(*   claude  the stream, refilled by a replay when the bridge restarts.    *)
(* A message is reduced to its role, its text (the prompt's, or that of    *)
(* the reply it shows a part of), which of the reply's chunks it shows     *)
(* (`n' of them, after the first `from'), its failure and the turn it      *)
(* belongs to, which the code does not know: messages are told apart by    *)
(* what they show.  Its `at' is the order of the conversation, which the   *)
(* clocks of both sources follow.  Loading and its interleavings are in    *)
(* SessionLoads.                                                           *)
(***************************************************************************)
EXTENDS Naturals, Sequences, FiniteSets, SequencesExt

CONSTANTS
  Harnesses,    \* the harnesses a conversation may run on
  Texts,        \* prompt texts
  Answers,      \* reply texts
  MaxTurns,     \* bound: turns of the conversation on each harness
  Chunks,       \* bound: chunks of a whole reply
  MaxLoads,     \* bound: loads of a Session that may still be followed by a snapshot or a restart
  Limit         \* page size (the app asks for 200, then 500)

ASSUME ReadingAssumption ==
  /\ Harnesses \subseteq {"pi", "codex", "omp", "claude"}
  /\ MaxTurns \in [Harnesses -> Nat] /\ MaxLoads \in Nat /\ Chunks \in Nat \ {0} /\ Limit \in Nat \ {0}

VARIABLES
  harness,      \* the profile of this Session
  turns,        \* what was really said: prompt, reply, chunks of it, how many of
                \* those have not come through the stream yet, and end of every turn
  journal,      \* messages in the harness's journal
  backlog,      \* messages the harness has not flushed to it yet
  mem,          \* #messages: what the bridge holds
  snapshot,     \* the messages of the snapshot file
  owned,        \* #ownedSessions and #loaded: the bridge writes this Session
  transient,    \* #transientFailureMessageIDs (pi)
  loads         \* replays so far: each one mints new ids

bridgeVars == <<harness, turns, journal, backlog, mem, snapshot, owned, transient, loads>>

NoText == ""
User(id, t, text) ==
  [id |-> id, role |-> "user", turn |-> t, text |-> text, from |-> 0, n |-> 0, failed |-> "no"]
Piece(id, t, says, from, n, failed) ==
  [id |-> id, role |-> "assistant", turn |-> t, text |-> IF n = 0 THEN NoText ELSE says,
   from |-> from, n |-> n, failed |-> failed]
Reply(id, t, says, n, failed) == Piece(id, t, says, 0, n, failed)

Live(t, role) == <<"live", t, role>>
Journalled(k)  == <<"journal", k>>

Busy == turns # <<>> /\ Last(turns).end = "running"

(* Two messages are one when role, visible text and error agree: when they *)
(* were said is not part of it.                                            *)
Signature(m) == [role |-> m.role, text |-> m.text, from |-> m.from, n |-> m.n, failed |-> m.failed]

At(m) == 2 * m.turn + (IF m.role = "user" THEN 0 ELSE 1)

Ids(s) == {s[i].id : i \in DOMAIN s}

Pick(s, keep) == [k \in 1..Cardinality(keep) |->
                    s[CHOOSE i \in keep : Cardinality({j \in keep : j <= i}) = k]]

ByTime(s) ==
  [k \in DOMAIN s |->
     s[CHOOSE i \in DOMAIN s :
         Cardinality({j \in DOMAIN s : At(s[j]) < At(s[i]) \/ (At(s[j]) = At(s[i]) /\ j <= i)}) = k]]

(* A cached message is dropped when its id is persisted, or when a         *)
(* persisted message with its content is not yet accounted for by an       *)
(* earlier cached one; a cached message recognised by its id accounts for  *)
(* nothing.                                                                *)
MergeExternalHistory(persisted, cached) ==
  LET unknown == {i \in DOMAIN cached : cached[i].id \notin Ids(persisted)}
      same(i) == Cardinality({k \in DOMAIN persisted : Signature(persisted[k]) = Signature(cached[i])})
      rank(i) == Cardinality({j \in unknown : j <= i /\ Signature(cached[j]) = Signature(cached[i])})
  IN ByTime(persisted \o Pick(cached, {i \in unknown : rank(i) > same(i)}))

DuplicateOfPrevious(s, i) ==
  /\ i > 1 /\ s[i].role = "assistant"
  /\ Signature(s[i - 1]) = Signature(s[i])
  /\ s[i].n > 0 \/ s[i].failed # "no"

HealAnyRepeated(s) ==
  Pick(s, {i \in DOMAIN s : ~(s[i].role = "assistant"
                               /\ \E j \in 1..(i - 1) : Signature(s[j]) = Signature(s[i]))})

HealPoisonedSnapshot(s) ==
  Pick(s, {i \in DOMAIN s : ~DuplicateOfPrevious(s, i)})

(* The replay is merged into what the bridge held along a longest common   *)
(* subsequence of signatures, keeping the bridge's envelope of a message   *)
(* both have.  (The common prefix the code cuts off first is matched by    *)
(* the same walk.)  A place is how far each of the two has been gone over. *)
Max2(a, b) == IF a >= b THEN a ELSE b
Places(p, r) == (1..(Len(p) + 1)) \X (1..(Len(r) + 1))

(* Longest common subsequences of what is left at each place, row by row   *)
(* from the end.                                                           *)
Common(p, r) ==
  LET row(below, i) ==
        FoldLeft(LAMBDA done, j : <<IF Signature(p[i]) = Signature(r[j]) THEN 1 + below[j + 1]
                                    ELSE Max2(below[j], done[1])>> \o done,
                 <<0>>, [k \in DOMAIN r |-> Len(r) + 1 - k])
      rows == FoldLeft(LAMBDA done, i : <<row(done[1], i)>> \o done,
                       <<[j \in 1..(Len(r) + 1) |-> 0]>>, [k \in DOMAIN p |-> Len(p) + 1 - k])
  IN [at \in Places(p, r) |-> rows[at[1]][at[2]]]

Walk(p, r) ==
  LET common == Common(p, r)
      walk[at \in Places(p, r)] ==
        LET i == at[1]
            j == at[2]
        IN IF i > Len(p) THEN SubSeq(r, j, Len(r))
           ELSE IF j > Len(r) THEN SubSeq(p, i, Len(p))
           ELSE IF Signature(p[i]) = Signature(r[j]) THEN <<p[i]>> \o walk[<<i + 1, j + 1>>]
           ELSE IF common[<<i + 1, j>>] >= common[<<i, j + 1>>]
                THEN <<p[i]>> \o walk[<<i + 1, j>>]
           ELSE <<r[j]>> \o walk[<<i, j + 1>>]
  IN walk

MergeReplay(before, replayed) ==
  HealPoisonedSnapshot(Walk(HealPoisonedSnapshot(before), HealPoisonedSnapshot(replayed))[<<1, 1>>])

-----------------------------------------------------------------------------
(* Taking the writer: #loadSession of each profile. *)

Replayed == [k \in DOMAIN journal |-> [journal[k] EXCEPT !.id = <<"replay", loads, k>>]]

LoadedMessages ==
  CASE harness = "omp"    -> journal
    [] harness = "claude" -> MergeReplay(mem, Replayed)
    [] OTHER              -> MergeReplay(MergeExternalHistory(journal, mem), Replayed)

(* A temporary failure is superseded once the journal has an error in the  *)
(* last turn that starts with the same prompt at the nearest time.         *)
PersistedFailure(id) ==
  LET f == CHOOSE i \in DOMAIN mem : mem[i].id = id
      before == {i \in 1..(f - 1) : mem[i].role = "user"}
      prompt == mem[CHOOSE i \in before : \A j \in before : j <= i]
      distance(k) == IF journal[k].turn > prompt.turn THEN journal[k].turn - prompt.turn
                     ELSE prompt.turn - journal[k].turn
      same == {k \in DOMAIN journal : Signature(journal[k]) = Signature(prompt)}
      nearest == {k \in same : \A l \in same : distance(k) <= distance(l)}
      start == CHOOSE k \in nearest : \A l \in nearest : l <= k
  IN \/ id \notin Ids(mem)
     \/ /\ before # {} /\ same # {}
        /\ \E k \in (start + 1)..Len(journal) :
             /\ journal[k].failed # "no"
             /\ \A l \in (start + 1)..k : journal[l].role # "user"

FailedTurnMessages(s, ids) ==
  Pick(s, {i \in DOMAIN s :
             \E f \in i..Len(s) : /\ s[f].id \in ids
                                  /\ \A j \in (i + 1)..f : s[j].role # "user"})

(* messages() for pi: the journal, plus what only the bridge knows. *)
PiMessages(superseded) ==
  LET cached == Pick(mem, {i \in DOMAIN mem : mem[i].id \notin superseded})
      pending == FailedTurnMessages(cached, transient \ superseded)
  IN IF Busy THEN MergeExternalHistory(journal, cached)
     ELSE IF pending # <<>> THEN MergeExternalHistory(journal, pending)
     ELSE journal

-----------------------------------------------------------------------------
(* Pages.  A cursor is an offset into the journal or a message id. *)

NoCursor == [kind |-> "none", at |-> <<>>]
Offset(k) == [kind |-> "offset", at |-> <<k>>]
Message(id) == [kind |-> "id", at |-> id]

PageEndingAt(s, end, cursors) ==
  LET start == Max2(0, end - Limit)
  IN [messages |-> SubSeq(s, start + 1, end),
      before   |-> IF start > 0 THEN cursors[start + 1] ELSE NoCursor,
      more     |-> start > 0]

(* readPiPage, readCodexPage: an offset cursor or none. *)
OffsetPage(cursor) ==
  PageEndingAt(journal, IF cursor.kind = "none" THEN Len(journal) ELSE cursor.at[1] - 1,
               [k \in DOMAIN journal |-> Offset(k)])

(* Pages of the stream, and of omp's journal: a cursor that names no       *)
(* message of the list reads as none, so the newest page is answered.      *)
IdPage(s, cursor) ==
  LET named == {i \in DOMAIN s : Message(s[i].id) = cursor}
  IN PageEndingAt(s, IF named = {} THEN Len(s) ELSE (CHOOSE i \in named : TRUE) - 1,
                  [k \in DOMAIN s |-> Message(s[k].id)])

JournalPageAvailable == harness \in {"pi", "codex"} \/ (harness = "omp" /\ ~owned)

FromJournal(cursor) ==
  /\ JournalPageAvailable /\ ~Busy /\ transient = {}
  /\ harness = "omp" \/ cursor.kind # "id"

(* messages() as the read leaves the bridge: pi's merge, the load of a     *)
(* Session the bridge does not write or has not loaded, or what is held.   *)
Refreshed ==
  LET held == [mem |-> mem, owned |-> owned, transient |-> transient, loads |-> loads]
      superseded == {id \in transient : PersistedFailure(id)}
  IN IF harness = "pi" THEN [held EXCEPT !.mem = PiMessages(superseded), !.transient = @ \ superseded]
     ELSE IF owned THEN held
     ELSE CASE harness = "claude" ->
                 [held EXCEPT !.mem = LoadedMessages, !.owned = TRUE, !.loads = @ + 1]
            [] harness = "omp" -> [held EXCEPT !.mem = journal]
            [] OTHER           -> [held EXCEPT !.mem = MergeExternalHistory(journal, mem)]

MessagePage(cursor) ==
  IF ~FromJournal(cursor) THEN IdPage(Refreshed.mem, cursor)
  ELSE IF harness = "omp" THEN IdPage(journal, cursor)
  ELSE OffsetPage(cursor)

(* What answering the read changes in the bridge. *)
AnswerPage(cursor) ==
  /\ IF FromJournal(cursor) THEN UNCHANGED <<mem, owned, transient, loads>>
     ELSE LET read == Refreshed
          IN mem' = read.mem /\ owned' = read.owned /\ transient' = read.transient /\ loads' = read.loads
  /\ UNCHANGED <<harness, turns, journal, backlog, snapshot>>

-----------------------------------------------------------------------------
(* The turns. *)

BridgeInit ==
  /\ harness \in Harnesses
  /\ turns = <<>> /\ journal = <<>> /\ backlog = <<>> /\ mem = <<>> /\ snapshot = <<>>
  /\ owned = FALSE /\ transient = {} /\ loads = 0

InJournal(s, m) == Append(s, [m EXCEPT !.id = Journalled(Len(journal) + Len(backlog) + 1)])

(* prompt(), #startTurn and #recordPrompt: the Session is loaded on the    *)
(* first prompt this bridge sends, and the prompt recorded at once.  (PI   *)
(* has written a turn's records by the time it takes the next prompt.)     *)
(* What is late of a reply has come through by then: a chunk that comes    *)
(* later still would be put into the next turn's envelope.                 *)
Prompt(text, says) ==
  /\ ~Busy /\ Len(turns) < MaxTurns[harness]
  /\ turns # <<>> => Last(turns).held = 0
  /\ harness = "pi" => backlog = <<>>
  /\ LET t == Len(turns) + 1
         prompt == User(Live(t, "user"), t, text)
     IN /\ turns' = Append(turns, [text |-> text, says |-> says, n |-> 0, held |-> 0, end |-> "running"])
        /\ mem' = Append(IF owned THEN mem ELSE LoadedMessages, prompt)
        /\ backlog' = InJournal(backlog, prompt)
  /\ owned' = TRUE
  /\ loads' = IF owned \/ harness = "omp" THEN loads ELSE loads + 1
  /\ UNCHANGED <<harness, journal, snapshot, transient>>

SayToTheLast(n, failed) ==
  LET replies == {i \in DOMAIN mem : mem[i].role = "assistant"}
      last == CHOOSE i \in replies : \A j \in replies : j <= i
      says == Last(turns).says
  IN mem' = IF replies # {}
            THEN [mem EXCEPT ![last] = Reply(@.id, @.turn, says, n, failed)]
            ELSE Append(mem, Reply(Live(Len(turns), "assistant"), Len(turns), says, n, failed))

Say(n, failed) ==
  LET t == Len(turns)
      id == Live(t, "assistant")
      reply == Reply(id, t, Last(turns).says, n, failed)
  IN mem' = IF id \in Ids(mem)
            THEN [i \in DOMAIN mem |-> IF mem[i].id = id THEN reply ELSE mem[i]]
            ELSE Append(mem, reply)

(* An agent_message_chunk: it extends the turn's own envelope. *)
Stream ==
  /\ Busy /\ Last(turns).n < Chunks
  /\ turns' = [turns EXCEPT ![Len(turns)].n = @ + 1]
  /\ Say(Last(turns).n + 1, "no")
  /\ UNCHANGED <<harness, journal, backlog, snapshot, owned, transient, loads>>

(* The turn's answer, which may overtake the end of the reply.  PI has     *)
(* journalled a finished reply by then: what it may answer before it is    *)
(* journalled is a failure.                                                *)
TurnEnds ==
  /\ Busy
  /\ LET t == Len(turns)
         late == Chunks - Last(turns).n
         records == InJournal(backlog, Reply(Live(t, "assistant"), t, Last(turns).says, Chunks, "no"))
     IN /\ turns' = [turns EXCEPT ![t].n = Chunks, ![t].held = late,
                                  ![t].end = IF late = 0 THEN "done" ELSE "late"]
        /\ IF harness = "pi" THEN journal' = journal \o records /\ backlog' = <<>>
           ELSE backlog' = records /\ UNCHANGED journal
  /\ UNCHANGED <<harness, mem, snapshot, owned, transient, loads>>

(* The end of the reply that the turn's answer has overtaken: the turn's   *)
(* envelope is closed, so it gets one of its own.                          *)
LateChunks ==
  /\ ~Busy /\ turns # <<>> /\ Last(turns).held > 0
  /\ LET t == Len(turns)
         late == Last(turns).held
     IN /\ turns' = [turns EXCEPT ![t].held = 0]
        /\ mem' = Append(mem, Piece(Live(t, "late"), t, Last(turns).says, Chunks - late, late, "no"))
  /\ UNCHANGED <<harness, journal, backlog, snapshot, owned, transient, loads>>

(* #recordTurnFailure: on the streamed envelope, or on one of its own.  PI *)
(* and OMP journal a failure too, in words of their own.                   *)
TurnFails ==
  /\ Busy /\ Last(turns).n < Chunks
  /\ LET t == Len(turns)
         n == Last(turns).n
     IN /\ turns' = [turns EXCEPT ![t].end = "failed"]
        /\ Say(n, "live")
        /\ backlog' = IF harness \in {"pi", "omp"}
                      THEN InJournal(backlog, Reply(Live(t, "assistant"), t, Last(turns).says, n, "journal"))
                      ELSE backlog
        /\ transient' = IF harness = "pi" THEN transient \cup {Live(t, "assistant")} ELSE transient
  /\ UNCHANGED <<harness, journal, snapshot, owned, loads>>

(* The harness writes what it has held back.  (Where the journal is read   *)
(* only after a restart, the part that restart finds written stands for    *)
(* every write before it.)                                                 *)
Flush ==
  /\ backlog # <<>> /\ harness \in {"pi", "codex"}
  /\ journal' = journal \o backlog
  /\ backlog' = <<>>
  /\ UNCHANGED <<harness, turns, mem, snapshot, owned, transient, loads>>

(* A turn another client of the harness runs, while the bridge does not    *)
(* write the Session.                                                      *)
Outside(text, says) ==
  /\ ~owned /\ backlog = <<>> /\ Len(turns) < MaxTurns[harness]
  /\ LET t == Len(turns) + 1
         k == Len(journal)
     IN /\ turns' = Append(turns, [text |-> text, says |-> says, n |-> Chunks, held |-> 0, end |-> "done"])
        /\ journal' = journal \o <<User(Journalled(k + 1), t, text),
                                   Reply(Journalled(k + 2), t, says, Chunks, "no")>>
  /\ UNCHANGED <<harness, backlog, mem, snapshot, owned, transient, loads>>

(* The write of #persistSnapshot, some time after the change that asked    *)
(* for it, or never: a turn may be running by then.  A harness whose       *)
(* journal owns the transcript keeps no messages there.                    *)
KeepsSnapshot == harness = "claude" \/ (harness = "codex" /\ owned)

Persist ==
  /\ loads <= MaxLoads
  /\ mem' = HealPoisonedSnapshot(mem)
  /\ snapshot' = IF KeepsSnapshot THEN HealPoisonedSnapshot(mem) ELSE <<>>
  /\ UNCHANGED <<harness, turns, journal, backlog, owned, transient, loads>>

(* The bridge and its adapter restart: the harness kept a part of what it  *)
(* had not flushed, the bridge the snapshot it wrote last.  A turn is lost *)
(* with its records, and torn when the snapshot shows it otherwise than    *)
(* they do: a part of the reply, or no failure.                            *)
Torn(t) ==
  LET replies == {i \in DOMAIN snapshot : snapshot[i].role = "assistant" /\ snapshot[i].turn = t}
  IN IF turns[t].end = "failed"
     THEN harness \in {"claude", "codex"} /\ \A i \in replies : snapshot[i].failed = "no"
     ELSE \E i \in replies : snapshot[i].n < turns[t].n

BridgeRestart ==
  /\ owned /\ loads <= MaxLoads
  /\ \E k \in 0..Len(backlog) :
       LET lost(t) == \/ turns[t].end = "running"
                      \/ \E i \in (k + 1)..Len(backlog) : backlog[i].turn = t
           ended(t) == IF Torn(t) THEN "torn" ELSE IF lost(t) THEN "lost"
                       ELSE IF turns[t].end = "late" THEN "done" ELSE turns[t].end
       IN /\ journal' = journal \o SubSeq(backlog, 1, k)
          /\ turns' = [t \in DOMAIN turns |-> [turns[t] EXCEPT !.held = 0, !.end = ended(t)]]
  /\ backlog' = <<>>
  /\ mem' = snapshot
  /\ owned' = FALSE /\ transient' = {}
  /\ UNCHANGED <<harness, snapshot, loads>>
=============================================================================
