--------------------------- MODULE ConversationView ---------------------------
(***************************************************************************)
(* The open conversation of the app over the transcript the bridge answers *)
(* with.  The app keeps one feed of messages: the newest page is merged    *)
(* into it after every event, older pages are put in front of it, and it   *)
(* is never cleared.  The turns it shows are its own (the prompts it sent, *)
(* and those the first page and older pages revealed); each is matched to  *)
(* the messages after the user message with its text.                      *)
(***************************************************************************)
EXTENDS Transcripts

CONSTANTS
  Paced,        \* harnesses on which the app reads every change before the next
  Repeats,      \* harnesses on which the user one text may be sent twice
  BusyPaging    \* harnesses on which the user pages back while a turn runs

ASSUME ViewAssumption ==
  Paced \subseteq Harnesses /\ Repeats \subseteq Harnesses /\ BusyPaging \subseteq Harnesses

VARIABLES
  open,         \* the conversation is mounted
  feed,         \* messages, before, hasMore; None before the first page
  tail,         \* the newest page on its way to the app, or None
  older,        \* an older page on its way, or None
  runs,         \* entry.turns: text, native id if known, and the real turn
  piTail,       \* entry.piTailMessages
  stale         \* the bridge changed since the last tail read was answered

viewVars == <<open, feed, tail, older, runs, piTail, stale>>
conversationVars == <<bridgeVars, viewVars>>

None == [messages |-> <<>>, before |-> NoCursor, more |-> FALSE, none |-> TRUE]
Some(page) == [messages |-> page.messages, before |-> page.before, more |-> page.more, none |-> FALSE]

(* mergeLatestMessagePage: known messages are replaced in place, unless a  *)
(* reply would get shorter, and new ones appended.                         *)
Regresses(current, incoming) ==
  /\ current.role = "assistant" /\ incoming.role = "assistant"
  /\ incoming.n = 0 \/ (incoming.text = current.text /\ incoming.from = current.from)
  /\ incoming.n < current.n

Others(page, existing) == Pick(page, {i \in DOMAIN page : page[i].id \notin Ids(existing)})

MergeLatest(existing, latest) ==
  LET incoming(m) == latest[CHOOSE i \in DOMAIN latest : latest[i].id = m.id]
      kept(m) == m.id \notin Ids(latest) \/ Regresses(m, incoming(m))
  IN [i \in DOMAIN existing |-> IF kept(existing[i]) THEN existing[i] ELSE incoming(existing[i])]
       \o Others(latest, existing)

AppendOlder(existing, page) == existing \o Others(page, existing)
AllInFront(existing, page) == page \o existing

PrependOlder(existing, page) ==
  Others(page, existing) \o existing

(* stabilizePiTailMessageIDs: a message of the new tail takes the id of    *)
(* the one message of the previous tail it must be, matched one to one by  *)
(* a key, first prompts, then whole replies, then failures by their prompt.*)
StabilizeBy(previous, next, had, has) ==
  LET gone == {i \in DOMAIN previous : previous[i].id \notin Ids(next) /\ had[i] # <<>>}
      new == {i \in DOMAIN next : next[i].id \notin Ids(previous) /\ has[i] # <<>>}
      was(i) == {j \in gone : had[j] = has[i]}
      alone(i) == {j \in new : has[j] = has[i]} = {i}
  IN [i \in DOMAIN next |->
        IF i \in new /\ alone(i) /\ Cardinality(was(i)) = 1
        THEN [next[i] EXCEPT !.id = previous[CHOOSE j \in was(i) : TRUE].id] ELSE next[i]]

UserKeys(s) == [i \in DOMAIN s |-> IF s[i].role = "user" THEN <<s[i].text>> ELSE <<>>]
ReplyKeys(s) ==
  [i \in DOMAIN s |-> IF s[i].role = "assistant" /\ s[i].failed = "no" /\ s[i].n > 0
                      THEN <<s[i].text, s[i].from, s[i].n>> ELSE <<>>]
FailureKeys(s) ==
  LET users(i) == {j \in 1..(i - 1) : s[j].role = "user"}
  IN [i \in DOMAIN s |-> IF s[i].failed # "no" /\ users(i) # {}
                         THEN s[CHOOSE j \in users(i) : \A l \in users(i) : l <= j].id ELSE <<>>]

AsRead(page) == page.messages

Stabilized(page) ==
  IF harness # "pi" \/ piTail = <<>> THEN page.messages
  ELSE LET read == page.messages
           prompts == StabilizeBy(piTail, read, UserKeys(piTail), UserKeys(read))
           replies == StabilizeBy(piTail, prompts, ReplyKeys(piTail), ReplyKeys(prompts))
       IN StabilizeBy(piTail, replies, FailureKeys(piTail), FailureKeys(replies))

(* captureUserTurns: the turns a page reveals, in the order of their time. *)
Captured(messages) ==
  LET known == {runs[i].native : i \in DOMAIN runs}
      found == {i \in DOMAIN messages : messages[i].role = "user" /\ messages[i].id \notin known}
      run(m) == [text |-> m.text, native |-> m.id, turn |-> m.turn]
      revealed == [k \in 1..Cardinality(found) |-> run(Pick(messages, found)[k])]
      all == revealed \o runs
  IN [k \in DOMAIN all |->
        all[CHOOSE i \in DOMAIN all :
              Cardinality({j \in DOMAIN all : all[j].turn < all[i].turn
                                              \/ (all[j].turn = all[i].turn /\ j <= i)}) = k]]
-----------------------------------------------------------------------------
(* The timeline: turnsForRunPrompts and assistantForTurn. *)

NativeTurn(u) == {i \in DOMAIN feed.messages :
                    /\ i > u /\ feed.messages[i].role = "assistant"
                    /\ \A j \in (u + 1)..i : feed.messages[j].role # "user"}

(* The n-th of the app's turns with a text is the n-th native one with it. *)
MatchedTurn(r) ==
  {u \in DOMAIN feed.messages :
     /\ feed.messages[u].role = "user" /\ feed.messages[u].text = runs[r].text
     /\ Cardinality({v \in 1..u : feed.messages[v].role = "user" /\ feed.messages[v].text = runs[r].text})
          = Cardinality({q \in 1..r : runs[q].text = runs[r].text})}

Shown(r) == UNION {NativeTurn(u) : u \in MatchedTurn(r)}
-----------------------------------------------------------------------------
ViewInit ==
  /\ BridgeInit
  /\ open = FALSE /\ feed = None /\ tail = None /\ older = None
  /\ runs = <<>> /\ piTail = <<>> /\ stale = TRUE

(* What the app has not read yet, what it sent since it was mounted and    *)
(* what it holds of PI under an id of the stream fits in one page (a page  *)
(* has 200 messages or more).                                              *)
Unread == {t \in DOMAIN turns :
             ~\E i \in DOMAIN feed.messages :
                LET m == feed.messages[i]
                IN m.turn = t /\ m.role = "assistant" /\ m.from + m.n = turns[t].n
                   /\ (m.failed # "no") = (turns[t].end = "failed")}
Sent == {runs[r].turn : r \in {q \in DOMAIN runs : runs[q].native[1] = "none"}}
Streamed == {feed.messages[i].turn : i \in {j \in DOMAIN feed.messages :
                                              harness = "pi" /\ feed.messages[j].id[1] = "live"}}
MessagesOf(t) == IF turns[t].end = "late" THEN 3 ELSE 2
Room == open => MapThenSumSet(MessagesOf, Unread \cup Sent \cup Streamed) + 3 <= Limit

(* A text is sent again only where `Repeats' allows it, and only when the  *)
(* app knows every turn that has it; another client never repeats one.     *)
Fresh(text) == \A t \in DOMAIN turns : turns[t].text # text
MaySay(text) ==
  Fresh(text) \/ /\ harness \in Repeats
                 /\ \A t \in DOMAIN turns :
                      turns[t].text = text => \E r \in DOMAIN runs : runs[r].turn = t

Bridge ==
  /\ harness \in Paced /\ open => tail.none /\ ~stale
  /\ \/ Stream \/ TurnEnds \/ LateChunks \/ TurnFails \/ Flush
     \/ /\ Room
        /\ \E text \in Texts, says \in Answers : Fresh(text) /\ Outside(text, says)
  /\ stale' = TRUE
  /\ UNCHANGED <<open, feed, tail, older, runs, piTail>>

(* The write of a snapshot says nothing to the app. *)
PersistBehind == Persist /\ UNCHANGED viewVars

(* A restart while the conversation is mounted is left out: see the README.*)
RestartBehind ==
  /\ ~open
  /\ BridgeRestart
  /\ stale' = TRUE
  /\ UNCHANGED <<open, feed, tail, older, runs, piTail>>

(* An accepted prompt: appendAcceptedTurn adds a turn without a native id. *)
Send(text, says) ==
  /\ open /\ ~feed.none /\ Room
  /\ MaySay(text)
  /\ Prompt(text, says)
  /\ runs' = Append(runs, [text |-> text, native |-> <<"none", Len(turns) + 1>>, turn |-> Len(turns) + 1])
  /\ stale' = TRUE
  /\ UNCHANGED <<open, feed, tail, older, piTail>>

(* Mounting asks for the first page at once. *)
Mount ==
  /\ ~open
  /\ open' = TRUE /\ stale' = FALSE
  /\ AnswerPage(NoCursor)
  /\ tail' = Some(MessagePage(NoCursor))
  /\ UNCHANGED <<feed, older, runs, piTail>>

(* Leaving disposes of the adapter's entry and of the feed. *)
Unmount ==
  /\ open
  /\ open' = FALSE /\ feed' = None /\ tail' = None /\ older' = None
  /\ runs' = <<>> /\ piTail' = <<>> /\ stale' = TRUE
  /\ UNCHANGED bridgeVars

(* refreshCurrentTail: one in flight at a time, and none that would answer *)
(* what the app has.                                                       *)
ReadTail ==
  /\ open /\ tail.none /\ stale
  /\ AnswerPage(NoCursor)
  /\ tail' = Some(MessagePage(NoCursor))
  /\ stale' = FALSE
  /\ UNCHANGED <<open, feed, older, runs, piTail>>

LandTail ==
  /\ ~tail.none
  /\ LET messages == Stabilized(tail)
     IN /\ piTail' = IF harness = "pi" THEN messages ELSE piTail
        /\ runs' = IF feed.none THEN Captured(messages) ELSE runs
        /\ feed' = IF feed.none THEN [tail EXCEPT !.messages = messages]
                   ELSE [feed EXCEPT !.messages = MergeLatest(@, messages),
                                     !.before = IF @.kind # "none" THEN @ ELSE tail.before,
                                     !.more = @ \/ tail.more]
  /\ tail' = None
  /\ UNCHANGED <<bridgeVars, open, older, stale>>

ReadOlder ==
  /\ open /\ older.none /\ feed.more /\ feed.before.kind # "none"
  /\ ~Busy \/ harness \in BusyPaging
  /\ AnswerPage(feed.before)
  /\ older' = Some(MessagePage(feed.before))
  /\ UNCHANGED <<open, feed, tail, runs, piTail, stale>>

LandOlder ==
  /\ ~older.none
  /\ runs' = Captured(older.messages)
  /\ feed' = [older EXCEPT !.messages = PrependOlder(feed.messages, @)]
  /\ older' = None
  /\ UNCHANGED <<bridgeVars, open, tail, piTail, stale>>

ViewNext ==
  \/ Bridge \/ PersistBehind \/ RestartBehind
  \/ \E text \in Texts, says \in Answers : Send(text, says)
  \/ Mount \/ Unmount \/ ReadTail \/ LandTail \/ ReadOlder \/ LandOlder

ViewSpec == ViewInit /\ [][ViewNext]_conversationVars
-----------------------------------------------------------------------------
(* The turn is over and the reply has come. *)
Whole(t) == turns[t].end \in {"done", "failed", "late"} /\ turns[t].held = 0

(* Messages are told apart by what they show: on PI, where all are shown   *)
(* under an id of the stream first, no two replies are alike and none is   *)
(* torn apart; and where a restart has torn a turn, nothing in the         *)
(* conversation is said twice.  The README says what is shown otherwise.   *)
ToldApart ==
  LET torn == \E t \in DOMAIN turns : turns[t].end = "torn"
  IN \A t, u \in DOMAIN turns :
       /\ harness = "pi" => turns[t].end # "late"
       /\ t # u => /\ harness = "pi" \/ torn => turns[t].says # turns[u].says
                   /\ torn => turns[t].text # turns[u].text

(* The newest read has landed, the turn is over and the journal complete   *)
(* where it is read.                                                       *)
Settled ==
  /\ open /\ ~feed.none /\ tail.none /\ older.none /\ ~stale /\ ~Busy /\ ToldApart
  /\ harness \in {"pi", "codex"} => backlog = <<>>

(* Messages that show what turn t said once: no other reply, each of its   *)
(* chunks in one of them, and its failure, if it failed.                   *)
ShowOnce(t, shown) ==
  /\ shown # {}
  /\ \A m \in shown : m.n > 0 => m.text = turns[t].says
  /\ UNION {(m.from + 1)..(m.from + m.n) : m \in shown} = 1..turns[t].n
  /\ MapThenSumSet(LAMBDA m : m.n, shown) = turns[t].n
  /\ Cardinality({m \in shown : m.failed # "no"}) = IF turns[t].end = "failed" THEN 1 ELSE 0

(* Once all is read, every turn of the app shows the reply of its own      *)
(* turn, or its failure, whole and once: ids differ between the stream,    *)
(* the journal and a replay, pages of all three end in one feed, and two   *)
(* turns may have got the same answer.                                     *)
EachTurnShowsItsReply ==
  Settled => \A r \in DOMAIN runs :
    Whole(runs[r].turn) => ShowOnce(runs[r].turn, {feed.messages[i] : i \in Shown(r)})

(* What a message shows was said in its turn: the prompt, no more of that  *)
(* turn's own reply than there is, and a failure only where the turn       *)
(* failed, or was lost with what the harness had not flushed.              *)
Said(m) ==
  /\ m.turn \in DOMAIN turns
  /\ m.role = "user" => m.text = turns[m.turn].text
  /\ m.role = "assistant" => m.from + m.n <= turns[m.turn].n
  /\ m.n > 0 => m.text = turns[m.turn].says
  /\ m.failed # "no" => turns[m.turn].end \in {"failed", "torn", "lost"}

EachIdOnce(s) == \A i, j \in DOMAIN s : s[i].id = s[j].id => i = j

(* The feed has no two messages of one id (the rows of the list would get  *)
(* one key), and invents nothing: through merges of stream, journal and    *)
(* replay, restarts, pages read at different times and the ids that        *)
(* messages of a new tail take from those of the previous one.             *)
FeedIsFaithful ==
  EachIdOnce(feed.messages) /\ \A i \in DOMAIN feed.messages : Said(feed.messages[i])

(* While the conversation is open nothing leaves the feed or changes its   *)
(* place in it, and no reply of a turn gets shorter, whatever page lands.  *)
FeedOnlyGrows ==
  [][open /\ open' =>
       \E front \in 0..Len(feed'.messages) : \A i \in DOMAIN feed.messages :
         /\ i + front \in DOMAIN feed'.messages
         /\ LET was == feed.messages[i]
                is == feed'.messages[i + front]
            IN /\ is.id = was.id
               /\ (was.role = "assistant" /\ is.role = "assistant"
                   /\ is.turn = was.turn /\ is.from = was.from) => was.n <= is.n
    ]_conversationVars

(* Once all is read and paged back to the beginning, the feed is the whole *)
(* conversation in its order: every turn that is whole has a prompt there, *)
(* after those of the turns before it, with its own reply after it; no     *)
(* prompt is shown more often than it was sent, and no answer more often   *)
(* than it was given.                                                      *)
FeedIsTheConversation ==
  Settled /\ ~feed.more =>
    LET messages == feed.messages
        prompts == {i \in DOMAIN messages : messages[i].role = "user"}
        whole == {t \in DOMAIN turns : Whole(t)}
        given(says) == {t \in DOMAIN turns : turns[t].says = says}
        shown(says) == {messages[i] : i \in {j \in DOMAIN messages : messages[j].text = says}}
    IN /\ \E place \in [whole -> prompts] :
            /\ \A t, u \in whole : t < u => place[t] < place[u]
            /\ \A t \in whole : /\ messages[place[t]].text = turns[t].text
                                /\ ShowOnce(t, {messages[i] : i \in NativeTurn(place[t])})
       /\ \A text \in Texts : Cardinality({i \in prompts : messages[i].text = text})
                                 <= Cardinality({t \in DOMAIN turns : turns[t].text = text})
       /\ \A says \in Answers :
            given(says) \subseteq whole =>
              MapThenSumSet(LAMBDA m : m.n, shown(says)) = MapThenSumSet(LAMBDA t : turns[t].n, given(says))

=============================================================================
