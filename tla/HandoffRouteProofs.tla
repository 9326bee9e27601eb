-------------------------- MODULE HandoffRouteProofs --------------------------
(***************************************************************************)
(* What TLAPS proves of HandoffRoute: its two safety invariants,           *)
(* OneTargetPerContinue and TransferIsRecorded, for every value of the     *)
(* constants.                                                              *)
(*                                                                         *)
(* The inductive invariant has five parts, proved one after the other,     *)
(* each from those before it: FlowInv, the types and what is left to       *)
(* continue; TargetInv, which Sessions the harness may have made;          *)
(* StoreInv, how far the file of the links is behind them; LinkInv, that   *)
(* what a prompt tells was written down before; ToldInv, that it is told   *)
(* once.                                                                   *)
(***************************************************************************)
EXTENDS HandoffRoute, FiniteSetTheorems, TLAPS

-----------------------------------------------------------------------------
(* The types, by the parts of the state. *)
RecordTypes ==
    /\ request \in [id : Ids, agent : Agents, title : Nat] \cup {NoRequest}
    /\ route \in [target : Ids, agent : Agents] \cup {NoRoute}
    /\ prompt \in [id : Prompts, target : Ids, context : {Bare} \cup Contexts, old : BOOLEAN] \cup {NoPrompt}
    /\ sent \subseteq Ids

FlowTypes ==
    /\ step \in {"idle", "creating", "reading", "linking", "prompting"}
    /\ context \in {Bare} \cup Contexts /\ posted \in {None} \cup Prompts
    /\ reply \in {"none", "sent", "served"} \cup Answers
    /\ handoffs \in {None} \cup Ids /\ prompts \in {None} \cup Prompts

SessionTypes ==
    /\ ledger \in [Ids -> {"none", "pending", "uncertain", "accepted"}]
    /\ jobs \in [Ids -> {"none", "creating", "enriching", "saving", "enriched"}]
    /\ asked \subseteq Ids /\ made \subseteq Ids /\ owned \subseteq Ids /\ crowded \subseteq Ids

FirstTypes ==
    /\ taken \in [Prompts -> {"none", "uncertain", "accepted"}]
    /\ delivered \subseteq [id : Prompts, target : Ids, context : {Bare} \cup Contexts]

StoreTypes ==
    /\ links \in Links /\ linkFile \in Links
    /\ saving \in Links \cup {Nothing} /\ look \in Links \cup {Nothing}
    /\ loaded \in {"unread", "reading", "read"}
    /\ loaded = "reading" => look \in Links

WorldTypes == said \in Contexts /\ title \in Nat /\ budget \in [Events -> Nat]

HistoryTypes ==
    /\ raced \in BOOLEAN
    /\ finished \subseteq Ids /\ misjudged \subseteq Ids /\ mistaken \subseteq Ids
    /\ repeated \subseteq Ids /\ unsaved \subseteq Ids

Types ==
    /\ RecordTypes /\ FlowTypes /\ SessionTypes /\ FirstTypes /\ StoreTypes
    /\ WorldTypes /\ HistoryTypes

LEMMA TypesAreRight ==
    ASSUME Types PROVE TypeOK
BY DEF Types, TypeOK, RecordTypes, FlowTypes, SessionTypes, FirstTypes, StoreTypes, WorldTypes,
       HistoryTypes

LEMMA RecordFields ==
    ASSUME RecordTypes
    PROVE  /\ request # NoRequest => request.id \in Ids /\ request.agent \in Agents
           /\ request = NoRequest => request.id = None
           /\ route # NoRoute => route.target \in Ids
           /\ route = NoRoute => route.target = None
           /\ prompt # NoPrompt => /\ prompt.id \in Prompts /\ prompt.target \in Ids
                                   /\ prompt.context \in {Bare} \cup Contexts /\ prompt.old \in BOOLEAN
           /\ None \notin Ids /\ None \notin Prompts
BY DEF RecordTypes, NoRequest, NoRoute, NoPrompt, None, Ids, Prompts

(* What a step leaves alone. *)
LEMMA Groups ==
    /\ UNCHANGED records => RecordTypes' = RecordTypes
    /\ UNCHANGED <<flow, counts, reply>> => FlowTypes' = FlowTypes
    /\ UNCHANGED sessions => SessionTypes' = SessionTypes
    /\ UNCHANGED firsts => FirstTypes' = FirstTypes
    /\ UNCHANGED store => StoreTypes' = StoreTypes
    /\ UNCHANGED world => WorldTypes' = WorldTypes
    /\ UNCHANGED history => HistoryTypes' = HistoryTypes
BY DEF records, flow, counts, sessions, listing, firsts, store, world, history,
       RecordTypes, FlowTypes, SessionTypes, FirstTypes, StoreTypes, WorldTypes, HistoryTypes

LEMMA SpendTypes ==
    ASSUME WorldTypes, NEW what \in Events, Spend(what), UNCHANGED <<said, title>>
    PROVE  WorldTypes'
BY DEF WorldTypes, Spend

-----------------------------------------------------------------------------
(* What is left to continue is a handoff or its target, and never both. *)
OneIsLeft ==
    /\ request = NoRequest \/ route = NoRoute
    /\ step = "creating" => request # NoRequest
    /\ step \in {"reading", "linking", "prompting"} => route # NoRoute

(* The prompt that is being sent is the one that is recorded, unless it    *)
(* was noticed in the meantime; and none arrives twice.                    *)
PromptIsPosted ==
    /\ step = "prompting" =>
           /\ posted \in Prompts
           /\ prompt # NoPrompt => prompt.id = posted
           /\ taken[posted] = "none" => prompt # NoPrompt
    /\ \A d \in delivered : taken[d.id] # "none"

FlowInv == Types /\ OneIsLeft /\ PromptIsPosted

(* A step that keeps what is left, or ends it before the flow goes on. *)
LEMMA LeftKeeps ==
    ASSUME OneIsLeft, PromptIsPosted, UNCHANGED <<request, route, prompt, posted, firsts>>,
           step' \in {step, "idle"}
    PROVE  OneIsLeft' /\ PromptIsPosted'
BY DEF OneIsLeft, PromptIsPosted, firsts

LEMMA AppTypes ==
    ASSUME FlowInv,
           \/ \E a \in Agents : Continue(a)
           \/ AppStep \/ Breaks \/ Kill \/ PromptNoticed \/ PromptAges
    PROVE  FlowInv'
<1> USE DEF FlowInv
<1> USE RecordFields DEF Types
<1>1. ASSUME NEW a \in Agents, Continue(a) PROVE FlowInv'
  <2>1. FlowTypes' /\ RecordTypes'
    BY <1>1, HandoffAssumption
    DEF Continue, Resume, Handoff, NewRequest, SameRequest, Ask, counts, RecordTypes, FlowTypes,
        Ids, None, WorldTypes
  <2>2. OneIsLeft' /\ PromptIsPosted'
    <3>1. CASE Resume(a)
      BY <1>1, <3>1 DEF Continue, Resume, OneIsLeft, PromptIsPosted, firsts
    <3>2. CASE Handoff(a)
      <4>1. /\ step' = "creating" /\ route = NoRoute /\ route' = NoRoute
            /\ (request # NoRequest /\ request' = request) \/ NewRequest(a)
        BY <1>1, <3>2 DEF Continue, Handoff, Ask
      <4>2. NewRequest(a) => request' # NoRequest
        BY HandoffAssumption DEF NewRequest, NoRequest, None, FlowTypes, Ids
      <4> QED
        BY <1>1, <4>1, <4>2 DEF Continue, OneIsLeft, PromptIsPosted, firsts
    <3> QED
      BY <1>1, <3>1, <3>2 DEF Continue
  <2> QED
    BY <1>1, <2>1, <2>2, Groups DEF Continue
<1>2. CASE HandoffAnswered
  <2>1. WorldTypes'
    BY <1>2, SpendTypes DEF HandoffAnswered, Events, WorldTypes
  <2>2. FlowTypes' /\ RecordTypes'
    BY <1>2 DEF HandoffAnswered, RecordTypes, FlowTypes, OneIsLeft, counts
  <2>3. request # NoRequest /\ route = NoRoute
    BY <1>2 DEF HandoffAnswered, OneIsLeft
  <2>4. OneIsLeft' /\ PromptIsPosted'
    BY <1>2, <2>3 DEF HandoffAnswered, OneIsLeft, PromptIsPosted, NoRoute, None, firsts
  <2> QED
    BY <1>2, <2>1, <2>2, <2>4, Groups DEF HandoffAnswered
<1>3. CASE ReadSource
  <2>1. WorldTypes'
    BY <1>3, SpendTypes DEF ReadSource, Events, WorldTypes
  <2>2. FlowTypes'
    BY <1>3 DEF ReadSource, FlowTypes, counts, Ask, Throws, WorldTypes
  <2>3. OneIsLeft' /\ PromptIsPosted'
    BY <1>3 DEF ReadSource, OneIsLeft, PromptIsPosted, Ask, Throws, records, firsts
  <2> QED
    BY <1>3, <2>1, <2>2, <2>3, Groups DEF ReadSource
<1>4. CASE LinkAnswered
  <2>1. route # NoRoute /\ route.target \in Ids
    BY <1>4 DEF LinkAnswered, OneIsLeft
  <2>2. CASE reply # "accepted"
    <3>1. Throws /\ UNCHANGED <<records, context, posted, counts, sessions, firsts, store, world, history>>
      BY <1>4, <2>2 DEF LinkAnswered, records, counts, history
    <3>2. FlowTypes'
      BY <3>1 DEF FlowTypes, Throws, counts
    <3> QED
      BY <3>1, <3>2, Groups, LeftKeeps DEF Throws, records
  <2>3. CASE Prepare /\ Ask("prompting")
    <3>1. UNCHANGED <<request, route, sent, context, handoffs, sessions, firsts, store, world,
                      finished, misjudged, mistaken, raced, unsaved>>
      BY <1>4 DEF LinkAnswered
    <3>2. CASE prompt # NoPrompt /\ posted' = prompt.id /\ UNCHANGED <<prompt, prompts, repeated>>
      BY <2>1, <2>3, <3>1, <3>2, Groups
      DEF Ask, RecordTypes, FlowTypes, HistoryTypes, OneIsLeft, PromptIsPosted, firsts
    <3>3. CASE /\ prompts < MaxPrompts /\ prompts' = prompts + 1 /\ posted' = prompts'
               /\ prompt' = [id |-> posted', target |-> route.target, old |-> FALSE,
                             context |-> IF route.target \in sent THEN Bare ELSE context]
               /\ repeated' = IF prompt = NoPrompt THEN repeated ELSE repeated \cup {prompt.target}
      <4>1. prompts' \in Prompts
        BY <3>3, HandoffAssumption DEF FlowTypes, None, Prompts
      <4>2. RecordTypes' /\ FlowTypes' /\ HistoryTypes'
        BY <2>1, <2>3, <3>1, <3>3, <4>1 DEF Ask, RecordTypes, FlowTypes, HistoryTypes
      <4>3. OneIsLeft' /\ PromptIsPosted'
        <5>1. prompt' # NoPrompt /\ prompt'.id = posted'
          BY <3>3, <4>1 DEF NoPrompt, None, Prompts
        <5> QED
          BY <2>1, <2>3, <3>1, <3>3, <4>1, <5>1 DEF Ask, OneIsLeft, PromptIsPosted, firsts
      <4> QED
        BY <3>1, <4>2, <4>3, Groups
    <3> QED
      BY <2>3, <3>2, <3>3 DEF Prepare
  <2> QED
    BY <1>4, <2>2, <2>3 DEF LinkAnswered
<1>5. CASE PromptAnswered
  <2>1. route # NoRoute /\ route.target \in Ids
    BY <1>5 DEF PromptAnswered, OneIsLeft
  <2>2. /\ step' = "idle" /\ reply' = "none" /\ finished' \subseteq finished \cup {route.target}
        /\ prompt' \in {prompt, NoPrompt} /\ route' \in {route, NoRoute} /\ sent' \subseteq Ids
        /\ UNCHANGED <<request, context, posted, counts, sessions, firsts, store, world,
                       misjudged, mistaken, repeated, raced, unsaved>>
    <3>1. Accepted => prompt' = NoPrompt /\ sent' \subseteq Ids
      BY DEF Accepted, RecordTypes
    <3>2. /\ Throws
          /\ UNCHANGED <<request, context, posted, counts, sessions, firsts, store, world,
                         misjudged, mistaken, repeated, raced, unsaved>>
          /\ \/ Accepted /\ route' = NoRoute /\ finished' = finished \cup {route.target}
             \/ UNCHANGED <<prompt, sent, route, finished>>
             \/ prompt' = NoPrompt /\ UNCHANGED <<sent, route, finished>>
      BY <1>5 DEF PromptAnswered
    <3> QED
      BY <3>1, <3>2 DEF Throws, RecordTypes
  <2>3. RecordTypes' /\ FlowTypes' /\ HistoryTypes'
    BY <2>1, <2>2 DEF RecordTypes, FlowTypes, HistoryTypes, counts
  <2>4. OneIsLeft' /\ PromptIsPosted'
    BY <2>2 DEF OneIsLeft, PromptIsPosted, firsts
  <2> QED
    BY <2>2, <2>3, <2>4, Groups
<1>6. CASE Breaks \/ Kill
  <2>1. /\ Throws /\ WorldTypes'
        /\ UNCHANGED <<records, context, posted, counts, sessions, firsts, store, history>>
    BY <1>6, SpendTypes DEF Breaks, Kill, Events
  <2>2. FlowTypes'
    BY <2>1 DEF FlowTypes, Throws, counts
  <2> QED
    BY <2>1, <2>2, Groups, LeftKeeps DEF Throws, records
<1>7. CASE PromptNoticed \/ PromptAges
  <2>1. /\ UNCHANGED <<request, route, flow, reply, counts, sessions, firsts, store, world, history>>
        /\ prompt # NoPrompt
        /\ \/ prompt' = NoPrompt /\ \E d \in delivered : d.id = prompt.id
           \/ prompt' = [prompt EXCEPT !.old = TRUE]
        /\ sent' \subseteq Ids
    <3>1. Accepted => prompt' = NoPrompt /\ sent' \subseteq Ids
      BY DEF Accepted, RecordTypes
    <3>2. CASE PromptNoticed
      BY <3>1, <3>2 DEF PromptNoticed
    <3>3. CASE PromptAges
      BY <3>3 DEF PromptAges, RecordTypes
    <3> QED
      BY <1>7, <3>2, <3>3
  <2>2. RecordTypes'
    BY <2>1 DEF RecordTypes
  <2>3. prompt' # NoPrompt => prompt'.id = prompt.id
    BY <2>1 DEF RecordTypes
  <2>a. UNCHANGED <<request, route, step, posted, taken, delivered>>
    BY <2>1 DEF flow, firsts
  <2>b. step = "prompting" => prompt.id = posted
    BY <2>1 DEF PromptIsPosted
  <2>c. step = "prompting" /\ taken[posted] = "none" => prompt' # NoPrompt
    <3>1. step = "prompting" /\ prompt' = NoPrompt => taken[posted] # "none"
      <4>1. ASSUME step = "prompting", NEW d \in delivered, d.id = prompt.id PROVE taken[posted] # "none"
        BY <2>b, <4>1 DEF PromptIsPosted
      <4>2. prompt' # NoPrompt \/ \E d \in delivered : d.id = prompt.id
        BY <2>1 DEF RecordTypes, NoPrompt, None, Prompts
      <4> QED
        BY <4>1, <4>2
    <3> QED
      BY <3>1
  <2>4. OneIsLeft' /\ PromptIsPosted'
    BY <2>a, <2>b, <2>c, <2>3 DEF OneIsLeft, PromptIsPosted
  <2> QED
    BY <2>1, <2>2, <2>4, Groups
<1> QED
  BY <1>1, <1>2, <1>3, <1>4, <1>5, <1>6, <1>7 DEF AppStep

(* The daemon leaves the app's records alone, answers, or dies. *)
LEMMA DaemonFlow ==
    ASSUME FlowInv, UNCHANGED <<records, context, posted, counts, firsts>>,
           reply' \in {reply, "none", "served"} \cup Answers, step' \in {step, "idle"}
    PROVE  RecordTypes' /\ FlowTypes' /\ OneIsLeft' /\ PromptIsPosted'
<1>1. RecordTypes' /\ FlowTypes'
  BY Groups DEF FlowInv, Types, FlowTypes, counts
<1> QED
  BY <1>1, LeftKeeps DEF FlowInv, records

(* The daemon's work on a handoff. *)
LEMMA SessionsTypes ==
    ASSUME FlowInv,
           \/ HandoffBegins \/ HandoffRepeated \/ Dies
           \/ \E i \in Ids : \/ OtherListed(i) \/ HandoffRefused(i) \/ HandoffUncertain(i) \/ HandoffUnsaved(i)
                            \/ Checkpoint(i) \/ HandoffDone(i) \/ Makes(i)
    PROVE  FlowInv'
<1> USE RecordFields DEF Types
<1>a. RecordTypes /\ FlowTypes /\ SessionTypes /\ FirstTypes /\ StoreTypes /\ WorldTypes /\ HistoryTypes
  BY DEF FlowInv
<1>1. CASE HandoffBegins
  <2>1. /\ request.id \in Ids
        /\ UNCHANGED <<app, made, listing, firsts, store, said, title, history>> /\ WorldTypes'
        /\ ledger' = [ledger EXCEPT ![request.id] = "pending"]
        /\ asked' \subseteq asked \cup {request.id} /\ reply' \in {"served", "refused"}
        /\ jobs' = [jobs EXCEPT ![request.id] = "creating"] \/ jobs' = jobs
    BY <1>a, <1>1, SpendTypes DEF FlowInv, HandoffBegins, OneIsLeft, Record, Events, WorldTypes
  <2>2. SessionTypes'
    BY <1>a, <2>1 DEF SessionTypes, listing
  <2> QED
    BY <1>a, <2>1, <2>2, Groups, DaemonFlow DEF FlowInv, app, flow, Answers
<1>2. CASE HandoffRepeated
  <2>1. /\ request.id \in Ids
        /\ UNCHANGED <<app, ledger, asked, made, listing, firsts, store, world,
                       finished, misjudged, repeated, raced, unsaved>>
        /\ mistaken' \subseteq mistaken \cup {request.id}
        /\ reply' \in {"served", "accepted", "unconfirmed"}
        /\ \/ jobs' = [jobs EXCEPT ![request.id] = "enriching"] 
           \/ jobs' = [jobs EXCEPT ![request.id] = @] \/ jobs' = jobs
    BY <1>a, <1>2 DEF FlowInv, HandoffRepeated, OneIsLeft
  <2>2. SessionTypes'
    BY <1>a, <2>1 DEF SessionTypes, listing
  <2>3. HistoryTypes'
    BY <1>a, <2>1 DEF HistoryTypes
  <2> QED
    BY <1>a, <2>1, <2>2, <2>3, Groups, DaemonFlow DEF FlowInv, app, flow, Answers
<1>3. CASE Dies
  <2>1. /\ WorldTypes'
        /\ ledger' = [i \in Ids |-> IF i \in misjudged THEN "pending" ELSE ledger[i]]
        /\ asked' = {} /\ jobs' = [i \in Ids |-> "none"] /\ owned' = {}
        /\ links' = NoLinks /\ loaded' = "unread" /\ saving' = Nothing /\ look' = Nothing
        /\ reply' \in {reply, "none"} /\ step' \in {step, "idle"}
        /\ UNCHANGED <<records, context, posted, counts, made, crowded, firsts, linkFile, history>>
    BY <1>a, <1>3, SpendTypes DEF Dies, Events, Throws
  <2>2. SessionTypes'
    BY <1>a, <2>1 DEF SessionTypes, listing
  <2>3. StoreTypes'
    BY <1>a, <2>1 DEF StoreTypes, NoLinks, Links
  <2> QED
    BY <1>a, <2>1, <2>2, <2>3, Groups, DaemonFlow DEF FlowInv
<1>4. ASSUME NEW i \in Ids,
             \/ OtherListed(i) \/ HandoffRefused(i) \/ HandoffUncertain(i) \/ HandoffUnsaved(i)
             \/ Checkpoint(i) \/ HandoffDone(i) \/ Makes(i)
      PROVE  FlowInv'
  <2>1. UNCHANGED <<app, firsts, store>>
    BY <1>4 DEF OtherListed, HandoffRefused, HandoffUncertain, HandoffUnsaved, Checkpoint, HandoffDone, Makes
  <2>2. WorldTypes'
    BY <1>a, <1>4, SpendTypes, Groups
    DEF OtherListed, HandoffRefused, HandoffUncertain, HandoffUnsaved, Checkpoint, HandoffDone, Makes, Events
  <2>3. /\ \/ ledger' = ledger
           \/ \E state \in {"none", "uncertain", "accepted"} : ledger' = [ledger EXCEPT ![i] = state]
        /\ \/ jobs' = jobs
           \/ \E at \in {"none", "enriching"} : jobs' = [jobs EXCEPT ![i] = at]
        /\ asked' \subseteq asked /\ made' \subseteq made \cup {i}
        /\ owned' \subseteq owned \cup {i} /\ crowded' \subseteq crowded \cup {i}
    BY <1>4 DEF OtherListed, HandoffRefused, HandoffUncertain, HandoffUnsaved, Checkpoint, HandoffDone, Makes,
                Record, Idle, Answered, listing
  <2>4. SessionTypes'
    BY <1>a, <2>3 DEF SessionTypes
  <2>5. /\ reply' \in {reply} \cup Answers
        /\ misjudged' \subseteq misjudged \cup {i} /\ UNCHANGED <<finished, mistaken, repeated, raced, unsaved>>
    BY <1>4 DEF OtherListed, HandoffRefused, HandoffUncertain, HandoffUnsaved, Checkpoint, HandoffDone, Makes,
                Tell, Answers, history
  <2>6. HistoryTypes'
    BY <1>a, <2>5 DEF HistoryTypes
  <2> QED
    BY <1>a, <2>1, <2>2, <2>4, <2>5, <2>6, Groups, DaemonFlow DEF FlowInv, app, flow
<1> QED
  BY <1>1, <1>2, <1>3, <1>4

(* The links, as one step of the store. *)
LEMMA RegistersTypes ==
    ASSUME FlowInv, NEW s \in Ids, NEW c \in {Bare} \cup Contexts, Registers(s, c)
    PROVE  StoreTypes' /\ raced' \in BOOLEAN
<1> USE DEF Types
<1> DEFINE known == IF loaded = "unread" THEN linkFile ELSE links
<1>1. known \in Links
  BY DEF FlowInv, StoreTypes
<1>2. /\ links' = [known EXCEPT ![s] = IF c = Bare /\ known[s] # NoLink THEN known[s] ELSE c]
      /\ saving' \in {Nothing, links'} /\ loaded' \in {"read", loaded}
      /\ raced' = (raced \/ loaded = "reading") /\ UNCHANGED <<linkFile, look>>
  BY DEF Registers
<1> HIDE DEF known
<1>3. links' \in Links
  BY <1>1, <1>2 DEF Links
<1> QED
  BY <1>2, <1>3 DEF FlowInv, StoreTypes, HistoryTypes

LEMMA UnreadableTypes ==
    ASSUME FlowInv, Unreadable, UNCHANGED <<said, title>>
    PROVE  StoreTypes' /\ WorldTypes' /\ raced' \in BOOLEAN
BY SpendTypes DEF FlowInv, Types, Unreadable, StoreTypes, Events

LEMMA LinksTypes ==
    ASSUME FlowInv,
           \/ LinkArrives \/ LinksWritten \/ LinksUnwritten \/ Looks \/ LookEnds
           \/ \E i \in Ids : DaemonLinks(i)
    PROVE  FlowInv'
<1> USE RecordFields DEF Types
<1>a. RecordTypes /\ FlowTypes /\ SessionTypes /\ FirstTypes /\ StoreTypes /\ WorldTypes /\ HistoryTypes
  BY DEF FlowInv
<1>1. CASE LinkArrives
  <2>1. /\ route.target \in Ids /\ context \in {Bare} \cup Contexts
        /\ UNCHANGED <<app, sessions, firsts, said, title, finished, misjudged, mistaken, repeated, unsaved>>
    BY <1>a, <1>1 DEF FlowInv, LinkArrives, OneIsLeft, FlowTypes
  <2>2. \/ Registers(route.target, context) /\ reply' \in {"accepted", "served"} /\ UNCHANGED budget
        \/ Unreadable /\ reply' = "error"
    BY <1>1 DEF LinkArrives
  <2>3. StoreTypes' /\ WorldTypes' /\ raced' \in BOOLEAN
    BY <1>a, <2>1, <2>2, RegistersTypes, UnreadableTypes DEF WorldTypes
  <2>4. HistoryTypes' /\ reply' \in {"served"} \cup Answers
    BY <1>a, <2>1, <2>2, <2>3 DEF HistoryTypes, Answers
  <2> QED
    BY <1>a, <2>1, <2>3, <2>4, Groups, DaemonFlow DEF FlowInv, app, flow
<1>2. ASSUME NEW i \in Ids, DaemonLinks(i) PROVE FlowInv'
  <2>1. /\ UNCHANGED <<app, reply, ledger, asked, made, listing, firsts, said, title,
                       finished, misjudged, mistaken, repeated, unsaved>>
        /\ \E at \in {"enriched", "saving"} : jobs' = [jobs EXCEPT ![i] = at]
        /\ \/ Registers(i, Bare) /\ UNCHANGED budget
           \/ Unreadable
    BY <1>2 DEF DaemonLinks
  <2>2. StoreTypes' /\ WorldTypes' /\ raced' \in BOOLEAN
    BY <1>a, <2>1, RegistersTypes, UnreadableTypes DEF WorldTypes
  <2>3. SessionTypes' /\ HistoryTypes'
    BY <1>a, <2>1, <2>2 DEF SessionTypes, HistoryTypes, listing
  <2> QED
    BY <1>a, <2>1, <2>2, <2>3, Groups, DaemonFlow DEF FlowInv, app, flow
<1>3. CASE LinksWritten \/ LinksUnwritten
  <2>1. /\ saving # Nothing /\ saving' = Nothing /\ linkFile' \in {linkFile, saving}
        /\ jobs' = [i \in Ids |-> IF jobs[i] = "saving" THEN "enriched" ELSE jobs[i]]
        /\ reply' \in {reply, "accepted", "error"} /\ unsaved' \subseteq unsaved \cup Ids
        /\ UNCHANGED <<app, ledger, asked, made, listing, firsts, links, loaded, look, said, title,
                       finished, misjudged, mistaken, repeated, raced>>
    BY <1>3 DEF LinksWritten, LinksUnwritten, WriteEnds
  <2>2. WorldTypes'
    BY <1>a, <1>3, <2>1, SpendTypes DEF LinksWritten, LinksUnwritten, WorldTypes, Events
  <2>3. StoreTypes' /\ SessionTypes' /\ HistoryTypes'
    BY <1>a, <2>1 DEF StoreTypes, SessionTypes, HistoryTypes, listing
  <2> QED
    BY <1>a, <2>1, <2>2, <2>3, Groups, DaemonFlow DEF FlowInv, app, flow, Answers
<1>4. CASE Looks \/ LookEnds
  <2>1. UNCHANGED <<app, reply, sessions, firsts, linkFile, saving, history>> /\ WorldTypes'
    BY <1>a, <1>4, SpendTypes, Groups DEF Looks, LookEnds, Events
  <2>2. ASSUME NEW file \in Links
        PROVE  [i \in Ids |-> IF file[i] # NoLink THEN file[i] ELSE links[i]] \in Links
    BY <1>a DEF StoreTypes, Links
  <2>3. StoreTypes'
    BY <1>a, <1>4, <2>2 DEF Looks, LookEnds, StoreTypes
  <2> QED
    BY <1>a, <2>1, <2>3, Groups, DaemonFlow DEF FlowInv, app, flow
<1> QED
  BY <1>1, <1>2, <1>3, <1>4

LEMMA PromptTypes ==
    ASSUME FlowInv, PromptArrives \/ PromptUnsaved \/ PromptRepeated \/ PromptRefused \/ Says \/ Renames
    PROVE  FlowInv'
<1> USE RecordFields DEF Types
<1>a. RecordTypes /\ FlowTypes /\ SessionTypes /\ FirstTypes /\ StoreTypes /\ WorldTypes /\ HistoryTypes
  BY DEF FlowInv
<1>1. CASE PromptArrives \/ PromptUnsaved
  <2>1. /\ posted \in Prompts /\ prompt # NoPrompt
        /\ UNCHANGED <<app, sessions, store, said, title, finished, misjudged, mistaken, raced, unsaved>>
        /\ repeated' \subseteq repeated \cup {prompt.target}
        /\ \E end \in {"accepted", "uncertain"} : taken' = [taken EXCEPT ![posted] = end]
        /\ reply' \in Answers
        /\ \/ delivered' = delivered \cup {[id |-> posted, target |-> prompt.target, context |-> prompt.context]}
           \/ delivered' = delivered
        /\ taken[posted] = "none"
    BY <1>1 DEF FlowInv, PromptArrives, PromptUnsaved, PromptIsPosted, Answers, history
  <2>2. WorldTypes'
    BY <1>a, <1>1, <2>1, SpendTypes DEF PromptArrives, PromptUnsaved, WorldTypes, Events
  <2>3. FirstTypes'
    BY <1>a, <2>1 DEF FirstTypes
  <2>4. RecordTypes' /\ FlowTypes'
    BY <1>a, <2>1, Groups DEF app, flow, FlowTypes, counts
  <2>5. \A n \in Prompts : taken'[n] # "none" <=> (n = posted \/ taken[n] # "none")
    BY <1>a, <2>1 DEF FirstTypes
  <2>6. \A d \in delivered' : taken'[d.id] # "none"
    BY <1>a, <2>1, <2>5 DEF FlowInv, PromptIsPosted, FirstTypes
  <2>7. OneIsLeft' /\ PromptIsPosted'
    BY <2>1, <2>5, <2>6 DEF FlowInv, OneIsLeft, PromptIsPosted, app, flow, records
  <2>8. HistoryTypes'
    BY <1>a, <2>1 DEF HistoryTypes
  <2> QED
    BY <1>a, <2>1, <2>2, <2>3, <2>4, <2>7, <2>8, Groups DEF FlowInv
<1>2. CASE PromptRepeated \/ PromptRefused
  <2>1. /\ UNCHANGED <<app, sessions, firsts, store, said, title, history>>
        /\ reply' \in Answers
    BY <1>2 DEF PromptRepeated, PromptRefused, Answers, world
  <2>2. WorldTypes'
    BY <1>a, <1>2, SpendTypes, Groups DEF PromptRepeated, PromptRefused, Events
  <2> QED
    BY <1>a, <2>1, <2>2, Groups, DaemonFlow DEF FlowInv, app, flow
<1>3. CASE Says \/ Renames
  <2>1. UNCHANGED <<app, reply, sessions, firsts, store, history>>
    BY <1>3 DEF Says, Renames
  <2>2. WorldTypes'
    BY <1>a, <1>3, HandoffAssumption DEF Says, Renames, WorldTypes, Spend, Contexts
  <2> QED
    BY <1>a, <2>1, <2>2, Groups, DaemonFlow DEF FlowInv, app, flow
<1> QED
  BY <1>1, <1>2, <1>3

LEMMA FlowStep ==
    ASSUME FlowInv, [Next]_vars PROVE FlowInv'
<1>1. CASE UNCHANGED vars
  <2>1. /\ UNCHANGED <<records, flow, counts, reply>> /\ UNCHANGED sessions /\ UNCHANGED firsts
        /\ UNCHANGED store /\ UNCHANGED world /\ UNCHANGED history
    BY <1>1 DEF vars, app
  <2> QED
    BY <2>1, Groups, LeftKeeps DEF FlowInv, Types, records, flow
<1> QED
  BY <1>1, AppTypes, SessionsTypes, LinksTypes, PromptTypes DEF Next, AnswerStep, Faults, JobStep

LEMMA FlowInit ==
    ASSUME Init PROVE FlowInv
<1>1. RecordTypes /\ FlowTypes /\ SessionTypes /\ FirstTypes
  BY DEF Init, RecordTypes, FlowTypes, SessionTypes, FirstTypes
<1>2. 2 \in Contexts
  BY HandoffAssumption DEF Contexts
<1>3. StoreTypes /\ WorldTypes /\ HistoryTypes
  BY <1>2, HandoffAssumption DEF Init, StoreTypes, WorldTypes, HistoryTypes, NoLinks, Links
<1>4. OneIsLeft /\ PromptIsPosted
  BY DEF Init, OneIsLeft, PromptIsPosted
<1> QED
  BY <1>1, <1>3, <1>4 DEF FlowInv, Types

-----------------------------------------------------------------------------
(* One target. *)

(* A handoff that the ledger does not know was not asked of the harness,   *)
(* and one that made its Session is not with the harness any more.         *)
LedgerKnows ==
    /\ \A i \in Ids : ledger[i] = "none" => i \notin made \cup asked
    /\ asked \cap made = {}

(* A Session that exists, or may come to exist, is the one that is left to *)
(* continue, was opened, or was misjudged.                                 *)
Covered ==
    \A i \in made \cup asked : i \in finished \cup misjudged \/ i = request.id \/ i = route.target

(* A handoff that is answered 409 made no Session and will make none, or   *)
(* was misjudged.                                                          *)
RefusedIsGone ==
    step = "creating" /\ reply = "refused" =>
        request.id \in misjudged \/ request.id \notin made \cup asked

TargetInv == LedgerKnows /\ Covered /\ RefusedIsGone

(* A step that asks the harness for nothing, keeps what is left, and does  *)
(* not refuse.                                                             *)
LEMMA TargetKeeps ==
    ASSUME TargetInv, LedgerKnows',
           \A i \in made' \cup asked' : i \in made \cup asked,
           \A i \in finished \cup misjudged : i \in finished' \cup misjudged',
           \A i \in misjudged : i \in misjudged',
           UNCHANGED <<request, route>>,
           step' = "creating" /\ reply' = "refused" =>
               \/ step = "creating" /\ reply = "refused"
               \/ request.id \in misjudged' \/ request.id \notin made' \cup asked'
    PROVE  TargetInv'
BY DEF TargetInv, Covered, RefusedIsGone

LEMMA SameSessions ==
    ASSUME TargetInv, UNCHANGED <<ledger, asked, made>> PROVE LedgerKnows'
BY DEF TargetInv, LedgerKnows

LEMMA TargetStep ==
    ASSUME FlowInv, TargetInv, [Next]_vars PROVE TargetInv'
<1> USE RecordFields DEF FlowInv, Types
<1>1. ASSUME NEW a \in Agents, Continue(a) PROVE TargetInv'
  <2>1. UNCHANGED <<ledger, asked, made, finished, misjudged>> /\ route' = route
    BY <1>1 DEF Continue, sessions, history
  <2>2. request' = request \/ request = NoRequest \/ (route # NoRoute /\ step' = "reading")
    BY <1>1 DEF Continue, Resume, Handoff, NewRequest
  <2>3. Covered'
    BY <2>1, <2>2 DEF TargetInv, Covered, OneIsLeft, SessionTypes
  <2>4. step' # "creating" \/ reply' # "refused"
    BY <1>1 DEF Continue, Resume, Handoff, Ask
  <2> QED
    BY <2>1, <2>3, <2>4, SameSessions DEF TargetInv, RefusedIsGone
<1>2. CASE HandoffAnswered
  <2>1. /\ request # NoRequest /\ route = NoRoute /\ request.id \in Ids
        /\ UNCHANGED <<ledger, asked, made, finished, misjudged>> /\ reply' = "none"
    BY <1>2 DEF HandoffAnswered, OneIsLeft, sessions, history
  <2>2. \/ route' = [target |-> request.id, agent |-> request.agent]
        \/ UNCHANGED <<request, route>>
        \/ reply = "refused" /\ request' = NoRequest /\ route' = route
    BY <1>2 DEF HandoffAnswered
  <2>3. Covered'
    BY <1>2, <2>1, <2>2 DEF HandoffAnswered, TargetInv, Covered, RefusedIsGone, SessionTypes
  <2> QED
    BY <2>1, <2>3, SameSessions DEF TargetInv, RefusedIsGone
<1>3. CASE PromptAnswered
  <2>1. /\ UNCHANGED <<ledger, asked, made, misjudged, request>> /\ step' = "idle"
        /\ \/ UNCHANGED <<route, finished>>
           \/ finished' = finished \cup {route.target}
    BY <1>3 DEF PromptAnswered, Throws, sessions
  <2>2. route' = route \/ (finished' = finished \cup {route.target} /\ route' = NoRoute)
    BY <1>3 DEF PromptAnswered
  <2>3. Covered'
    BY <2>1, <2>2 DEF TargetInv, Covered
  <2> QED
    BY <2>1, <2>3, SameSessions DEF TargetInv, RefusedIsGone
<1>4. CASE ReadSource \/ LinkAnswered \/ PromptNoticed \/ PromptAges \/ Breaks \/ Kill
           \/ LinkArrives \/ (\E i \in Ids : DaemonLinks(i))
           \/ LinksWritten \/ LinksUnwritten \/ Looks \/ LookEnds
           \/ PromptArrives \/ PromptUnsaved \/ PromptRefused \/ PromptRepeated \/ Says \/ Renames
           \/ (\E i \in Ids : OtherListed(i))
  <2>1. UNCHANGED <<request, route, ledger, asked, made, finished, misjudged>>
    BY <1>4 DEF ReadSource, LinkAnswered, PromptNoticed, PromptAges, Breaks, Kill, LinkArrives,
                DaemonLinks, LinksWritten, LinksUnwritten, WriteEnds, Looks, LookEnds,
                PromptArrives, PromptUnsaved, PromptRefused, PromptRepeated, Says, Renames, OtherListed,
                records, sessions, history, app
  <2>2. step' = "creating" /\ reply' = "refused" => step = "creating" /\ reply = "refused"
    BY <1>4 DEF ReadSource, LinkAnswered, PromptNoticed, PromptAges, Breaks, Kill, LinkArrives,
                DaemonLinks, LinksWritten, LinksUnwritten, WriteEnds, Looks, LookEnds,
                PromptArrives, PromptUnsaved, PromptRefused, PromptRepeated, Says, Renames, OtherListed,
                Ask, Throws, flow, app
  <2> QED
    BY <2>1, <2>2, SameSessions, TargetKeeps
<1>5. CASE HandoffBegins
  <2>1. /\ step = "creating" /\ request.id \in Ids /\ ledger[request.id] = "none"
        /\ ledger' = [ledger EXCEPT ![request.id] = "pending"]
        /\ UNCHANGED <<request, route, step, made, finished, misjudged>>
        /\ \/ asked' = asked \cup {request.id} /\ reply' = "served"
           \/ asked' = asked /\ reply' = "refused"
    BY <1>5 DEF HandoffBegins, OneIsLeft, Record, app, records, flow, history
  <2>2. request.id \notin made \cup asked
    BY <2>1 DEF TargetInv, LedgerKnows
  <2>3. LedgerKnows'
    BY <2>1, <2>2 DEF TargetInv, LedgerKnows, SessionTypes
  <2>4. Covered' /\ RefusedIsGone'
    BY <2>1, <2>2 DEF TargetInv, Covered, RefusedIsGone
  <2> QED
    BY <2>3, <2>4 DEF TargetInv
<1>6. CASE HandoffRepeated
  <2>1. /\ UNCHANGED <<request, route, ledger, asked, made, finished, misjudged>>
        /\ reply' \in {"served", "accepted", "unconfirmed"}
    BY <1>6 DEF HandoffRepeated, app, records, history
  <2> QED
    BY <2>1, SameSessions, TargetKeeps
<1>7. CASE Dies
  <2>1. /\ ledger' = [i \in Ids |-> IF i \in misjudged THEN "pending" ELSE ledger[i]] /\ asked' = {}
        /\ UNCHANGED <<request, route, made, finished, misjudged>>
        /\ UNCHANGED <<step, reply>> \/ reply' = "none"
    BY <1>7 DEF Dies, Throws, records, history
  <2>2. LedgerKnows'
    BY <2>1 DEF TargetInv, LedgerKnows
  <2> QED
    BY <2>1, <2>2, TargetKeeps
<1>8. ASSUME NEW i \in Ids, HandoffRefused(i) PROVE TargetInv'
  <2>1. /\ i \in asked /\ asked' = asked \ {i} /\ ledger' = [ledger EXCEPT ![i] = "none"]
        /\ UNCHANGED <<request, route, step, made, finished, misjudged>>
        /\ reply' # reply /\ reply' = "refused" => request.id = i
    BY <1>8 DEF HandoffRefused, Record, Tell, app, records, flow, history
  <2>2. i \notin made \cup asked'
    BY <2>1 DEF TargetInv, LedgerKnows
  <2>3. LedgerKnows'
    BY <2>1, <2>2 DEF TargetInv, LedgerKnows, SessionTypes
  <2> QED
    BY <2>1, <2>2, <2>3, TargetKeeps
<1>9. ASSUME NEW i \in Ids, HandoffUncertain(i) \/ HandoffUnsaved(i) \/ Checkpoint(i) \/ HandoffDone(i)
      PROVE  TargetInv'
  <2>1. /\ \E state \in {"uncertain", "accepted"} : ledger' = [ledger EXCEPT ![i] = state]
        /\ UNCHANGED <<request, route, step, asked, made, finished>>
    BY <1>9 DEF HandoffUncertain, HandoffUnsaved, Checkpoint, HandoffDone, Record, app, records,
                flow, history
  <2>2. misjudged' = misjudged \/ misjudged' = misjudged \cup {i}
    BY <1>9 DEF HandoffUncertain, HandoffUnsaved, Checkpoint, HandoffDone, history
  <2>3. reply' # reply /\ reply' = "refused" => request.id = i /\ i \in misjudged'
    BY <1>9 DEF HandoffUncertain, HandoffUnsaved, Checkpoint, HandoffDone, Tell
  <2>4. LedgerKnows'
    BY <2>1 DEF TargetInv, LedgerKnows, SessionTypes
  <2> QED
    BY <2>1, <2>2, <2>3, <2>4, TargetKeeps
<1>10. ASSUME NEW i \in Ids, Makes(i) PROVE TargetInv'
  <2>1. /\ i \in asked /\ asked' = asked \ {i} /\ made' = made \cup {i}
        /\ UNCHANGED <<request, route, step, reply, ledger, finished, misjudged>>
    BY <1>10 DEF Makes, app, records, flow, history
  <2>2. LedgerKnows'
    BY <2>1 DEF TargetInv, LedgerKnows
  <2> QED
    BY <2>1, <2>2, TargetKeeps
<1>11. CASE UNCHANGED vars
  <2>1. UNCHANGED <<request, route, step, reply, ledger, asked, made, finished, misjudged>>
    BY <1>11 DEF vars, app, records, flow, sessions, history
  <2> QED
    BY <2>1, SameSessions, TargetKeeps
<1> QED
  BY <1>1, <1>2, <1>3, <1>4, <1>5, <1>6, <1>7, <1>8, <1>9, <1>10, <1>11
  DEF Next, AppStep, AnswerStep, Faults, JobStep

LEMMA OneTarget ==
    ASSUME FlowInv, TargetInv PROVE OneTargetPerContinue
<1> DEFINE open == made \ (finished \cup misjudged \cup mistaken)
<1>1. \A i, j \in open : i = j
  BY RecordFields DEF FlowInv, Types, TargetInv, Covered, OneIsLeft, SessionTypes
<1>2. open = {} \/ \E i \in open : open = {i}
  BY <1>1
<1>3. Cardinality(open) <= 1
  <2> HIDE DEF open
  <2>1. ASSUME NEW i \in open, open = {i} PROVE Cardinality(open) <= 1
    BY <2>1, FS_Singleton
  <2> QED
    BY <1>2, <2>1, FS_EmptySet
<1> QED
  BY <1>3 DEF OneTargetPerContinue

-----------------------------------------------------------------------------
(* The links and their file. *)

(* As long as the links were known whenever they were changed: the file is *)
(* behind the links, and by no more than what is being written or failed   *)
(* to be written; and no link has a newer context than the one that was    *)
(* read last.                                                              *)
FileFollows ==
    ~raced =>
        /\ \A i \in Ids : links[i] <= context /\ linkFile[i] <= context
        /\ loaded # "read" => saving = Nothing /\ links = NoLinks
        /\ loaded = "reading" => look = linkFile
        /\ loaded = "read" =>
               /\ \A i \in Ids : linkFile[i] <= links[i]
               /\ saving # Nothing => saving = links
               /\ saving = Nothing => \A i \in Ids \ unsaved : linkFile[i] = links[i]

StoreInv == context <= said /\ FileFollows

(* A link is written down: it is in the file with its context. *)
IsDown(t, c) == ~raced /\ t \notin unsaved /\ c # Bare => linkFile[t] >= c

LEMMA Numbers ==
    ASSUME Types
    PROVE  /\ context \in Nat /\ said \in Nat /\ (context \in Contexts <=> context # Bare)
           /\ \A i \in Ids : links[i] \in Nat /\ linkFile[i] \in Nat
           /\ saving # Nothing => saving \in Links /\ \A i \in Ids : saving[i] \in Nat
           /\ loaded = "reading" => look \in Links
           /\ Bare \in Nat /\ Bare # NoLink /\ \A c \in Contexts : c \in Nat /\ c # Bare /\ c # NoLink
BY HandoffAssumption
DEF Types, FlowTypes, WorldTypes, StoreTypes, Links, Contexts, Bare, NoLink

LEMMA RegistersStore ==
    ASSUME Types, StoreInv, NEW s \in Ids, NEW c \in {Bare, context}, Registers(s, c),
           UNCHANGED <<context, said, unsaved>>
    PROVE  /\ StoreInv' /\ linkFile' = linkFile
           /\ saving' # Nothing /\ c # Bare => saving'[s] = c
           /\ saving' = Nothing => IsDown(s, c)'
<1> USE Numbers
<1> DEFINE known == IF loaded = "unread" THEN linkFile ELSE links
<1>1. /\ saving = Nothing
      /\ links' = [known EXCEPT ![s] = IF c = Bare /\ known[s] # NoLink THEN known[s] ELSE c]
      /\ saving' = (IF links' = known THEN Nothing ELSE links')
      /\ loaded' = (IF loaded = "unread" THEN "read" ELSE loaded)
      /\ raced' = (raced \/ loaded = "reading") /\ UNCHANGED <<linkFile, look>>
  BY DEF Registers
<1>2. known \in Links /\ \A i \in Ids : known[i] \in Nat
  BY DEF Types, StoreTypes
<1>3. ~raced' =>
         /\ ~raced /\ loaded' = "read"
         /\ \A i \in Ids : linkFile[i] <= known[i] /\ known[i] <= context
         /\ \A i \in Ids \ unsaved : linkFile[i] = known[i]
  <2> SUFFICES ASSUME ~raced'
               PROVE  /\ ~raced /\ loaded' = "read"
                      /\ \A i \in Ids : linkFile[i] <= known[i] /\ known[i] <= context
                      /\ \A i \in Ids \ unsaved : linkFile[i] = known[i]
    OBVIOUS
  <2>1. ~raced /\ loaded \in {"unread", "read"}
    BY <1>1 DEF Types, StoreTypes
  <2>2. CASE loaded = "unread"
    <3>1. known = linkFile /\ loaded' = "read"
      BY <1>1, <2>2
    <3>2. \A i \in Ids : linkFile[i] <= linkFile[i] /\ linkFile[i] <= context
      BY <2>1 DEF StoreInv, FileFollows
    <3> QED
      BY <2>1, <3>1, <3>2
  <2>3. CASE loaded = "read"
    <3>1. known = links /\ loaded' = "read"
      BY <1>1, <2>3
    <3> QED
      BY <1>1, <2>1, <2>3, <3>1 DEF StoreInv, FileFollows
  <2> QED
    BY <2>1, <2>2, <2>3
<1> HIDE DEF known
<1>4. /\ \A i \in Ids : i # s => links'[i] = known[i]
      /\ links'[s] = (IF c = Bare /\ known[s] # NoLink THEN known[s] ELSE c)
      /\ links' \in [Ids -> {NoLink, Bare} \cup Contexts]
  <2>1. c \in {NoLink, Bare} \cup Contexts
    BY DEF Types, FlowTypes
  <2>2. known \in [Ids -> {NoLink, Bare} \cup Contexts]
    BY <1>2 DEF Links
  <2>3. PICK v \in {NoLink, Bare} \cup Contexts : v = IF c = Bare /\ known[s] # NoLink THEN known[s] ELSE c
    BY <2>1, <2>2
  <2>4. links' = [known EXCEPT ![s] = v]
    BY <1>1, <2>3
  <2>5. links' \in [Ids -> {NoLink, Bare} \cup Contexts] /\ links'[s] = v
    BY <2>2, <2>4
  <2>6. \A i \in Ids : i # s => links'[i] = known[i]
    BY <2>2, <2>4
  <2> QED
    BY <2>3, <2>5, <2>6
<1>5. ~raced' => \A i \in Ids : linkFile[i] <= links'[i] /\ links'[i] <= context /\ linkFile[i] <= context
  <2> SUFFICES ASSUME ~raced', NEW i \in Ids
               PROVE  linkFile[i] <= links'[i] /\ links'[i] <= context /\ linkFile[i] <= context
    OBVIOUS
  <2>1. linkFile[i] <= known[i] /\ known[i] <= context
    BY <1>3
  <2>2. context >= Bare
    BY DEF Types, FlowTypes, Bare, Contexts
  <2>3. i = s /\ c = Bare /\ known[s] = NoLink => linkFile[i] = 0 /\ links'[i] = Bare
    BY <1>2, <1>4, <2>1 DEF NoLink
  <2> QED
    BY <1>2, <1>4, <2>1, <2>2, <2>3 DEF Bare
<1>6. saving' = Nothing /\ ~raced' => \A i \in Ids \ unsaved : linkFile[i] = links'[i]
  <2> SUFFICES ASSUME saving' = Nothing, ~raced' PROVE \A i \in Ids \ unsaved : linkFile[i] = links'[i]
    OBVIOUS
  <2>1. links' = known \/ links' = Nothing
    BY <1>1
  <2>2. links' = Nothing => links' = known
    <3>1. links' = Nothing => Ids = {}
      BY <1>4 DEF Nothing
    <3> QED
      BY <1>2, <1>4, <3>1 DEF Links
  <2> QED
    BY <1>3, <2>1, <2>2
<1>7. FileFollows'
  BY <1>1, <1>3, <1>5, <1>6 DEF FileFollows
<1>8. saving' # Nothing /\ c # Bare => saving'[s] = c
  BY <1>1, <1>4
<1>9. saving' = Nothing => IsDown(s, c)'
  BY <1>1, <1>4, <1>6 DEF IsDown
<1> QED
  BY <1>1, <1>7, <1>8, <1>9 DEF StoreInv

LEMMA UnreadableStore ==
    ASSUME StoreInv, Unreadable, UNCHANGED <<context, said>>
    PROVE  StoreInv' /\ linkFile' = linkFile /\ raced'
BY DEF Unreadable, StoreInv, FileFollows

(* What is written down stays so. *)
FileGrows ==
    /\ raced => raced'
    /\ unsaved \subseteq unsaved'
    /\ ~raced' => \A i \in Ids : linkFile'[i] >= linkFile[i]

LEMMA SameStore ==
    ASSUME Types, StoreInv, UNCHANGED <<store, raced, unsaved>>,
           context' = context \/ context' = said, said' = said \/ said' = said + 1
    PROVE  StoreInv' /\ FileGrows
<1> USE Numbers
<1>1. context' \in Nat /\ context <= context' /\ context' <= said'
  BY DEF StoreInv
<1>2. FileFollows'
  BY <1>1 DEF store, StoreInv, FileFollows
<1> QED
  BY <1>1, <1>2 DEF store, StoreInv, FileGrows

LEMMA LinksStore ==
    ASSUME FlowInv, StoreInv,
           \/ LinkArrives \/ LinksWritten \/ LinksUnwritten \/ Looks \/ LookEnds \/ Dies
           \/ \E i \in Ids : DaemonLinks(i)
    PROVE  StoreInv' /\ FileGrows
<1> USE Numbers DEF FlowInv, Types
<1>1. CASE LinkArrives
  <2>1. /\ route.target \in Ids /\ UNCHANGED <<context, said, unsaved>>
        /\ Registers(route.target, context) \/ Unreadable
    BY <1>1, RecordFields DEF LinkArrives, OneIsLeft, app, flow
  <2>2. StoreInv' /\ linkFile' = linkFile
    BY <2>1, RegistersStore, UnreadableStore
  <2>3. raced => raced'
    BY <2>1 DEF Registers, Unreadable
  <2> QED
    BY <2>1, <2>2, <2>3 DEF FileGrows
<1>2. ASSUME NEW i \in Ids, DaemonLinks(i) PROVE StoreInv' /\ FileGrows
  <2>1. /\ UNCHANGED <<context, said, unsaved>>
        /\ Registers(i, Bare) \/ Unreadable
    BY <1>2 DEF DaemonLinks, app, flow
  <2>2. StoreInv' /\ linkFile' = linkFile
    BY <2>1, RegistersStore, UnreadableStore
  <2>3. raced => raced'
    BY <2>1 DEF Registers, Unreadable
  <2> QED
    BY <2>1, <2>2, <2>3 DEF FileGrows
<1>3. CASE LinksWritten
  <2>1. /\ saving # Nothing /\ saving' = Nothing /\ linkFile' = saving
        /\ UNCHANGED <<context, said, links, loaded, look, raced, unsaved>>
    BY <1>3 DEF LinksWritten, WriteEnds, app, flow
  <2>2. ~raced => loaded = "read" /\ saving = links /\ \A i \in Ids : linkFile[i] <= links[i] /\ links[i] <= context
    BY <2>1 DEF StoreInv, FileFollows
  <2> QED
    BY <2>1, <2>2 DEF StoreInv, FileFollows, FileGrows
<1>4. CASE LinksUnwritten
  <2>1. /\ saving # Nothing /\ saving' = Nothing
        /\ unsaved' = unsaved \cup {i \in Ids : saving[i] # linkFile[i]}
        /\ UNCHANGED <<context, said, links, linkFile, loaded, look, raced>>
    BY <1>4 DEF LinksUnwritten, WriteEnds, app, flow
  <2>2. ~raced => /\ loaded = "read" /\ \A i \in Ids \ unsaved' : linkFile[i] = links[i]
                  /\ \A i \in Ids : linkFile[i] <= links[i] /\ links[i] <= context /\ linkFile[i] <= context
    BY <2>1 DEF StoreInv, FileFollows
  <2> QED
    BY <2>1, <2>2 DEF StoreInv, FileFollows, FileGrows
<1>5. CASE Looks
  <2>1. /\ loaded = "unread" /\ loaded' = "reading" /\ look' = linkFile
        /\ UNCHANGED <<context, said, links, linkFile, saving, raced, unsaved>>
    BY <1>5 DEF Looks, app, flow, history
  <2> QED
    BY <2>1 DEF StoreInv, FileFollows, FileGrows
<1>6. CASE LookEnds
  <2>1. /\ loaded = "reading" /\ loaded' = "read"
        /\ UNCHANGED <<context, said, linkFile, saving, raced, unsaved>>
        /\ \E file \in {look, linkFile} :
               links' = [i \in Ids |-> IF file[i] # NoLink THEN file[i] ELSE links[i]]
    BY <1>6 DEF LookEnds, app, flow, world, history
  <2>2. ~raced => /\ look = linkFile /\ saving = Nothing /\ links = NoLinks
                  /\ \A i \in Ids : linkFile[i] <= context
    BY <2>1 DEF StoreInv, FileFollows
  <2>3. ~raced => \A i \in Ids : links'[i] = linkFile[i]
    BY <2>1, <2>2 DEF NoLinks
  <2> QED
    BY <2>1, <2>2, <2>3 DEF StoreInv, FileFollows, FileGrows
<1>7. CASE Dies
  <2>1. /\ links' = NoLinks /\ loaded' = "unread" /\ saving' = Nothing /\ look' = Nothing
        /\ UNCHANGED <<context, said, linkFile, raced, unsaved>>
    BY <1>7 DEF Dies, history
  <2>2. context >= 0
    BY DEF Types
  <2> QED
    BY <2>1, <2>2 DEF StoreInv, FileFollows, FileGrows, NoLinks, NoLink
<1> QED
  BY <1>1, <1>2, <1>3, <1>4, <1>5, <1>6, <1>7

LEMMA StoreStep ==
    ASSUME FlowInv, StoreInv, [Next]_vars PROVE StoreInv' /\ FileGrows
<1> USE DEF FlowInv
<1>1. CASE \/ (\E a \in Agents : Continue(a)) \/ AppStep \/ AnswerStep
           \/ Breaks \/ Kill \/ PromptRefused \/ PromptUnsaved \/ PromptNoticed \/ PromptAges \/ Says \/ Renames
           \/ \E i \in Ids : \/ OtherListed(i) \/ HandoffRefused(i) \/ HandoffUncertain(i) \/ HandoffUnsaved(i)
                            \/ Checkpoint(i) \/ HandoffDone(i) \/ Makes(i)
  <2>1. UNCHANGED <<store, raced, unsaved>>
    BY <1>1 DEF Continue, AppStep, HandoffAnswered, ReadSource, LinkAnswered, PromptAnswered, AnswerStep,
                HandoffBegins, HandoffRepeated, PromptArrives, PromptUnsaved, PromptRepeated, Breaks, Kill, PromptRefused,
                PromptNoticed, PromptAges, Says, Renames, OtherListed, HandoffRefused, HandoffUncertain,
                HandoffUnsaved, Checkpoint, HandoffDone, Makes, history
  <2>2. context' = context \/ context' = said
    BY <1>1 DEF Continue, AppStep, HandoffAnswered, ReadSource, LinkAnswered, PromptAnswered, AnswerStep,
                HandoffBegins, HandoffRepeated, PromptArrives, PromptUnsaved, PromptRepeated, Breaks, Kill, PromptRefused,
                PromptNoticed, PromptAges, Says, Renames, OtherListed, HandoffRefused, HandoffUncertain,
                HandoffUnsaved, Checkpoint, HandoffDone, Makes, app, flow
  <2>3. said' = said \/ said' = said + 1
    BY <1>1 DEF Continue, AppStep, HandoffAnswered, ReadSource, LinkAnswered, PromptAnswered, AnswerStep,
                HandoffBegins, HandoffRepeated, PromptArrives, PromptUnsaved, PromptRepeated, Breaks, Kill, PromptRefused,
                PromptNoticed, PromptAges, Says, Renames, OtherListed, HandoffRefused, HandoffUncertain,
                HandoffUnsaved, Checkpoint, HandoffDone, Makes, world
  <2> QED
    BY <2>1, <2>2, <2>3, SameStore
<1>2. CASE UNCHANGED vars
  <2>1. UNCHANGED <<store, raced, unsaved, context, said>>
    BY <1>2 DEF vars, app, flow, world, history
  <2> QED
    BY <2>1, SameStore
<1> QED
  BY <1>1, <1>2, LinksStore DEF Next, Faults, JobStep

-----------------------------------------------------------------------------
(* The prompt and the link it presumes. *)

(* A link that was acknowledged, and what a prompt tells, are written down *)
(* and the link that is waited for is being written.                       *)
LinkInv ==
    /\ step = "linking" => context \in Contexts
    /\ step = "linking" /\ reply = "served" => saving # Nothing /\ saving[route.target] = context
    /\ step = "linking" /\ reply = "accepted" => IsDown(route.target, context)
    /\ prompt # NoPrompt => IsDown(prompt.target, prompt.context)
    /\ \A d \in delivered : IsDown(d.target, d.context)

LEMMA DownStays ==
    ASSUME Types, Types', FileGrows,
           NEW t \in Ids, NEW c \in {Bare} \cup Contexts, IsDown(t, c)
    PROVE  IsDown(t, c)'
<1>1. c \in Nat
  BY Numbers
<1>2. linkFile[t] \in Nat /\ linkFile'[t] \in Nat
  BY HandoffAssumption DEF Types, StoreTypes, Links, Contexts, Bare, NoLink
<1> QED
  BY <1>1, <1>2 DEF IsDown, FileGrows

(* What was told stays written down. *)
LEMMA ToldStays ==
    ASSUME Types, Types', FileGrows, LinkInv
    PROVE  /\ UNCHANGED delivered => \A d \in delivered' : IsDown(d.target, d.context)'
           /\ \A d \in delivered : IsDown(d.target, d.context)'
           /\ prompt # NoPrompt /\ prompt' # NoPrompt /\ prompt'.target = prompt.target
                   /\ prompt'.context = prompt.context => IsDown(prompt.target, prompt.context)'
<1>1. \A d \in delivered : IsDown(d.target, d.context)'
  <2> TAKE d \in delivered
  <2>1. d.target \in Ids /\ d.context \in {Bare} \cup Contexts
    BY DEF Types, FirstTypes
  <2> QED
    BY <2>1, DownStays DEF LinkInv
<1>2. prompt # NoPrompt /\ prompt' # NoPrompt /\ prompt'.target = prompt.target
          /\ prompt'.context = prompt.context => IsDown(prompt.target, prompt.context)'
  <2> SUFFICES ASSUME prompt # NoPrompt, prompt' # NoPrompt, prompt'.target = prompt.target,
                      prompt'.context = prompt.context
               PROVE  IsDown(prompt.target, prompt.context)'
    OBVIOUS
  <2>1. PICK t \in Ids : t = prompt.target
    BY RecordFields DEF Types
  <2>2. PICK c \in {Bare} \cup Contexts : c = prompt.context
    BY RecordFields DEF Types
  <2>3. IsDown(t, c)
    BY <2>1, <2>2 DEF LinkInv
  <2>4. IsDown(t, c)'
    BY <2>3, DownStays
  <2> QED
    BY <2>1, <2>2, <2>4 DEF IsDown
<1> QED
  BY <1>1, <1>2

(* The app waits for its link as before, or no longer; or it is told that  *)
(* there is none.                                                          *)
LEMMA LinkKeeps ==
    ASSUME Types, Types', OneIsLeft, FileGrows, LinkInv,
           UNCHANGED <<context, delivered>>,
           step' = "linking" => /\ step = "linking" /\ UNCHANGED route
                                /\ reply' = reply \/ reply' = "error"
                                /\ reply' = "served" => UNCHANGED saving,
           prompt' # NoPrompt => /\ prompt # NoPrompt /\ prompt'.target = prompt.target
                                 /\ prompt'.context = prompt.context
    PROVE  LinkInv'
<1>1. step' = "linking" => context' \in Contexts
  BY DEF LinkInv
<1>2. step' = "linking" /\ reply' = "served" => saving' # Nothing /\ saving'[route'.target] = context'
  BY DEF LinkInv
<1>3. step' = "linking" /\ reply' = "accepted" => IsDown(route.target, context)'
  <2> SUFFICES ASSUME step' = "linking", reply' = "accepted" PROVE IsDown(route.target, context)'
    OBVIOUS
  <2>1. PICK t \in Ids : t = route.target
    BY RecordFields DEF Types, OneIsLeft
  <2>2. PICK c \in {Bare} \cup Contexts : c = context
    BY DEF Types, FlowTypes
  <2>3. IsDown(t, c)
    BY <2>1, <2>2 DEF LinkInv
  <2>4. IsDown(t, c)'
    BY <2>3, DownStays
  <2> QED
    BY <2>1, <2>2, <2>4 DEF IsDown
<1>4. prompt' # NoPrompt => IsDown(prompt.target, prompt.context)'
  BY ToldStays
<1>5. \A d \in delivered' : IsDown(d.target, d.context)'
  BY ToldStays
<1> QED
  BY <1>1, <1>2, <1>3, <1>4, <1>5 DEF LinkInv

LEMMA LinkStep ==
    ASSUME FlowInv, FlowInv', StoreInv, LinkInv, [Next]_vars PROVE LinkInv'
<1> USE DEF FlowInv
<1>a. FileGrows
  BY StoreStep
<1>1. ASSUME NEW a \in Agents, Continue(a) PROVE LinkInv'
  BY <1>a, <1>1, LinkKeeps DEF Continue, Resume, Handoff, Ask, firsts
<1>2. CASE HandoffAnswered
  BY <1>a, <1>2, LinkKeeps DEF HandoffAnswered, firsts
<1>3. CASE ReadSource
  <2>1. CASE context' = said /\ Ask("linking")
    <3>1. /\ step' = "linking" /\ reply' = "sent" /\ context' \in Contexts
          /\ UNCHANGED <<prompt, delivered>>
      BY <1>3, <2>1 DEF ReadSource, Ask, records, firsts, Types, WorldTypes
    <3>2. prompt' # NoPrompt => IsDown(prompt.target, prompt.context)'
      BY <1>a, <3>1, ToldStays
    <3>3. \A d \in delivered' : IsDown(d.target, d.context)'
      BY <1>a, <3>1, ToldStays
    <3> QED
      BY <3>1, <3>2, <3>3 DEF LinkInv
  <2>2. CASE Throws /\ UNCHANGED context
    BY <1>a, <1>3, <2>2, LinkKeeps DEF ReadSource, Throws, records, firsts
  <2> QED
    BY <1>3, <2>1, <2>2 DEF ReadSource
<1>4. CASE LinkAnswered
  <2>1. UNCHANGED <<delivered, context, linkFile, raced, unsaved>> /\ step' # "linking"
    BY <1>4 DEF LinkAnswered, Ask, Throws, firsts, store
  <2>2. \A d \in delivered' : IsDown(d.target, d.context)'
    BY <1>a, <2>1, ToldStays
  <2>3. prompt' # NoPrompt => IsDown(prompt.target, prompt.context)'
    <3>1. CASE prompt' = prompt
      BY <1>a, <3>1, ToldStays
    <3>2. CASE prompt' # prompt
      <4>1. /\ step = "linking" /\ reply = "accepted"
            /\ prompt' = [id |-> posted', target |-> route.target, old |-> FALSE,
                          context |-> IF route.target \in sent THEN Bare ELSE context]
        BY <1>4, <3>2 DEF LinkAnswered, Prepare
      <4>2. prompt'.target = route.target /\ prompt'.context \in {Bare, context}
        BY <4>1
      <4>3. IsDown(route.target, context)
        BY <4>1 DEF LinkInv
      <4> QED
        BY <2>1, <4>2, <4>3 DEF IsDown
    <3> QED
      BY <3>1, <3>2
  <2> QED
    BY <2>1, <2>2, <2>3 DEF LinkInv
<1>5. CASE PromptAnswered
  <2>1. step' = "idle" /\ UNCHANGED <<context, delivered>> /\ prompt' \in {prompt, NoPrompt}
    BY <1>5 DEF PromptAnswered, Throws, Accepted, firsts
  <2> QED
    BY <1>a, <2>1, LinkKeeps
<1>6. CASE Breaks \/ Kill
  BY <1>a, <1>6, LinkKeeps DEF Breaks, Kill, Throws, records, firsts
<1>7. CASE PromptNoticed \/ PromptAges
  <2>1. UNCHANGED <<route, flow, reply, store, delivered>> /\ prompt # NoPrompt
    BY <1>7 DEF PromptNoticed, PromptAges, firsts
  <2>2. prompt' = NoPrompt \/ prompt' = [prompt EXCEPT !.old = TRUE]
    BY <1>7 DEF PromptNoticed, PromptAges, Accepted
  <2>3. prompt' # NoPrompt => prompt'.target = prompt.target /\ prompt'.context = prompt.context
    BY <2>1, <2>2 DEF Types, RecordTypes
  <2> QED
    BY <1>a, <2>1, <2>3, LinkKeeps DEF flow, store
<1>8. CASE Dies
  BY <1>a, <1>8, LinkKeeps DEF Dies, Throws, records, firsts
<1>9. CASE \/ HandoffBegins \/ HandoffRepeated
           \/ \E i \in Ids : \/ OtherListed(i) \/ HandoffRefused(i) \/ HandoffUncertain(i) \/ HandoffUnsaved(i)
                            \/ Checkpoint(i) \/ HandoffDone(i) \/ Makes(i)
  <2>1. UNCHANGED <<app, store, firsts>> /\ (step = "linking" => reply' = reply)
    BY <1>9 DEF HandoffBegins, HandoffRepeated, OtherListed, HandoffRefused, HandoffUncertain, HandoffUnsaved,
                Checkpoint, HandoffDone, Makes, Tell
  <2> QED
    BY <1>a, <2>1, LinkKeeps DEF app, records, flow, store, firsts
<1>10. CASE PromptRefused \/ PromptRepeated
  BY <1>a, <1>10, LinkKeeps DEF PromptRefused, PromptRepeated, app, records, flow, store, firsts
<1>11. CASE Looks \/ LookEnds \/ Says \/ Renames
  BY <1>a, <1>11, LinkKeeps DEF Looks, LookEnds, Says, Renames, app, records, flow, store, firsts
<1>12. ASSUME NEW i \in Ids, DaemonLinks(i) PROVE LinkInv'
  <2>1. UNCHANGED <<app, reply, firsts>> /\ saving = Nothing
    BY <1>12 DEF DaemonLinks, Registers, Unreadable
  <2> QED
    BY <1>a, <2>1, LinkKeeps DEF app, records, flow, firsts, LinkInv
<1>13. CASE LinksUnwritten
  <2>1. /\ UNCHANGED <<app, firsts>>
        /\ step = "linking" => reply' # "served" /\ (reply' = reply \/ reply' = "error")
    BY <1>13 DEF LinksUnwritten, WriteEnds
  <2> QED
    BY <1>a, <2>1, LinkKeeps DEF app, records, flow, firsts
<1>14. CASE LinksWritten
  <2>1. /\ UNCHANGED <<step, context, posted, route, prompt, delivered>> /\ linkFile' = saving
        /\ saving # Nothing
        /\ reply' = IF step = "linking" /\ reply = "served" THEN "accepted" ELSE reply
    BY <1>14 DEF LinksWritten, WriteEnds, app, records, flow, firsts
  <2>2. CASE step = "linking" /\ reply = "served"
    <3>1. linkFile'[route'.target] = context' /\ context' \in Nat
      BY <2>1, <2>2, Numbers DEF LinkInv
    <3>2. IsDown(route.target, context)'
      BY <3>1 DEF IsDown
    <3>3. prompt' # NoPrompt => IsDown(prompt.target, prompt.context)'
      BY <1>a, <2>1, ToldStays
    <3>4. \A d \in delivered' : IsDown(d.target, d.context)'
      BY <1>a, <2>1, ToldStays
    <3> QED
      BY <2>1, <2>2, <3>2, <3>3, <3>4 DEF LinkInv
  <2>3. CASE ~(step = "linking" /\ reply = "served")
    BY <1>a, <2>1, <2>3, LinkKeeps
  <2> QED
    BY <2>2, <2>3
<1>15. CASE LinkArrives
  <2>1. /\ step = "linking" /\ UNCHANGED <<app, firsts, said, unsaved>>
        /\ \/ /\ Registers(route.target, context)
              /\ reply' = IF saving' = Nothing THEN "accepted" ELSE "served"
           \/ Unreadable /\ reply' = "error"
    BY <1>15 DEF LinkArrives
  <2>2. UNCHANGED <<step, context, route, prompt, delivered>>
    BY <2>1 DEF app, records, flow, firsts
  <2>3. CASE Unreadable /\ reply' = "error"
    BY <1>a, <2>1, <2>2, <2>3, LinkKeeps
  <2>4. CASE /\ Registers(route.target, context)
             /\ reply' = IF saving' = Nothing THEN "accepted" ELSE "served"
    <3>1. context \in Contexts
      BY <2>1 DEF LinkInv
    <3>2. PICK t \in Ids : t = route.target
      BY <2>1, RecordFields DEF Types, OneIsLeft
    <3>3. PICK c \in {Bare, context} : c = context
      OBVIOUS
    <3>4. Registers(t, c)
      BY <2>4, <3>2, <3>3
    <3>5. /\ saving' # Nothing /\ c # Bare => saving'[t] = c
          /\ saving' = Nothing => IsDown(t, c)'
      BY <2>1, <2>2, <3>4, RegistersStore
    <3>6. reply' = "served" => saving' # Nothing /\ saving'[route'.target] = context'
      BY <2>2, <2>4, <3>1, <3>2, <3>3, <3>5, Numbers
    <3>7. reply' = "accepted" => IsDown(route.target, context)'
      BY <2>2, <2>4, <3>2, <3>3, <3>5 DEF IsDown
    <3>8. prompt' # NoPrompt => IsDown(prompt.target, prompt.context)'
      BY <1>a, <2>2, ToldStays
    <3>9. \A d \in delivered' : IsDown(d.target, d.context)'
      BY <1>a, <2>2, ToldStays
    <3> QED
      BY <2>2, <3>1, <3>6, <3>7, <3>8, <3>9 DEF LinkInv
  <2> QED
    BY <2>1, <2>3, <2>4
<1>16. CASE PromptArrives \/ PromptUnsaved
  <2>1. /\ step = "prompting" /\ taken[posted] = "none" /\ UNCHANGED <<step, context, prompt, store>>
        /\ \/ delivered' = delivered \cup {[id |-> posted, target |-> prompt.target, context |-> prompt.context]}
           \/ UNCHANGED delivered
    BY <1>16 DEF PromptArrives, PromptUnsaved, app, records, flow
  <2>2. prompt # NoPrompt
    BY <2>1 DEF PromptIsPosted
  <2>3. IsDown(prompt.target, prompt.context)'
    BY <1>a, <2>1, <2>2, ToldStays
  <2>4. \A d \in delivered' : IsDown(d.target, d.context)'
    <3> SUFFICES ASSUME NEW d \in delivered' PROVE IsDown(d.target, d.context)'
      OBVIOUS
    <3>1. CASE d \in delivered
      BY <1>a, <3>1, ToldStays
    <3>2. CASE d = [id |-> posted, target |-> prompt.target, context |-> prompt.context]
      <4>1. d.target = prompt.target /\ d.context = prompt.context
        BY <3>2
      <4> QED
        BY <2>1, <2>3, <4>1 DEF IsDown
    <3> QED
      BY <2>1, <3>1, <3>2
  <2> QED
    BY <2>1, <2>2, <2>3, <2>4 DEF LinkInv
<1>17. CASE UNCHANGED vars
  BY <1>a, <1>17, LinkKeeps DEF vars, app, records, flow, firsts, store
<1> QED
  BY <1>1, <1>2, <1>3, <1>4, <1>5, <1>6, <1>7, <1>8, <1>9, <1>10, <1>11, <1>12, <1>13, <1>14,
     <1>15, <1>16, <1>17
  DEF Next, AppStep, AnswerStep, Faults, JobStep

-----------------------------------------------------------------------------
(* Telling a target its context once. *)

(* The prompt is for the target that waits for it, and tells it a context  *)
(* only when it was not told one.                                          *)
PromptIsForRoute ==
    prompt # NoPrompt =>
        /\ prompt.target = route.target /\ prompt.id <= prompts
        /\ prompt.context # Bare => prompt.target \notin sent

(* What the daemon answers of a prompt; a refused one did not arrive, or   *)
(* could not be written down.                                              *)
PromptReply ==
    step = "prompting" =>
        /\ reply \in {"sent", "accepted", "unconfirmed", "refused"}
        /\ reply = "refused" /\ prompt # NoPrompt => taken[posted] = "none" \/ prompt.target \in repeated

(* What arrived is the prompt of its number. *)
ArrivedAsMade ==
    \A d \in delivered :
        /\ d.id <= prompts
        /\ prompt # NoPrompt /\ d.id = prompt.id => d.target = prompt.target /\ d.context = prompt.context

(* A target that was told its context is marked, or the prompt that told   *)
(* it is still recorded, so that no other one is made; unless it was given *)
(* up when its ten minutes were over or it could not be written down.      *)
ToldOnce ==
    \A d \in delivered : d.context # Bare /\ d.target \notin repeated =>
        /\ d.target \in sent \/ (prompt # NoPrompt /\ prompt.id = d.id)
        /\ \A e \in delivered : e.target = d.target /\ e.context # Bare => e = d

ToldInv == PromptIsForRoute /\ PromptReply /\ ArrivedAsMade /\ ToldOnce

LEMMA ToldKeeps ==
    ASSUME ToldInv, UNCHANGED <<route, prompt, sent, posted, prompts, taken, delivered, repeated>>,
           step' = "prompting" => step = "prompting" /\ reply' = reply
    PROVE  ToldInv'
BY DEF ToldInv, PromptIsForRoute, PromptReply, ArrivedAsMade, ToldOnce

LEMMA ToldStep ==
    ASSUME FlowInv, ToldInv, [Next]_vars PROVE ToldInv'
<1> USE DEF FlowInv
<1>f. prompt # NoPrompt => prompt.id \in Prompts /\ prompt.target \in Ids
  BY RecordFields DEF Types
<1>n. /\ prompts \in Nat /\ Prompts \subseteq Nat /\ Ids \subseteq Nat /\ None \notin Ids /\ None \notin Prompts
      /\ \A d \in delivered : d.id \in Prompts /\ d.target \in Ids
  BY HandoffAssumption DEF Types, FlowTypes, FirstTypes, None, Prompts, Ids
<1>1. ASSUME NEW a \in Agents, Continue(a) PROVE ToldInv'
  <2>1. step' # "prompting" /\ UNCHANGED <<route, prompt, sent, posted, prompts, taken, delivered, repeated>>
    BY <1>1 DEF Continue, Resume, Handoff, Ask, firsts, history
  <2> QED
    BY <2>1, ToldKeeps
<1>2. CASE HandoffAnswered
  <2>1. /\ step' # "prompting" /\ route = NoRoute
        /\ UNCHANGED <<prompt, sent, posted, prompts, taken, delivered, repeated>>
    BY <1>2 DEF HandoffAnswered, OneIsLeft, counts, firsts, history
  <2>2. prompt = NoPrompt
    BY <1>f, <1>n, <2>1 DEF ToldInv, PromptIsForRoute, NoRoute
  <2> QED
    BY <2>1, <2>2 DEF ToldInv, PromptIsForRoute, PromptReply, ArrivedAsMade, ToldOnce
<1>3. CASE \/ ReadSource \/ Breaks \/ Kill \/ Dies \/ HandoffBegins \/ HandoffRepeated
           \/ LinkArrives \/ LinksWritten \/ LinksUnwritten \/ Looks \/ LookEnds \/ Says \/ Renames
           \/ \E i \in Ids : \/ OtherListed(i) \/ HandoffRefused(i) \/ HandoffUncertain(i) \/ HandoffUnsaved(i)
                            \/ Checkpoint(i) \/ HandoffDone(i) \/ Makes(i) \/ DaemonLinks(i)
           \/ UNCHANGED vars
  <2>1. UNCHANGED <<route, prompt, sent, posted, prompts, taken, delivered, repeated>>
    BY <1>3 DEF ReadSource, Breaks, Kill, Dies, HandoffBegins, HandoffRepeated, LinkArrives, LinksWritten,
       LinksUnwritten, WriteEnds, Looks, LookEnds, Says, Renames, OtherListed, HandoffRefused, HandoffUncertain,
       HandoffUnsaved, Checkpoint, HandoffDone, Makes, DaemonLinks, vars, app, records, flow, counts,
       firsts, history
  <2>2. step' = "prompting" => step = "prompting" /\ reply' = reply
    BY <1>3 DEF ReadSource, Breaks, Kill, Dies, HandoffBegins, HandoffRepeated, LinkArrives, LinksWritten,
       LinksUnwritten, WriteEnds, Looks, LookEnds, Says, Renames, OtherListed, HandoffRefused, HandoffUncertain,
       HandoffUnsaved, Checkpoint, HandoffDone, Makes, DaemonLinks, vars, app, flow, Ask, Throws, Tell
  <2> QED
    BY <2>1, <2>2, ToldKeeps
<1>4. CASE LinkAnswered
  <2>1. /\ route # NoRoute /\ UNCHANGED <<route, sent, taken, delivered>>
        /\ step' = "prompting" => reply' = "sent"
    BY <1>4 DEF LinkAnswered, OneIsLeft, Ask, Throws, firsts
  <2>2. CASE UNCHANGED <<prompt, prompts, repeated>>
    BY <2>1, <2>2 DEF ToldInv, PromptIsForRoute, PromptReply, ArrivedAsMade, ToldOnce
  <2>3. CASE /\ prompts' = prompts + 1 /\ posted' = prompts'
             /\ prompt' = [id |-> posted', target |-> route.target, old |-> FALSE,
                           context |-> IF route.target \in sent THEN Bare ELSE context]
             /\ repeated' = IF prompt = NoPrompt THEN repeated ELSE repeated \cup {prompt.target}
    <3>1. /\ prompt'.id = prompts + 1 /\ prompt'.target = route.target
          /\ prompt'.context # Bare => route.target \notin sent
      BY <2>3
    <3>2. \A d \in delivered : d.id <= prompts' /\ d.id # prompt'.id
      <4> TAKE d \in delivered
      <4>1. d.id \in Nat /\ d.id <= prompts
        BY <1>n DEF ToldInv, ArrivedAsMade
      <4>2. prompts' = prompts + 1
        BY <2>3
      <4> QED
        BY <1>n, <3>1, <4>1, <4>2
    <3>3. PromptIsForRoute' /\ PromptReply' /\ ArrivedAsMade'
      BY <1>n, <2>1, <2>3, <3>1, <3>2 DEF PromptIsForRoute, PromptReply, ArrivedAsMade
    <3>4. ToldOnce'
      <4>1. ASSUME NEW d \in delivered, d.context # Bare, d.target \notin repeated'
            PROVE  /\ d.target \in sent
                   /\ \A e \in delivered : e.target = d.target /\ e.context # Bare => e = d
        <5>1. d.target \notin repeated /\ (prompt # NoPrompt => d.target # prompt.target)
          BY <2>3, <4>1
        <5> QED
          BY <4>1, <5>1 DEF ToldInv, ArrivedAsMade, ToldOnce
      <4> QED
        BY <2>1, <4>1 DEF ToldOnce
    <3> QED
      BY <3>3, <3>4 DEF ToldInv
  <2> QED
    BY <1>4, <2>2, <2>3 DEF LinkAnswered, Prepare
(* A prompt that is accepted marks what it told. *)
<1>a. ASSUME Accepted, prompt # NoPrompt, UNCHANGED <<delivered, prompts, repeated>>
      PROVE  PromptIsForRoute' /\ ArrivedAsMade' /\ ToldOnce'
  <2>1. /\ prompt' = NoPrompt /\ sent \subseteq sent'
        /\ prompt.context # Bare => prompt.target \in sent'
    BY <1>a DEF Accepted
  <2> QED
    BY <1>a, <2>1 DEF ToldInv, PromptIsForRoute, ArrivedAsMade, ToldOnce
<1>5. CASE PromptAnswered
  <2>1. /\ step = "prompting" /\ step' = "idle" /\ reply \in Answers
        /\ UNCHANGED <<posted, prompts, taken, delivered, repeated>>
        /\ \/ Accepted /\ route' = NoRoute
           \/ UNCHANGED <<prompt, sent, route>>
           \/ reply = "refused" /\ prompt' = NoPrompt /\ UNCHANGED <<sent, route>>
    BY <1>5 DEF PromptAnswered, Throws, Answers, firsts, counts, ToldInv, PromptReply
  <2>2. CASE Accepted
    <3>1. CASE prompt # NoPrompt
      BY <1>a, <2>1, <2>2, <3>1 DEF ToldInv, PromptReply
    <3>2. CASE prompt = NoPrompt
      BY <2>1, <2>2, <3>2 DEF Accepted, ToldInv, PromptIsForRoute, PromptReply, ArrivedAsMade, ToldOnce
    <3> QED
      BY <3>1, <3>2
  <2>3. CASE UNCHANGED <<prompt, sent, route>>
    BY <2>1, <2>3, ToldKeeps
  <2>4. CASE reply = "refused" /\ prompt' = NoPrompt /\ UNCHANGED <<sent, route>>
    <3>1. \A d \in delivered : prompt # NoPrompt => d.id # prompt.id \/ d.target \in repeated
      BY <2>1, <2>4 DEF ToldInv, PromptReply, PromptIsPosted, ArrivedAsMade
    <3> QED
      BY <2>1, <2>4, <3>1 DEF ToldInv, PromptIsForRoute, PromptReply, ArrivedAsMade, ToldOnce
  <2> QED
    BY <2>1, <2>2, <2>3, <2>4
<1>6. CASE PromptNoticed
  <2>1. /\ Accepted /\ prompt # NoPrompt
        /\ UNCHANGED <<step, reply, posted, prompts, taken, delivered, repeated>>
    BY <1>6 DEF PromptNoticed, flow, counts, firsts, history
  <2> QED
    BY <1>a, <2>1 DEF ToldInv, PromptReply, Accepted
<1>7. CASE PromptAges
  <2>1. /\ prompt # NoPrompt /\ prompt' = [prompt EXCEPT !.old = TRUE]
        /\ UNCHANGED <<route, sent, step, reply, posted, prompts, taken, delivered, repeated>>
    BY <1>7 DEF PromptAges, flow, counts, firsts, history
  <2>2. /\ prompt'.id = prompt.id /\ prompt'.target = prompt.target /\ prompt'.context = prompt.context
        /\ prompt' # NoPrompt
    <3>1. prompt'.id = prompt.id /\ prompt'.target = prompt.target /\ prompt'.context = prompt.context
      BY <2>1 DEF Types, RecordTypes
    <3> QED
      BY <1>f, <1>n, <2>1, <3>1 DEF NoPrompt
  <2> QED
    BY <2>1, <2>2 DEF ToldInv, PromptIsForRoute, PromptReply, ArrivedAsMade, ToldOnce
<1>8. CASE PromptRefused \/ PromptRepeated
  <2>1. /\ UNCHANGED <<app, firsts, history>> /\ reply' \in {"refused", "accepted", "unconfirmed"}
        /\ reply' = "refused" => taken[posted] = "none"
    BY <1>8 DEF PromptRefused, PromptRepeated
  <2>2. UNCHANGED <<route, prompt, sent, step, posted, prompts, taken, delivered, repeated>>
    BY <2>1 DEF app, records, flow, counts, firsts, history
  <2> QED
    BY <2>1, <2>2 DEF ToldInv, PromptIsForRoute, PromptReply, ArrivedAsMade, ToldOnce
<1>9. CASE PromptArrives \/ PromptUnsaved
  <2> DEFINE new == [id |-> posted, target |-> prompt.target, context |-> prompt.context]
  <2>1. /\ step = "prompting" /\ taken[posted] = "none"
        /\ UNCHANGED <<route, prompt, sent, step, posted, prompts>>
        /\ \/ reply' \in {"accepted", "unconfirmed"} /\ repeated' = repeated
           \/ reply' = "refused" /\ repeated' = repeated \cup {prompt.target}
        /\ delivered' = delivered \cup {new} \/ UNCHANGED delivered
    BY <1>9 DEF PromptArrives, PromptUnsaved, app, records, flow, counts, history
  <2>2. /\ prompt # NoPrompt /\ prompt.id = posted
        /\ new.id = prompt.id /\ new.target = prompt.target /\ new.context = prompt.context
        /\ \A d \in delivered : d.id # prompt.id
    BY <2>1 DEF PromptIsPosted
  <2> HIDE DEF new
  <2>3. PromptIsForRoute' /\ PromptReply'
    BY <2>1 DEF ToldInv, PromptIsForRoute, PromptReply
  <2>4. ArrivedAsMade'
    BY <2>1, <2>2 DEF ToldInv, PromptIsForRoute, ArrivedAsMade
  <2>5. ToldOnce'
    <3>1. ASSUME NEW d \in delivered, d.context # Bare, d.target \notin repeated
          PROVE  d.target \in sent /\ ~(new.target = d.target /\ new.context # Bare)
      BY <2>2, <3>1 DEF ToldInv, PromptIsForRoute, ToldOnce
    <3>2. ASSUME NEW d \in delivered, d.context # Bare, d.target \notin repeated,
                 NEW e \in delivered, e.target = d.target, e.context # Bare
          PROVE  e = d
      BY <3>2 DEF ToldInv, ToldOnce
    <3>r. repeated \subseteq repeated'
      BY <2>1
    <3>3. CASE UNCHANGED delivered
      BY <2>1, <3>3, <3>r DEF ToldInv, ToldOnce
    <3>4. CASE delivered' = delivered \cup {new}
      <4>1. ASSUME NEW d \in delivered', d.context # Bare, d.target \notin repeated
            PROVE  d.target \in sent \/ prompt.id = d.id
        BY <2>2, <3>1, <3>4, <4>1
      <4>2. ASSUME NEW d \in delivered', d.context # Bare, d.target \notin repeated,
                   NEW e \in delivered', e.target = d.target, e.context # Bare
            PROVE  e = d
        <5>1. CASE d \in delivered /\ e \in delivered
          BY <3>2, <4>2, <5>1
        <5>2. CASE d = new /\ e \in delivered
          BY <3>1, <4>2, <5>2
        <5>3. CASE d \in delivered /\ e = new
          BY <3>1, <4>2, <5>3
        <5>4. CASE d = new /\ e = new
          BY <5>4
        <5> QED
          BY <3>4, <5>1, <5>2, <5>3, <5>4
      <4> QED
        BY <2>1, <2>2, <3>r, <4>1, <4>2 DEF ToldOnce
    <3> QED
      BY <2>1, <3>3, <3>4
  <2> QED
    BY <2>3, <2>4, <2>5 DEF ToldInv
<1> QED
  BY <1>1, <1>2, <1>3, <1>4, <1>5, <1>6, <1>7, <1>8, <1>9
  DEF Next, AppStep, AnswerStep, Faults, JobStep

-----------------------------------------------------------------------------
HandoffInv == FlowInv /\ TargetInv /\ StoreInv /\ LinkInv /\ ToldInv

(* What a reachable state of the handoff is like, for any number of        *)
(* harnesses, handoffs, prompts and failures: what is left to continue,    *)
(* which Sessions may exist, how far the file of the links is, and what a  *)
(* target was told.                                                        *)
THEOREM HandoffInvariant == Spec => []HandoffInv
<1>1. Init => HandoffInv
  <2> SUFFICES ASSUME Init PROVE HandoffInv
    OBVIOUS
  <2>1. FlowInv
    BY FlowInit
  <2>2. TargetInv
    BY DEF Init, TargetInv, LedgerKnows, Covered, RefusedIsGone
  <2>3. StoreInv
    BY DEF Init, StoreInv, FileFollows, NoLinks, Bare, NoLink
  <2>4. LinkInv /\ ToldInv
    BY DEF Init, LinkInv, ToldInv, PromptIsForRoute, PromptReply, ArrivedAsMade, ToldOnce
  <2> QED
    BY <2>1, <2>2, <2>3, <2>4 DEF HandoffInv
<1>2. HandoffInv /\ [Next]_vars => HandoffInv'
  <2> SUFFICES ASSUME HandoffInv, [Next]_vars PROVE HandoffInv'
    OBVIOUS
  <2> USE DEF HandoffInv
  <2>1. FlowInv'
    BY FlowStep
  <2> QED
    BY <2>1, TargetStep, StoreStep, LinkStep, ToldStep
<1> QED
  BY <1>1, <1>2, PTL DEF Spec

(* The records of the app, the ledger and the links keep their types.      *)
THEOREM HandoffTypeCorrect == Spec => []TypeOK
<1>1. HandoffInv => TypeOK
  BY TypesAreRight DEF HandoffInv, FlowInv
<1> QED
  BY <1>1, HandoffInvariant, PTL

(* "Create exactly one real native Session": however often the user tries  *)
(* again, whatever answer is lost, and whenever the app or the daemon is   *)
(* killed, at most one Session made for the source was neither opened nor  *)
(* lost to the app, by an answer that told it there is none or another     *)
(* Session that was taken for it.                                          *)
THEOREM OneTargetPerContinueHolds == Spec => []OneTargetPerContinue
<1>1. HandoffInv => OneTargetPerContinue
  BY OneTarget DEF HandoffInv
<1> QED
  BY <1>1, HandoffInvariant, PTL

(* What a Session was told of its source is in the file of the links,      *)
(* unless a write failed or the links were changed while they were not     *)
(* known, and it is told once, unless its prompt was given up or could not *)
(* be written down.                                                        *)
THEOREM TransferIsRecordedHolds == Spec => []TransferIsRecorded
<1>1. HandoffInv => TransferIsRecorded
  BY DEF HandoffInv, LinkInv, IsDown, ToldInv, ToldOnce, TransferIsRecorded
<1> QED
  BY <1>1, HandoffInvariant, PTL

=============================================================================
