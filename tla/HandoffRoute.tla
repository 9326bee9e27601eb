------------------------------ MODULE HandoffRoute ------------------------------
(***************************************************************************)
(* Continuing a native Session on another harness: the app has a Session   *)
(* made there (native-session-handoff.ts), registers the link between the  *)
(* two with the context it transfers (session-link-store.js), and sends    *)
(* the first prompt to the new one (native-session-routing.ts), with a     *)
(* durable record for each of these, so that it can be tried again after a *)
(* lost answer or a kill of the app.                                       *)
(*                                                                         *)
(* One source Session.  The ledger is OperationLedger's: here a request id *)
(* makes at most one Session, which has that id, and the ledger's writes   *)
(* fail only where that misleads the app.  A context is the version of the transcript it   *)
(* was taken from.  The user continues with the same instruction and model *)
(* each time, and the app's records can be stored but for the route's.     *)
(***************************************************************************)
EXTENDS Naturals, FiniteSets

CONSTANTS Agents,      \* the harnesses to continue on
          MaxHandoffs, \* bound: handoffs asked for
          MaxPrompts,  \* bound: first prompts made
          Quiet,       \* those that list a Session only from its first prompt, as PI
          MaxSaid,     \* bound: growth of the source's transcript
          Budgets      \* bounds: how often each of Events may happen in a behaviour

Ids == 1..MaxHandoffs
Prompts == 1..MaxPrompts
None == 0
Events == {"kills", "deaths", "failures", "renames", "looks", "others"}
NoRequest == [id |-> None]
NoRoute == [target |-> None]
NoPrompt == [id |-> None]
NoLink == 0
Bare == 1
Contexts == 2..(2 + MaxSaid)
Links == [Ids -> {NoLink, Bare} \cup Contexts]
NoLinks == [i \in Ids |-> NoLink]
Nothing == [i \in {} |-> NoLink]

ASSUME HandoffAssumption ==
    /\ {MaxHandoffs, MaxPrompts, MaxSaid} \subseteq Nat
    /\ Budgets \subseteq [Events -> Nat]

VARIABLES
    request,   \* the record of the handoff
    route,     \* the record of the target that still waits for its first prompt
    prompt,    \* the record of that prompt; "old" once its ten minutes are over
    sent,      \* the targets marked as having received their context
    step,      \* where continueNativeSessionOnRoute is
    context,   \* what it read of the source
    posted,    \* the prompt it sends
    reply,     \* of the request it waits for: "none", "sent", "served", or the answer
    handoffs,  \* handoffs asked for so far
    prompts,   \* first prompts made so far
    ledger,    \* the daemon's entry of each handoff
    asked,     \* session/new requests that are with the harness
    jobs,      \* how far the daemon is with each handoff
    made,      \* the Sessions that exist
    owned,     \* in #ownedSessions of their harness: listed in any case
    crowded,   \* the handoffs since which another Session is listed where theirs is to be
    taken,     \* the daemon's entry of each prompt
    delivered, \* the prompts that arrived
    links,     \* #links
    linkFile,  \* the file of the links
    saving,    \* the links being written
    loaded,    \* the file: "unread", "reading" by listFor, "read"
    look,      \* what listFor found in the file when it began to read
    said,      \* the version of the source's transcript
    title,     \* the version of its title
    budget,    \* how often each of Events may still happen
    finished,  \* history: targets that were opened
    misjudged, \* history: handoffs that were answered 409 though a Session may exist
    mistaken,  \* history: handoffs for whose Session another's was taken
    repeated,  \* history: targets whose prompt was given up when its ten minutes were over,
               \* or was refused though it was sent, as its entry could not be written
    raced,     \* history: links were changed while the file was unread or unreadable
    unsaved    \* history: targets whose link failed to be written

records == <<request, route, prompt, sent>>
flow == <<step, context, posted>>
counts == <<handoffs, prompts>>
app == <<records, flow, counts>>
listing == <<owned, crowded>>
sessions == <<ledger, asked, jobs, made, listing>>
firsts == <<taken, delivered>>
store == <<links, linkFile, saving, loaded, look>>
world == <<said, title, budget>>
history == <<finished, misjudged, mistaken, repeated, raced, unsaved>>
vars == <<app, reply, sessions, firsts, store, world, history>>

Answers == {"accepted", "unconfirmed", "refused", "error"}

TypeOK ==
    /\ request \in [id : Ids, agent : Agents, title : Nat] \cup {NoRequest}
    /\ route \in [target : Ids, agent : Agents] \cup {NoRoute}
    /\ prompt \in [id : Prompts, target : Ids, context : {Bare} \cup Contexts, old : BOOLEAN] \cup {NoPrompt}
    /\ step \in {"idle", "creating", "reading", "linking", "prompting"}
    /\ context \in {Bare} \cup Contexts /\ posted \in {None} \cup Prompts
    /\ reply \in {"none", "sent", "served"} \cup Answers
    /\ handoffs \in {None} \cup Ids /\ prompts \in {None} \cup Prompts
    /\ ledger \in [Ids -> {"none", "pending", "uncertain", "accepted"}]
    /\ jobs \in [Ids -> {"none", "creating", "enriching", "saving", "enriched"}]
    /\ taken \in [Prompts -> {"none", "uncertain", "accepted"}]
    /\ delivered \subseteq [id : Prompts, target : Ids, context : {Bare} \cup Contexts]
    /\ {links, linkFile} \subseteq Links /\ {saving, look} \subseteq Links \cup {Nothing}
    /\ loaded \in {"unread", "reading", "read"}
    /\ said \in Contexts /\ title \in Nat /\ budget \in [Events -> Nat] /\ raced \in BOOLEAN
    /\ sent \cup asked \cup made \cup owned \cup crowded \subseteq Ids
    /\ finished \cup misjudged \cup mistaken \cup repeated \cup unsaved \subseteq Ids

Init ==
    /\ request = NoRequest /\ route = NoRoute /\ prompt = NoPrompt /\ sent = {}
    /\ step = "idle" /\ context = Bare /\ posted = None /\ reply = "none"
    /\ handoffs = None /\ prompts = None
    /\ ledger = [i \in Ids |-> "none"] /\ asked = {} /\ made = {}
    /\ owned = {} /\ crowded = {}
    /\ jobs = [i \in Ids |-> "none"]
    /\ taken = [n \in Prompts |-> "none"] /\ delivered = {}
    /\ links = NoLinks /\ linkFile = NoLinks /\ saving = Nothing
    /\ loaded = "unread" /\ look = Nothing
    /\ said = 2 /\ title = 0 /\ budget \in Budgets
    /\ finished = {} /\ misjudged = {} /\ mistaken = {} /\ repeated = {} /\ raced = FALSE /\ unsaved = {}

Spend(what) ==
    /\ budget[what] > 0
    /\ budget' = [budget EXCEPT ![what] = @ - 1]

-----------------------------------------------------------------------------
(* The app. *)

Ask(next) == step' = next /\ reply' = "sent"
Throws == step' = "idle" /\ reply' = "none"

(* The route's target is known: the handoff's record goes. *)
Resume(a) ==
    /\ route # NoRoute /\ route.agent = a
    /\ request' = NoRequest
    /\ step' = "reading"
    /\ UNCHANGED <<reply, handoffs>>

NewRequest(a) ==
    /\ handoffs < MaxHandoffs
    /\ handoffs' = handoffs + 1
    /\ request' = [id |-> handoffs', agent |-> a, title |-> title]

SameRequest(a) == request.agent = a /\ request.title = title

(* Slip: a handoff that was not resolved is replaced by one that differs. *)
HandoffRenewed(a) ==
    /\ route = NoRoute
    /\ IF request # NoRequest /\ SameRequest(a) THEN UNCHANGED <<request, handoffs>>
       ELSE NewRequest(a)
    /\ Ask("creating")

(* A handoff that was not resolved is only asked for again as it was. *)
Handoff(a) ==
    /\ route = NoRoute
    /\ IF request # NoRequest THEN SameRequest(a) /\ UNCHANGED <<request, handoffs>>
       ELSE NewRequest(a)
    /\ Ask("creating")

Continue(a) ==
    /\ step = "idle"
    /\ Resume(a) \/ Handoff(a)
    /\ UNCHANGED <<route, prompt, sent, context, posted, prompts, sessions, firsts, store, world, history>>

(* The target is recorded before the handoff's record is given up.  A      *)
(* record of the route that cannot be stored is as good as no answer.      *)
HandoffAnswered ==
    /\ step = "creating" /\ reply \in Answers
    /\ reply' = "none"
    /\ \/ /\ reply = "accepted"
          /\ route' = [target |-> request.id, agent |-> request.agent]
          /\ request' = NoRequest
          /\ step' = "reading"
          /\ UNCHANGED budget
       \/ reply = "accepted" /\ Spend("failures") /\ step' = "idle" /\ UNCHANGED <<request, route>>
       \/ reply = "refused" /\ request' = NoRequest /\ step' = "idle" /\ UNCHANGED <<route, budget>>
       \/ reply \in {"unconfirmed", "error"} /\ step' = "idle" /\ UNCHANGED <<request, route, budget>>
    /\ UNCHANGED <<prompt, sent, context, posted, counts, sessions, firsts, store, said, title, history>>

(* A page of the source is the context that will be transferred. *)
ReadSource ==
    /\ step = "reading"
    /\ \/ context' = said /\ Ask("linking") /\ UNCHANGED budget
       \/ Spend("failures") /\ Throws /\ UNCHANGED context
    /\ UNCHANGED <<records, posted, counts, sessions, firsts, store, said, title, history>>

(* sendNativeSessionPrompt: a prompt that was not resolved is sent as it   *)
(* was, with the context it had, until its ten minutes are over.           *)
Prepare ==
    IF prompt # NoPrompt /\ ~prompt.old
    THEN posted' = prompt.id /\ UNCHANGED <<prompt, prompts, repeated>>
    ELSE /\ prompts < MaxPrompts
         /\ prompts' = prompts + 1 /\ posted' = prompts'
         /\ prompt' = [id |-> posted', target |-> route.target, old |-> FALSE,
                       context |-> IF route.target \in sent THEN Bare ELSE context]
         /\ repeated' = IF prompt = NoPrompt THEN repeated ELSE repeated \cup {prompt.target}

LinkAnswered ==
    /\ step = "linking" /\ reply \in Answers
    /\ \/ reply = "accepted" /\ Prepare /\ Ask("prompting")
       \/ reply # "accepted" /\ Throws /\ UNCHANGED <<prompt, prompts, posted, repeated>>
    /\ UNCHANGED <<request, route, sent, context, handoffs, sessions, firsts, store, world,
                   finished, misjudged, mistaken, raced, unsaved>>

(* Slip: the record goes, and the mark is not set. *)
AcceptedUnmarked == prompt' = NoPrompt /\ UNCHANGED sent

(* markPendingNativeSessionPromptAccepted *)
Accepted ==
    /\ prompt' = NoPrompt
    /\ sent' = IF prompt # NoPrompt /\ prompt.context # Bare THEN sent \cup {prompt.target} ELSE sent

(* Any refusal clears the prompt's record; the target is opened, and its   *)
(* record given up, when the prompt was accepted.                          *)
PromptAnswered ==
    /\ step = "prompting" /\ reply \in Answers
    /\ Throws
    /\ CASE reply = "accepted" -> Accepted /\ route' = NoRoute /\ finished' = finished \cup {route.target}
         [] reply = "unconfirmed" -> UNCHANGED <<prompt, sent, route, finished>>
         [] OTHER -> prompt' = NoPrompt /\ UNCHANGED <<sent, route, finished>>
    /\ UNCHANGED <<request, context, posted, counts, sessions, firsts, store, world,
                   misjudged, mistaken, repeated, raced, unsaved>>

(* A request or its answer is lost. *)
Breaks ==
    /\ reply \in {"sent", "served"}
    /\ Spend("failures")
    /\ Throws
    /\ UNCHANGED <<records, context, posted, counts, sessions, firsts, store, said, title, history>>

Kill ==
    /\ step # "idle"
    /\ Spend("kills")
    /\ Throws
    /\ UNCHANGED <<records, context, posted, counts, sessions, firsts, store, said, title, history>>

(* The user looks at the target, and its transcript shows the prompt. *)
PromptNoticed ==
    /\ prompt # NoPrompt /\ \E d \in delivered : d.id = prompt.id
    /\ Accepted
    /\ UNCHANGED <<request, route, flow, reply, counts, sessions, firsts, store, world, history>>

PromptAges ==
    /\ prompt # NoPrompt /\ ~prompt.old
    /\ prompt' = [prompt EXCEPT !.old = TRUE]
    /\ UNCHANGED <<request, route, sent, flow, reply, counts, sessions, firsts, store, world, history>>

-----------------------------------------------------------------------------
(* The handoff in the daemon. *)

Tell(i, answer) ==
    reply' = IF step = "creating" /\ reply = "served" /\ request.id = i THEN answer ELSE reply

Idle(i) == jobs' = [jobs EXCEPT ![i] = "none"]
Record(i, state) == ledger' = [ledger EXCEPT ![i] = state]

(* The entry is written and the Session asked for; or it cannot be         *)
(* written, which is a 409, since the error names the file of the          *)
(* "session"-operations.                                                   *)
HandoffBegins ==
    /\ step = "creating" /\ reply = "sent" /\ ledger[request.id] = "none"
    /\ Record(request.id, "pending")
    /\ \/ /\ asked' = asked \cup {request.id}
          /\ jobs' = [jobs EXCEPT ![request.id] = "creating"]
          /\ reply' = "served"
          /\ UNCHANGED budget
       \/ Spend("failures") /\ reply' = "refused" /\ UNCHANGED <<asked, jobs>>
    /\ UNCHANGED <<app, made, listing, firsts, store, said, title, history>>

(* Slip: an uncertain entry is left as it is. *)
RepeatAnswered ==
    /\ step = "creating" /\ reply = "sent" /\ ledger[request.id] # "none"
    /\ reply' = IF ledger[request.id] = "accepted" THEN "accepted" ELSE "unconfirmed"
    /\ UNCHANGED <<app, sessions, firsts, store, world, history>>

(* Is the Session of the request listed?  It had no prompt yet. *)
Listed == request.id \in made /\ (request.agent \in Quiet => request.id \in owned)

(* What is listed that was not before the request: one Session alone. *)
OneCandidate == Listed # (request.id \in crowded)

(* A retry of an uncertain handoff reconciles it: the only candidate is    *)
(* linked and recorded like a Session that was just made.                  *)
HandoffRepeated ==
    /\ step = "creating" /\ reply = "sent" /\ ledger[request.id] # "none"
    /\ IF ledger[request.id] = "uncertain" /\ OneCandidate
       THEN /\ reply' = "served"
            /\ jobs' = [jobs EXCEPT ![request.id] = IF @ = "none" THEN "enriching" ELSE @]
            /\ mistaken' = IF Listed THEN mistaken ELSE mistaken \cup {request.id}
       ELSE /\ reply' = IF ledger[request.id] = "accepted" THEN "accepted" ELSE "unconfirmed"
            /\ UNCHANGED <<jobs, mistaken>>
    /\ UNCHANGED <<app, ledger, asked, made, listing, firsts, store, world,
                   finished, misjudged, repeated, raced, unsaved>>

(* Another Session comes to be listed where that of a handoff is made. *)
OtherListed(i) ==
    /\ ledger[i] # "none" /\ i \notin crowded
    /\ Spend("others")
    /\ crowded' = crowded \cup {i}
    /\ UNCHANGED <<app, reply, ledger, asked, jobs, made, owned, firsts, store, said, title, history>>

Makes(i) ==
    /\ i \in asked
    /\ asked' = asked \ {i}
    /\ made' = made \cup {i}
    /\ UNCHANGED <<app, reply, ledger, jobs, listing, firsts, store, world, history>>

(* createSession() has the answer. *)
Answered(i) == i \in made /\ owned' = owned \cup {i}

(* The result is in the ledger before anything else is done with it. *)
Checkpoint(i) ==
    /\ jobs[i] = "creating" /\ Answered(i)
    /\ Record(i, "accepted")
    /\ jobs' = [jobs EXCEPT ![i] = "enriching"]
    /\ UNCHANGED <<app, reply, asked, made, crowded, firsts, store, world, history>>

(* The harness refuses (4xx), or cannot be asked (503). *)
HandoffRefused(i) ==
    /\ jobs[i] = "creating" /\ i \in asked
    /\ Spend("failures")
    /\ asked' = asked \ {i}
    /\ Record(i, "none") /\ Idle(i)
    /\ Tell(i, "refused") \/ Tell(i, "error")
    /\ UNCHANGED <<app, made, listing, firsts, store, said, title, history>>

(* The harness's answer is lost, or the checkpoint cannot be written: 202. *)
HandoffUncertain(i) ==
    /\ jobs[i] = "creating"
    /\ Spend("failures")
    /\ UNCHANGED owned \/ Answered(i)
    /\ Record(i, "uncertain") /\ Idle(i)
    /\ Tell(i, "unconfirmed")
    /\ UNCHANGED <<app, asked, made, crowded, firsts, store, said, title, history>>

(* Nor can that be written: the error of the file system is a 409 too. *)
HandoffUnsaved(i) ==
    /\ jobs[i] = "creating"
    /\ Spend("failures")
    /\ UNCHANGED owned \/ Answered(i)
    /\ Record(i, "uncertain") /\ Idle(i)
    /\ Tell(i, "refused")
    /\ misjudged' = misjudged \cup {i}
    /\ UNCHANGED <<app, asked, made, crowded, firsts, store, said, title,
                   finished, mistaken, repeated, raced, unsaved>>

(* With the link, or without one that could not be kept. *)
HandoffDone(i) ==
    /\ jobs[i] = "enriched"
    /\ Record(i, "accepted") /\ Idle(i)
    /\ Tell(i, "accepted")
    /\ UNCHANGED <<app, asked, made, listing, firsts, store, world, history>>

(* The daemon dies: a handoff it had not resolved stays pending. *)
Dies ==
    /\ Spend("deaths")
    /\ ledger' = [i \in Ids |-> IF i \in misjudged THEN "pending" ELSE ledger[i]]
    /\ asked' = {} /\ jobs' = [i \in Ids |-> "none"] /\ owned' = {}
    /\ links' = NoLinks /\ loaded' = "unread" /\ saving' = Nothing /\ look' = Nothing
    /\ IF reply \in {"sent", "served"} THEN Throws ELSE UNCHANGED <<step, reply>>
    /\ UNCHANGED <<records, context, posted, counts, made, crowded, firsts, linkFile, said, title, history>>

-----------------------------------------------------------------------------
(* The links. *)

(* addHandoff, up to its write: one at a time, on the links of the file if *)
(* they were not read yet.  A link without a context changes none.         *)
Registers(s, c) ==
    /\ saving = Nothing
    /\ LET known == IF loaded = "unread" THEN linkFile ELSE links
       IN  /\ links' = [known EXCEPT ![s] = IF c = Bare /\ @ # NoLink THEN @ ELSE c]
           /\ saving' = IF links' = known THEN Nothing ELSE links'
    /\ loaded' = IF loaded = "unread" THEN "read" ELSE loaded
    /\ raced' = (raced \/ loaded = "reading")
    /\ UNCHANGED <<linkFile, look>>

(* The file cannot be read: it is taken for read all the same. *)
Unreadable ==
    /\ saving = Nothing /\ loaded = "unread"
    /\ Spend("failures")
    /\ loaded' = "read" /\ raced' = TRUE
    /\ UNCHANGED <<links, linkFile, saving, look>>

LinkArrives ==
    /\ step = "linking" /\ reply = "sent"
    /\ \/ /\ Registers(route.target, context)
          /\ reply' = IF saving' = Nothing THEN "accepted" ELSE "served"
          /\ UNCHANGED budget
       \/ Unreadable /\ reply' = "error"
    /\ UNCHANGED <<app, sessions, firsts, said, title, finished, misjudged, mistaken, repeated, unsaved>>

(* handoffResultForTarget *)
DaemonLinks(i) ==
    /\ jobs[i] = "enriching"
    /\ \/ /\ Registers(i, Bare)
          /\ jobs' = [jobs EXCEPT ![i] = IF saving' = Nothing THEN "enriched" ELSE "saving"]
          /\ UNCHANGED budget
       \/ Unreadable /\ jobs' = [jobs EXCEPT ![i] = "enriched"]
    /\ UNCHANGED <<app, reply, ledger, asked, made, listing, firsts, said, title,
                   finished, misjudged, mistaken, repeated, unsaved>>

(* A write ends for the handoff that waits for it, or else for the app. *)
WriteEnds(answer) ==
    /\ saving # Nothing
    /\ saving' = Nothing
    /\ jobs' = [i \in Ids |-> IF jobs[i] = "saving" THEN "enriched" ELSE jobs[i]]
    /\ reply' = IF step = "linking" /\ reply = "served" THEN answer ELSE reply
    /\ UNCHANGED <<app, ledger, asked, made, listing, firsts, links, loaded, look, said, title,
                   finished, misjudged, mistaken, repeated, raced>>

LinksWritten ==
    /\ WriteEnds("accepted")
    /\ linkFile' = saving
    /\ UNCHANGED <<budget, unsaved>>

LinksUnwritten ==
    /\ WriteEnds("error")
    /\ Spend("failures")
    /\ unsaved' = unsaved \cup {i \in Ids : saving[i] # linkFile[i]}
    /\ UNCHANGED linkFile

(* listFor reads the file beside them, and what it finds is put over what  *)
(* is there by then.                                                       *)
Looks ==
    /\ loaded = "unread"
    /\ Spend("looks")
    /\ loaded' = "reading" /\ look' = linkFile
    /\ UNCHANGED <<app, reply, sessions, firsts, links, linkFile, saving, said, title, history>>

LookEnds ==
    /\ loaded = "reading"
    /\ \E file \in {look, linkFile} :
           links' = [i \in Ids |-> IF file[i] # NoLink THEN file[i] ELSE links[i]]
    /\ loaded' = "read" /\ look' = Nothing
    /\ UNCHANGED <<app, reply, sessions, firsts, linkFile, saving, world, history>>

-----------------------------------------------------------------------------
(* The first prompt in the daemon: its ledger, in one step. *)

PromptArrives ==
    /\ step = "prompting" /\ reply = "sent" /\ taken[posted] = "none"
    /\ \/ taken' = [taken EXCEPT ![posted] = "accepted"] /\ reply' = "accepted" /\ UNCHANGED budget
       \/ Spend("failures") /\ taken' = [taken EXCEPT ![posted] = "uncertain"] /\ reply' = "unconfirmed"
    /\ \/ delivered' = delivered \cup {[id |-> posted, target |-> prompt.target, context |-> prompt.context]}
       \/ reply' = "unconfirmed" /\ UNCHANGED delivered
    /\ UNCHANGED <<app, sessions, store, said, title, history>>

PromptRefused ==
    /\ step = "prompting" /\ reply = "sent" /\ taken[posted] = "none"
    /\ Spend("failures")
    /\ reply' = "refused"
    /\ UNCHANGED <<app, sessions, firsts, store, said, title, history>>

(* The prompt is sent, and then its entry can be written neither as        *)
(* accepted nor as uncertain: what that throws refuses the prompt.         *)
PromptUnsaved ==
    /\ step = "prompting" /\ reply = "sent" /\ taken[posted] = "none"
    /\ Spend("failures")
    /\ taken' = [taken EXCEPT ![posted] = "uncertain"]
    /\ delivered' = delivered \cup {[id |-> posted, target |-> prompt.target, context |-> prompt.context]}
    /\ reply' = "refused"
    /\ repeated' = repeated \cup {prompt.target}
    /\ UNCHANGED <<app, sessions, store, said, title, finished, misjudged, mistaken, raced, unsaved>>

PromptRepeated ==
    /\ step = "prompting" /\ reply = "sent" /\ taken[posted] # "none"
    /\ reply' = IF taken[posted] = "accepted" THEN "accepted" ELSE "unconfirmed"
    /\ UNCHANGED <<app, sessions, firsts, store, world, history>>

-----------------------------------------------------------------------------
(* The source goes on, and may be renamed. *)

Says ==
    /\ said < 2 + MaxSaid
    /\ said' = said + 1
    /\ UNCHANGED <<app, reply, sessions, firsts, store, title, budget, history>>

Renames ==
    /\ Spend("renames")
    /\ title' = title + 1
    /\ UNCHANGED <<app, reply, sessions, firsts, store, said, history>>

AppStep == HandoffAnswered \/ ReadSource \/ LinkAnswered \/ PromptAnswered

(* What the daemon answers at once; its work on a handoff. *)
AnswerStep == HandoffBegins \/ HandoffRepeated \/ PromptArrives \/ PromptRepeated
JobStep(i) == Checkpoint(i) \/ DaemonLinks(i) \/ HandoffDone(i)

Faults ==
    \/ Breaks \/ Kill \/ Dies
    \/ \E i \in Ids : HandoffRefused(i) \/ HandoffUncertain(i) \/ HandoffUnsaved(i)
    \/ LinksUnwritten \/ PromptRefused \/ PromptUnsaved

Next ==
    \/ \E a \in Agents : Continue(a)
    \/ AppStep \/ AnswerStep \/ Faults
    \/ \E i \in Ids : JobStep(i) \/ Makes(i) \/ OtherListed(i)
    \/ LinkArrives \/ LinksWritten \/ LookEnds
    \/ PromptNoticed \/ PromptAges
    \/ Looks \/ Says \/ Renames

Spec == Init /\ [][Next]_vars

(* Something is left to continue. *)
Left == request # NoRequest \/ route # NoRoute

Retry == Left /\ \E a \in Agents : Continue(a)

(* The user tries again, and what was begun goes on. *)
FairSpec ==
    /\ Spec
    /\ WF_vars(Retry) /\ WF_vars(AppStep) /\ WF_vars(AnswerStep)
    /\ \A i \in Ids : WF_vars(JobStep(i)) /\ WF_vars(Makes(i))
    /\ WF_vars(LinkArrives) /\ WF_vars(LinksWritten) /\ WF_vars(LookEnds)
    /\ WF_vars(PromptAges)

-----------------------------------------------------------------------------
(* "Create exactly one real native Session": of the Sessions made for the  *)
(* source at most one was neither opened nor lost to the app, by an answer *)
(* that told it there is none or another one that was taken for it.        *)
OneTargetPerContinue == Cardinality(made \ (finished \cup misjudged \cup mistaken)) <= 1

(* What a Session was told of its source is there to be inspected: its     *)
(* link is in the file with that context or a newer one, unless a write    *)
(* failed or the links were not known.  And it is told once, unless its    *)
(* prompt was made anew when the first one's time was over, or when it was *)
(* refused since the daemon could not write down that it was sent.         *)
TransferIsRecorded ==
    \A d \in delivered : d.context # Bare =>
        /\ ~raced /\ d.target \notin unsaved => linkFile[d.target] >= d.context
        /\ d.target \notin repeated =>
               \A e \in delivered : e.target = d.target /\ e.context # Bare => e = d

(* The states a handoff does not leave: the title it was asked with is no  *)
(* longer the source's, the daemon died over it, or it is uncertain and    *)
(* its Session is not the one that is new: none was made, or none that is  *)
(* listed, or another one is listed beside it.                             *)
Stuck ==
    /\ request # NoRequest
    /\ \/ request.title # title
       \/ ledger[request.id] = "pending" /\ jobs[request.id] = "none"
       \/ ledger[request.id] = "uncertain" /\ ~OneCandidate

(* A user who keeps trying gets there, or is stuck for good in one of the  *)
(* states above.                                                           *)
ContinueEnds == Left ~> (~Left \/ []Stuck)

=============================================================================
