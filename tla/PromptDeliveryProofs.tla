------------------------- MODULE PromptDeliveryProofs -------------------------
(***************************************************************************)
(* What TLAPS proves of PromptDelivery, for wishes that differ in their    *)
(* texts: what the user wants to send once reaches the Session at most     *)
(* once (OncePerWish), and is never lost silently (NothingVanishes).       *)
(*                                                                         *)
(* The inductive invariant has three parts, proved one after the other,    *)
(* each from those before it: FlowInv, the types and what is where while   *)
(* something is sent; AliveInv, which requests may still be carried out;   *)
(* KeptInv, where each wish is.                                            *)
(***************************************************************************)
EXTENDS PromptDelivery, SequenceTheorems, FiniteSetTheorems, WellFoundedInduction, TLAPS

(* The texts tell the wishes apart: the app takes a text that is sent      *)
(* again for the request that is still unresolved, and a message with the  *)
(* text of a request for its delivery.                                     *)
TextsDiffer == \A v, w \in Wishes : Text[v] = Text[w] => v = w

-----------------------------------------------------------------------------
(* Numbers and sequences. *)

(* A bounded set of numbers has a least and a greatest element. *)
LEMMA Largest ==
    ASSUME NEW n \in Nat, NEW S \in SUBSET (0..n), S # {}
    PROVE  \E x \in S : \A y \in S : y <= x
<1> DEFINE T == {x..n : x \in S}
<1>1. T \subseteq FiniteSubsetsOf(0..n)
  <2>1. IsFiniteSet(0..n)
    BY FS_Interval
  <2>2. FiniteSubsetsOf(0..n) = SUBSET (0..n)
    BY <2>1, FS_FiniteSubsetsOfFinite
  <2> QED
    BY <2>2
<1>2. T # {}
  OBVIOUS
<1>3. PICK t \in T : \A s \in T : <<s, t>> \notin StrictSubsetOrdering(0..n)
  <2> HIDE DEF T
  <2> QED
    BY <1>1, <1>2, FS_StrictSubsetOrderingWellFounded, WFMin
<1>4. PICK x \in S : t = x..n
  OBVIOUS
<1>5. ASSUME NEW y \in S PROVE y <= x
  <2>1. y..n \in T /\ y..n \in SUBSET (0..n) /\ x..n \in SUBSET (0..n)
    OBVIOUS
  <2>2. ~(y..n \subseteq x..n /\ y..n # x..n)
    BY <1>3, <1>4, <2>1 DEF StrictSubsetOrdering
  <2>3. SUFFICES ASSUME x < y PROVE FALSE
    OBVIOUS
  <2>4. x \in x..n /\ x \notin y..n /\ y..n \subseteq x..n
    BY <2>3
  <2> QED
    BY <2>2, <2>4
<1> QED
  BY <1>5

LEMMA Smallest ==
    ASSUME NEW n \in Nat, NEW S \in SUBSET (0..n), S # {}
    PROVE  \E x \in S : \A y \in S : x <= y
<1> DEFINE R == {n - x : x \in S}
<1>1. R \in SUBSET (0..n) /\ R # {}
  OBVIOUS
<1>2. PICK r \in R : \A y \in R : y <= r
  <2> HIDE DEF R
  <2> QED
    BY <1>1, Largest
<1>3. PICK x \in S : r = n - x
  OBVIOUS
<1>4. ASSUME NEW y \in S PROVE x <= y
  <2>1. n - y \in R
    OBVIOUS
  <2>2. n - y <= n - x
    BY <1>2, <1>3, <2>1
  <2> HIDE DEF R
  <2> QED
    BY <2>2
<1> QED
  BY <1>4

LEMMA AppendSet ==
    ASSUME NEW S, NEW s \in Seq(S), NEW e \in S
    PROVE  Append(s, e) \in Seq(S) /\ ToSet(Append(s, e)) = ToSet(s) \cup {e}
<1>1. /\ Append(s, e) \in Seq(S) /\ Len(Append(s, e)) = Len(s) + 1
      /\ \A i \in 1..Len(s) : Append(s, e)[i] = s[i]
      /\ Append(s, e)[Len(s) + 1] = e
  BY AppendProperties
<1>2. DOMAIN s = 1..Len(s) /\ DOMAIN Append(s, e) = 1..Len(s) + 1 /\ Len(s) \in Nat
  BY <1>1, LenProperties
<1> QED
  BY <1>1, <1>2 DEF ToSet

-----------------------------------------------------------------------------
(* The types, and what is where while something is sent. *)

RecordIsMade == record # NoRecord => record.id \in Ids

PhaseInv ==
    /\ phase = "idle" => sending = None
    /\ phase # "idle" => draft = None /\ sending # None

(* A POST has one message under way, and an answer is that to the POST     *)
(* which the app awaits.                                                   *)
AnswersInv ==
    \A m \in wire :
        /\ m.post <= posts
        /\ m.at \notin {"travelling", "dispatching"} => phase = "posting" /\ m.post = posts
        /\ \A n \in wire : m.post = n.post => m = n

FlowInv == TypeOK /\ RecordIsMade /\ PhaseInv /\ AnswersInv

LEMMA Numbers ==
    ASSUME TypeOK
    PROVE  /\ Len(wishOf) \in Nat /\ Ids = 1..Len(wishOf) /\ None \notin Ids
           /\ \A i \in Ids : wishOf[i] \in Wishes
           /\ Len(messages) \in Nat /\ DOMAIN messages = 1..Len(messages)
           /\ \A i \in DOMAIN messages : messages[i] \in Ids
           /\ Delivered \subseteq Ids
           /\ None \notin Wishes
<1>1. wishOf \in Seq(Wishes) /\ messages \in Seq(Ids)
  BY DEF TypeOK
<1>2. /\ Len(wishOf) \in Nat /\ DOMAIN wishOf = 1..Len(wishOf)
      /\ \A i \in 1..Len(wishOf) : wishOf[i] \in Wishes
  BY <1>1, LenProperties, ElementOfSeq
<1>3. /\ Len(messages) \in Nat /\ DOMAIN messages = 1..Len(messages)
      /\ \A i \in 1..Len(messages) : messages[i] \in Ids
  BY <1>1, LenProperties, ElementOfSeq
<1> QED
  BY <1>2, <1>3 DEF Ids, Delivered, ToSet, None, Wishes

(* A prompt that is matched with a message has its text. *)
LEMMA MatchIs ==
    ASSUME FlowInv, NEW fresh \in BOOLEAN, Match(fresh) # None
    PROVE  /\ record # NoRecord /\ record.id \in Ids
           /\ Match(fresh) \in Delivered
           /\ Text[wishOf[Match(fresh)]] = Text[wishOf[record.id]]
<1>1. record # NoRecord /\ record.id \in Ids
  BY DEF Match, FlowInv, RecordIsMade
<1>2. Candidates(fresh) # {}
  BY DEF Match
<1>3. Len(messages) \in Nat /\ Candidates(fresh) \in SUBSET (0..Len(messages))
  BY Numbers DEF Candidates, FlowInv
<1>4. \E i \in Candidates(fresh) : \A j \in Candidates(fresh) : j <= i
  BY <1>2, <1>3, Largest
<1> DEFINE last == CHOOSE i \in Candidates(fresh) : \A j \in Candidates(fresh) : j <= i
<1>5. last \in Candidates(fresh)
  BY <1>4
<1>6. Match(fresh) = messages[last]
  BY <1>2 DEF Match
<1> HIDE DEF last
<1> QED
  BY <1>1, <1>5, <1>6 DEF Candidates, Delivered, ToSet

LEMMA PlaceIs ==
    ASSUME TypeOK, NEW t \in Turns
    PROVE  Place(t) \in 0..(2 * Len(messages) + 1)
<1> DEFINE id == IF t.message # None THEN t.message ELSE t.request
           I == {i \in 1..Len(messages) : messages[i] = id}
           first == SelectInSeq(messages, LAMBDA m : m = id)
<1>1. Len(messages) \in Nat
  BY Numbers
<1>2. first = IF I # {} THEN Min(I) ELSE 0
  BY DEF SelectInSeq
<1>3. first \in 0..Len(messages)
  <2>1. CASE I = {}
    BY <1>1, <1>2, <2>1
  <2>2. CASE I # {}
    <3>1. I \in SUBSET (0..Len(messages))
      BY <1>1
    <3>2. \E x \in I : \A y \in I : x <= y
      <4> HIDE DEF I
      <4> QED
        BY <1>1, <2>2, <3>1, Smallest
    <3>3. Min(I) \in I
      BY <3>2 DEF Min
    <3> QED
      BY <1>2, <2>2, <3>1, <3>3
  <2> QED
    BY <2>1, <2>2
<1>4. Place(t) = 2 * first + (IF t.request # None THEN 1 ELSE 0)
  BY DEF Place
<1> HIDE DEF first
<1> QED
  BY <1>1, <1>3, <1>4

(* The current turn is a turn that is shown. *)
LEMMA CurrentIs ==
    ASSUME TypeOK, NEW ts \in SUBSET Turns, ts # {}
    PROVE  CurrentTurn(ts) \in ts
<1> DEFINE n == 2 * Len(messages) + 1
           P == {Place(t) : t \in ts}
<1>1. n \in Nat /\ P \in SUBSET (0..n) /\ P # {}
  BY Numbers, PlaceIs
<1>2. PICK x \in P : \A y \in P : y <= x
  <2> HIDE DEF P, n
  <2> QED
    BY <1>1, Largest
<1>3. PICK t \in ts : x = Place(t)
  OBVIOUS
<1>4. \A u \in ts : Place(u) <= Place(t)
  BY <1>2, <1>3
<1> QED
  BY <1>3, <1>4 DEF CurrentTurn

(* A turn that a read adds is that of a message. *)
TurnOfMessage(t) ==
    /\ t \in Turns
    /\ t.message \in Delivered
    /\ t.request # None => Text[wishOf[t.request]] = Text[wishOf[t.message]]

(* What a read of the transcript changes. *)
LEMMA ReadIs ==
    ASSUME FlowInv, NEW fresh \in BOOLEAN, ReadPage(fresh)
    PROVE  /\ turns' \subseteq Turns /\ captured' \in BOOLEAN
           /\ \A t \in turns' : t \in turns \/ TurnOfMessage(t)
           /\ \/ record' = record
              \/ /\ record' = NoRecord /\ record # NoRecord
                 /\ \E m \in Delivered : Text[wishOf[m]] = Text[wishOf[record.id]]
<1>1. turns \subseteq Turns /\ captured \in BOOLEAN
  BY DEF FlowInv, TypeOK
<1>2. Delivered \subseteq Ids
  BY Numbers DEF FlowInv
<1> DEFINE m == Match(fresh)
           ts == Reconciled(m)
<1>3. ts \subseteq Turns /\ \A t \in ts : t \in turns \/ TurnOfMessage(t)
  <2>1. CASE m = None
    BY <1>1, <2>1 DEF Reconciled
  <2>2. CASE m # None
    <3>1. record.id \in Ids /\ m \in Delivered /\ Text[wishOf[m]] = Text[wishOf[record.id]]
      BY <2>2, MatchIs
    <3> HIDE DEF m
    <3>2. TurnOfMessage([request |-> record.id, message |-> m])
      BY <1>2, <3>1 DEF TurnOfMessage, Turns
    <3>3. ts \subseteq turns \cup {[request |-> record.id, message |-> m]}
      BY DEF Reconciled
    <3> QED
      BY <1>1, <3>2, <3>3 DEF TurnOfMessage
  <2> QED
    BY <2>1, <2>2
<1>4. turns' = Captured(ts) /\ captured' = TRUE
      /\ record' = IF m = None THEN record ELSE NoRecord
  BY DEF ReadPage
<1>5. \A id \in Delivered : TurnOfMessage([request |-> None, message |-> id])
  BY <1>2 DEF TurnOfMessage, Turns
<1>6. \/ record' = record
      \/ /\ record' = NoRecord /\ record # NoRecord
         /\ \E id \in Delivered : Text[wishOf[id]] = Text[wishOf[record.id]]
  BY <1>4, MatchIs
<1> HIDE DEF ts, m
<1>7. turns' \subseteq Turns /\ \A t \in turns' : t \in turns \/ TurnOfMessage(t)
  BY <1>3, <1>4, <1>5 DEF Captured, TurnOfMessage
<1> QED
  BY <1>4, <1>6, <1>7

(* A draft goes away only for a turn with its text. *)
LEMMA SettleIs ==
    ASSUME TypeOK, NEW ts \in SUBSET Turns, NEW u, NEW d, Settle(u, d, ts)
    PROVE  /\ uncertain' \in {u, NoUncertain}
           /\ \/ draft' = d /\ stored' = stored
              \/ /\ draft' = None /\ stored' = None
                 /\ \E t \in ts : Text[WishOf(t)] = Text[d]
<1>1. CASE ~Proved(u, ts)
  BY <1>1 DEF Settle
<1>2. CASE Proved(u, ts)
  <2>1. ts # {}
    BY <1>2 DEF Proved, CurrentTurn
  <2>2. CurrentTurn(ts) \in ts /\ Text[WishOf(CurrentTurn(ts))] = Text[u.wish]
    BY <1>2, <2>1, CurrentIs DEF Proved
  <2>3. CASE d # None /\ Text[d] = Text[u.wish]
    BY <1>2, <2>2, <2>3 DEF Settle
  <2>4. CASE ~(d # None /\ Text[d] = Text[u.wish])
    BY <1>2, <2>4 DEF Settle
  <2> QED
    BY <2>3, <2>4
<1> QED
  BY <1>1, <1>2

(* A request is made. *)
Fresh == Len(wishOf) + 1

LEMMA NewIs ==
    ASSUME FlowInv, NEW w \in Wishes, wishOf' = Append(wishOf, w), ledger' = Append(ledger, "none")
    PROVE  /\ wishOf' \in Seq(Wishes) /\ Ids' = Ids \cup {Fresh}
           /\ Fresh \notin Ids /\ Fresh # None
           /\ wishOf'[Fresh] = w /\ \A i \in Ids : wishOf'[i] = wishOf[i]
           /\ ledger' \in [Ids' -> {"none", "pending", "accepted", "uncertain"}]
           /\ ledger'[Fresh] = "none" /\ \A i \in Ids : ledger'[i] = ledger[i]
<1>1. wishOf \in Seq(Wishes) /\ Len(wishOf) \in Nat /\ Ids = 1..Len(wishOf)
  BY Numbers DEF FlowInv, TypeOK
<1>2. /\ wishOf' \in Seq(Wishes) /\ Len(wishOf') = Fresh
      /\ \A i \in 1..Len(wishOf) : wishOf'[i] = wishOf[i]
      /\ wishOf'[Fresh] = w
  BY <1>1, AppendProperties DEF Fresh
<1>3. Ids' = 1..Fresh
  BY <1>2, LenProperties DEF Ids
<1> DEFINE D == {"none", "pending", "accepted", "uncertain"}
<1>4. ledger \in Seq(D) /\ Len(ledger) = Len(wishOf)
  <2>1. ledger \in [1..Len(wishOf) -> D]
    BY <1>1 DEF FlowInv, TypeOK
  <2> HIDE DEF D
  <2> QED
    BY <1>1, <2>1, IsASeq, LenProperties
<1>5. /\ ledger' \in Seq(D) /\ Len(ledger') = Fresh
      /\ \A i \in 1..Len(wishOf) : ledger'[i] = ledger[i]
      /\ ledger'[Fresh] = "none"
  BY <1>1, <1>4, AppendProperties DEF Fresh
<1>6. ledger' \in [1..Fresh -> D]
  <2> HIDE DEF D
  <2> QED
    BY <1>5, LenProperties, ElementOfSeq
<1> QED
  BY <1>1, <1>2, <1>3, <1>5, <1>6 DEF Fresh, None

-----------------------------------------------------------------------------
(* Every step keeps the types. *)

LEMMA NoneTypes ==
    ASSUME TypeOK
    PROVE  /\ NoTurn \in Turns /\ NoUncertain \in [wish : Wishes \cup {None}, prior : Turns]
           /\ NoRecord \in [id : Ids \cup {None}, old : BOOLEAN]
           /\ NoRecord.id \notin Ids
<1>1. None \notin Ids
  BY Numbers
<1> QED
  BY <1>1 DEF NoTurn, NoUncertain, NoRecord, Turns

LEMMA CurrentTypes ==
    ASSUME TypeOK
    PROVE  CurrentTurn(turns) \in Turns
<1>1. CASE turns = {}
  BY <1>1, NoneTypes DEF CurrentTurn
<1>2. CASE turns # {}
  BY <1>2, CurrentIs DEF TypeOK
<1> QED
  BY <1>1, <1>2

LEMMA GivesBackTypes ==
    ASSUME FlowInv, NEW b \in BOOLEAN, GivesBack(b)
    PROVE  /\ Ends /\ typed' = typed /\ dropped' = dropped
           /\ uncertain' \in [wish : Wishes \cup {None}, prior : Turns]
           /\ draft' \in Wishes \cup {None} /\ stored' \in Wishes \cup {None}
<1> DEFINE u == IF b THEN [wish |-> sending, prior |-> prior] ELSE NoUncertain
<1>1. u \in [wish : Wishes \cup {None}, prior : Turns]
  BY NoneTypes DEF FlowInv, TypeOK
<1>2. Settle(u, sending, turns) /\ Ends /\ typed' = typed /\ dropped' = dropped
  BY DEF GivesBack
<1> HIDE DEF u
<1>3. uncertain' \in {u, NoUncertain} /\ draft' \in {sending, None} /\ stored' \in {stored, None}
  BY <1>2, SettleIs DEF FlowInv, TypeOK
<1> QED
  BY <1>1, <1>2, <1>3, NoneTypes DEF FlowInv, TypeOK

LEMMA UserFlow ==
    ASSUME FlowInv, Types \/ Debounce \/ Press \/ CheckFails \/ Blocked
    PROVE  FlowInv'
<1> USE DEF FlowInv, RecordIsMade, PhaseInv, AnswersInv, TypeOK, shown, daemon, flow, composer, Ids, InFlight, Turns
<1>1. CASE Types
  BY <1>1 DEF Types
<1>2. CASE Debounce
  BY <1>2 DEF Debounce
<1>3. CASE Press
  <2>1. CurrentTurn(turns) \in Turns /\ NoUncertain \in [wish : Wishes \cup {None}, prior : Turns]
    BY CurrentTypes, NoneTypes
  <2>2. waived' \subseteq Wishes
    BY <1>3 DEF Press
  <2> QED
    BY <1>3, <2>1, <2>2 DEF Press
<1>4. CASE CheckFails \/ Blocked
  <2>1. GivesBack(FALSE) /\ UNCHANGED <<record, shown, posts, wire, wishOf, daemon, reloads, waived, raced>>
    BY <1>4 DEF CheckFails, Blocked
  <2>2. NoTurn \in Turns
    BY NoneTypes
  <2>3. phase = "checking"
    BY <1>4 DEF CheckFails, Blocked
  <2>4. AnswersInv'
    BY <2>1, <2>3
  <2> QED
    BY <2>1, <2>2, <2>4, GivesBackTypes DEF Ends
<1> QED
  BY <1>1, <1>2, <1>3, <1>4

LEMMA PostFlow ==
    ASSUME FlowInv, Post
    PROVE  FlowInv'
<1> USE DEF FlowInv, RecordIsMade, PhaseInv
<1>0. AnswersInv'
  <2>1. phase = "checking" /\ posts \in Nat /\ posts' = posts + 1 /\ phase' = "posting"
    BY DeliveryAssumption DEF Post, TypeOK
  <2>2. \A m \in wire : m.post \in Nat /\ m.post <= posts /\ m.at \in {"travelling", "dispatching"}
    BY <2>1, DeliveryAssumption DEF AnswersInv, TypeOK
  <2>3. wire' = wire \cup {[id |-> record'.id, post |-> posts + 1, at |-> "travelling"]}
    BY DEF Post
  <2> QED
    BY <2>1, <2>2, <2>3 DEF AnswersInv
<1>1. sending \in Wishes /\ posts + 1 \in 1..MaxPosts /\ MaxPosts \in Nat
  BY DeliveryAssumption DEF Post, TypeOK
<1>2. CASE UNCHANGED <<record, wishOf, ledger, waived, raced>> /\ Unresolved
  <2>1. record.id \in Ids
    BY <1>2 DEF Unresolved
  <2> QED
    BY <1>0, <1>1, <1>2, <2>1 DEF TypeOK, Post, shown, composer, Ids, Turns, InFlight
<1>3. CASE NewRequest
  <2>1. /\ wishOf' \in Seq(Wishes) /\ Ids' = Ids \cup {Fresh}
        /\ ledger' \in [Ids' -> {"none", "pending", "accepted", "uncertain"}]
    BY <1>1, <1>3, NewIs DEF NewRequest
  <2>2. record' = [id |-> Fresh, old |-> FALSE]
    BY <1>3 DEF NewRequest, Fresh
  <2>3. waived' \cup raced' \cup dropped' \subseteq Wishes
    <3>1. record # NoRecord => wishOf[record.id] \in Wishes
      BY Numbers
    <3> QED
      BY <1>1, <1>3, <3>1 DEF NewRequest, TypeOK, Post, composer
  <2>4. wire' \subseteq [id : Ids', post : 1..MaxPosts, at : InFlight]
    BY <1>1, <2>1, <2>2 DEF TypeOK, Post, InFlight
  <2>5. turns' \subseteq Turns' /\ prior' \in Turns' /\ messages' \in Seq(Ids')
        /\ uncertain' \in [wish : Wishes \cup {None}, prior : Turns']
    <3>1. Turns \subseteq Turns'
      BY <2>1 DEF Turns
    <3>2. messages \in Seq(Ids')
      BY <2>1, SeqMonotonic DEF TypeOK
    <3> QED
      BY <3>1, <3>2 DEF TypeOK, Post, shown, composer
  <2> QED
    BY <1>0, <1>1, <2>1, <2>2, <2>3, <2>4, <2>5 DEF TypeOK, Post, shown, composer
<1> QED
  BY <1>2, <1>3 DEF Post

LEMMA AnsweredFlow ==
    ASSUME FlowInv, NEW m \in wire, Answered(m)
    PROVE  FlowInv'
<1> USE DEF FlowInv, RecordIsMade, PhaseInv, TypeOK, daemon, Ids, Turns
<1>1. m.id \in Ids /\ phase = "posting" /\ sending # None
  BY DEF Answered, AcceptedAnswer, UnsureAnswer, RefusedAnswer, AnswersInv
<1>2. \A n \in wire' : n \in wire /\ n.at \in {"travelling", "dispatching"}
  BY DEF Answered, AcceptedAnswer, UnsureAnswer, RefusedAnswer, AnswersInv
<1>3. AnswersInv'
  BY <1>2 DEF AnswersInv, Answered
<1>4. CASE AcceptedAnswer(m)
  <2>1. [request |-> m.id, message |-> None] \in Turns /\ NoTurn \in Turns /\ NoRecord.id \notin Ids
        /\ NoRecord \in [id : Ids \cup {None}, old : BOOLEAN]
    BY <1>1, NoneTypes
  <2> QED
    BY <1>2, <1>3, <1>4, <2>1 DEF Answered, AcceptedAnswer, Ends
<1>5. CASE UnsureAnswer(m) \/ RefusedAnswer(m)
  <2>1. GivesBack(FALSE) /\ turns' = turns /\ record' \in {record, NoRecord} /\ waived' \subseteq waived \cup {sending}
        /\ wire' \subseteq wire /\ UNCHANGED <<captured, posts, wishOf, daemon, reloads, raced>>
    BY <1>5 DEF Answered, UnsureAnswer, RefusedAnswer
  <2>2. Ends /\ typed' = typed /\ dropped' = dropped
        /\ uncertain' \in [wish : Wishes \cup {None}, prior : Turns]
        /\ draft' \in Wishes \cup {None} /\ stored' \in Wishes \cup {None}
    BY <2>1, GivesBackTypes
  <2>3. waived' \subseteq Wishes
    BY <1>1, <2>1
  <2> QED
    BY <1>3, <2>1, <2>2, <2>3, NoneTypes DEF Ends
<1> QED
  BY <1>4, <1>5 DEF Answered

(* What a step does that ends send() or reads, and asks for nothing new. *)
Quiets ==
    /\ wire' \subseteq Requested \/ (wire' = wire /\ phase' = phase /\ posts' = posts)
    /\ UNCHANGED <<posts, wishOf, ledger, messages>>

LEMMA QuietAnswers ==
    ASSUME FlowInv, Quiets
    PROVE  AnswersInv'
BY DEF FlowInv, AnswersInv, Quiets, Requested

LEMMA TransportFlow ==
    ASSUME FlowInv, ConnectionBreaks \/ RecoveryFinds \/ RecoveryFindsNothing \/ RecoveryFails
    PROVE  FlowInv'
<1> USE DEF FlowInv, RecordIsMade, PhaseInv, TypeOK, daemon, shown, composer, Ids, Turns
<1>1. \A n \in wire : phase # "posting" => n \in Requested
  BY DEF AnswersInv, Requested
<1>2. AnswersInv'
  <2>1. Quiets
    BY <1>1 DEF Quiets, ConnectionBreaks, RecoveryFinds, RecoveryFindsNothing, RecoveryFails, GivesBack, Ends
  <2> QED
    BY <2>1, QuietAnswers
<1>3. NoTurn \in Turns /\ NoRecord.id \notin Ids /\ NoRecord \in [id : Ids \cup {None}, old : BOOLEAN]
  BY NoneTypes
<1>4. CASE ConnectionBreaks /\ sending \notin Commands
  BY <1>2, <1>4 DEF ConnectionBreaks, Requested
<1>5. CASE (ConnectionBreaks /\ sending \in Commands) \/ RecoveryFails
  <2>1. /\ GivesBack(TRUE) /\ wire' \subseteq wire
        /\ UNCHANGED <<record, shown, posts, wishOf, daemon, reloads, waived, raced>>
    BY <1>5 DEF ConnectionBreaks, RecoveryFails, Requested
  <2> QED
    BY <1>2, <1>3, <2>1, GivesBackTypes DEF Ends
<1>6. CASE RecoveryFinds
  <2>1. turns' \subseteq Turns /\ captured' \in BOOLEAN /\ record' \in {record, NoRecord}
    BY <1>6, ReadIs DEF RecoveryFinds
  <2> QED
    BY <1>2, <1>3, <1>6, <2>1 DEF RecoveryFinds, Ends
<1>7. CASE RecoveryFindsNothing
  <2>1. turns' \subseteq Turns /\ captured' \in BOOLEAN /\ record' \in {record, NoRecord}
    BY <1>7, ReadIs DEF RecoveryFindsNothing
  <2>2. Settle([wish |-> sending, prior |-> prior], sending, turns')
    BY <1>7 DEF RecoveryFindsNothing
  <2>3. uncertain' \in {[wish |-> sending, prior |-> prior], NoUncertain}
        /\ draft' \in {sending, None} /\ stored' \in {stored, None}
    BY <2>1, <2>2, SettleIs
  <2> QED
    BY <1>2, <1>3, <1>7, <2>1, <2>3, NoneTypes DEF RecoveryFindsNothing, Ends
<1> QED
  BY <1>4, <1>5, <1>6, <1>7 DEF ConnectionBreaks

LEMMA TimeFlow ==
    ASSUME FlowInv, TailRead \/ Expires \/ Reload
    PROVE  FlowInv'
<1> USE DEF FlowInv, RecordIsMade, PhaseInv, TypeOK, daemon, shown, composer, flow, Ids, Turns
<1>1. AnswersInv'
  <2>1. Quiets
    BY DEF Quiets, TailRead, Expires, Reload
  <2> QED
    BY <2>1, QuietAnswers
<1>2. NoTurn \in Turns /\ NoRecord.id \notin Ids /\ NoRecord \in [id : Ids \cup {None}, old : BOOLEAN]
      /\ NoUncertain \in [wish : Wishes \cup {None}, prior : Turns]
  BY NoneTypes
<1>3. CASE TailRead
  <2>1. turns' \subseteq Turns /\ captured' \in BOOLEAN /\ record' \in {record, NoRecord}
    BY <1>3, ReadIs DEF TailRead
  <2>2. uncertain' \in {uncertain, NoUncertain} /\ draft' \in {draft, None} /\ stored' \in {stored, None}
    BY <1>3, <2>1, SettleIs DEF TailRead
  <2> QED
    BY <1>1, <1>2, <1>3, <2>1, <2>2 DEF TailRead
<1>4. CASE Expires
  <2>1. record' \in [id : Ids \cup {None}, old : BOOLEAN] /\ record'.id = record.id /\ record # NoRecord
    BY <1>4 DEF Expires, Unresolved
  <2> QED
    BY <1>1, <1>4, <2>1 DEF Expires, Unresolved
<1>5. CASE Reload
  <2>1. dropped' \subseteq Wishes
    BY <1>5 DEF Reload, OnlyInMemory
  <2> QED
    BY <1>1, <1>2, <1>5, <2>1 DEF Reload, Ends, Requested
<1> QED
  BY <1>3, <1>4, <1>5

LEMMA MessageFields ==
    ASSUME FlowInv, NEW m \in wire, NEW a \in InFlight
    PROVE  /\ [m EXCEPT !.at = a].id = m.id /\ [m EXCEPT !.at = a].post = m.post
           /\ [m EXCEPT !.at = a].at = a
           /\ [m EXCEPT !.at = a] \in [id : Ids, post : 1..MaxPosts, at : InFlight]
<1>1. m \in [id : Ids, post : 1..MaxPosts, at : InFlight]
  BY DEF FlowInv, TypeOK
<1> QED
  BY <1>1

(* The network and the daemon move one message. *)
LEMMA Moved ==
    ASSUME FlowInv, NEW m \in wire, UNCHANGED app, NEW S,
           S \subseteq {[m EXCEPT !.at = a] : a \in InFlight},
           \A n \in S : n.at \in {"travelling", "dispatching"} \/ (phase = "posting" /\ m.post = posts),
           \A n, o \in S : n = o,
           wire' = (wire \ {m}) \cup S,
           ledger' \in [Ids -> {"none", "pending", "accepted", "uncertain"}],
           messages' \in Seq(Ids)
    PROVE  FlowInv'
<1> USE DEF FlowInv, RecordIsMade, PhaseInv, TypeOK, app, composer, flow, shown, Ids, Turns
<1>1. \A n \in S : n.id = m.id /\ n.post = m.post /\ n \in [id : Ids, post : 1..MaxPosts, at : InFlight]
  BY MessageFields
<1>2. AnswersInv'
  BY <1>1 DEF AnswersInv
<1> QED
  BY <1>1, <1>2

LEMMA AnswerMoves ==
    ASSUME FlowInv, NEW m \in wire, UNCHANGED app, NEW a \in InFlight, Answer(m, a),
           ledger' \in [Ids -> {"none", "pending", "accepted", "uncertain"}], UNCHANGED messages
    PROVE  FlowInv'
<1> DEFINE S == IF phase = "posting" /\ m.post = posts THEN {[m EXCEPT !.at = a]} ELSE {}
<1>1. /\ S \subseteq {[m EXCEPT !.at = b] : b \in InFlight}
      /\ \A n \in S : n.at \in {"travelling", "dispatching"} \/ (phase = "posting" /\ m.post = posts)
      /\ \A n, o \in S : n = o
  BY DEF InFlight
<1>2. wire' = (wire \ {m}) \cup S /\ messages' \in Seq(Ids)
  BY DEF Answer, FlowInv, TypeOK
<1> HIDE DEF S
<1> QED
  BY <1>1, <1>2, Moved

LEMMA DaemonFlow ==
    ASSUME FlowInv,
           \/ \E m \in wire : LostOnTheWay(m) \/ Arrives(m) \/ Accepts(m) \/ Refuses(m) \/ LosesTrack(m)
           \/ \E id \in Ids : Applies(id)
    PROVE  FlowInv'
<1> DEFINE L == [Ids -> {"none", "pending", "accepted", "uncertain"}]
<1>1. ledger \in L /\ messages \in Seq(Ids) /\ \A m \in wire : m.id \in Ids
  BY DEF FlowInv, TypeOK
<1>2. ASSUME NEW m \in wire, LostOnTheWay(m) PROVE FlowInv'
  <2>1. wire' = wire \ {m} /\ UNCHANGED app /\ UNCHANGED <<ledger, messages>>
    BY <1>2 DEF LostOnTheWay, daemon
  <2>2. AnswersInv'
    BY <2>1 DEF FlowInv, AnswersInv, app, flow
  <2> QED
    BY <2>1, <2>2
    DEF FlowInv, RecordIsMade, PhaseInv, TypeOK, app, composer, flow, shown, Ids, Turns
<1>3. ASSUME NEW m \in wire, Arrives(m) PROVE FlowInv'
  <2>1. CASE ledger[m.id] = "none"
    <3> DEFINE S == {[m EXCEPT !.at = "dispatching"]}
    <3>1. wire' = (wire \ {m}) \cup S
      BY <1>3, <2>1 DEF Arrives
    <3>2. ledger' \in L /\ UNCHANGED app /\ UNCHANGED messages
      BY <1>1, <1>3, <2>1 DEF Arrives
    <3>3. "dispatching" \in InFlight
      BY DEF InFlight
    <3>4. /\ S \subseteq {[m EXCEPT !.at = a] : a \in InFlight}
          /\ \A n \in S : n.at \in {"travelling", "dispatching"}
          /\ \A n, o \in S : n = o
      BY <3>3, MessageFields
    <3> HIDE DEF S
    <3> QED
      BY <1>1, <3>1, <3>2, <3>4, Moved
  <2>2. CASE ledger[m.id] # "none"
    <3>1. Answer(m, ledger[m.id]) /\ UNCHANGED ledger /\ UNCHANGED app /\ UNCHANGED messages
      BY <1>3, <2>2 DEF Arrives
    <3>2. ledger[m.id] \in InFlight
      BY <1>1, <2>2 DEF InFlight
    <3> QED
      BY <1>1, <3>1, <3>2, AnswerMoves
  <2> QED
    BY <2>1, <2>2
<1>4. ASSUME NEW m \in wire, Accepts(m) \/ Refuses(m) \/ LosesTrack(m) PROVE FlowInv'
  <2>1. /\ \E a \in InFlight : Answer(m, a)
        /\ UNCHANGED app /\ UNCHANGED messages
    BY <1>4 DEF Accepts, Refuses, LosesTrack, InFlight
  <2>2. ledger' \in L
    BY <1>1, <1>4 DEF Accepts, Refuses, LosesTrack
  <2> QED
    BY <2>1, <2>2, AnswerMoves
<1>5. ASSUME NEW id \in Ids, Applies(id) PROVE FlowInv'
  <2>1. messages' = Append(messages, id) /\ UNCHANGED <<app, wire, ledger>>
    BY <1>5 DEF Applies
  <2>2. messages' \in Seq(Ids)
    BY <1>1, <2>1, AppendSet
  <2>3. AnswersInv'
    BY <2>1 DEF FlowInv, AnswersInv, app, flow
  <2> QED
    BY <2>1, <2>2, <2>3
    DEF FlowInv, RecordIsMade, PhaseInv, TypeOK, app, composer, flow, shown, Ids, Turns
<1> QED
  BY <1>2, <1>3, <1>4, <1>5

LEMMA FlowStep ==
    ASSUME FlowInv, [Next]_vars
    PROVE  FlowInv'
<1>1. CASE Next
  BY <1>1, UserFlow, PostFlow, AnsweredFlow, TransportFlow, TimeFlow, DaemonFlow DEF Next
<1>2. CASE UNCHANGED vars
  BY <1>2 DEF vars, composer, flow, shown, daemon, FlowInv, RecordIsMade, PhaseInv, AnswersInv,
              TypeOK, Ids, Turns
<1> QED
  BY <1>1, <1>2

LEMMA FlowInit == Init => FlowInv
<1> SUFFICES ASSUME Init PROVE FlowInv
  OBVIOUS
<1>1. Ids = {} /\ wishOf \in Seq(Wishes) /\ messages \in Seq(Ids) /\ ledger \in [Ids -> {"none"}]
  BY EmptySeq DEF Init, Ids
<1>2. 0 \in 0..MaxPosts
  BY DeliveryAssumption
<1> QED
  BY <1>1, <1>2 DEF Init, FlowInv, RecordIsMade, PhaseInv, AnswersInv, TypeOK, Turns,
                    NoTurn, NoUncertain, NoRecord, InFlight

-----------------------------------------------------------------------------
(* Which requests may still be carried out. *)

(* A request that was carried out, that the daemon knows, or that is under *)
(* way.                                                                    *)
Alive(id) ==
    \/ id \in Delivered
    \/ ledger[id] # "none"
    \/ \E m \in wire : m.id = id

Given(w) == w \in waived \cup raced

(* A wish has at most one request that lives or is the durable one. *)
OneAlive ==
    \A i, j \in Ids :
        /\ wishOf[i] = wishOf[j] /\ ~Given(wishOf[i])
        /\ Alive(i) \/ record.id = i
        /\ Alive(j) \/ record.id = j
        => i = j

(* The app forgets a request only once it has arrived, or is dead. *)
Resolved ==
    \A i \in Ids : ~Given(wishOf[i]) /\ Alive(i) => i \in Delivered \/ record.id = i

AcceptedIsDelivered ==
    /\ \A i \in Ids : ledger[i] = "accepted" => i \in Delivered
    /\ \A m \in wire : m.at = "accepted" => m.id \in Delivered

(* The POST the app awaits is that of the wish which is being sent. *)
PostIsSent ==
    phase = "posting" =>
        \A m \in wire : m.post = posts =>
            wishOf[m.id] = sending /\ (record = NoRecord \/ record.id = m.id)

AliveInv == OneAlive /\ Resolved /\ AcceptedIsDelivered /\ PostIsSent

(* A step that makes no request, brings none back to life but the durable  *)
(* one, and forgets that only when it has arrived or is dead.              *)
LEMMA AliveKeeps ==
    ASSUME FlowInv, AliveInv, UNCHANGED wishOf, waived \subseteq waived', raced \subseteq raced',
           Delivered \subseteq Delivered',
           \A i \in Ids : Alive(i)' => Alive(i) \/ record.id = i,
           \/ record'.id = record.id
           \/ /\ record' = NoRecord
              /\ \A i \in Ids : record.id = i /\ Alive(i)' /\ ~Given(wishOf[i])' => i \in Delivered'
    PROVE  OneAlive' /\ Resolved'
<1>1. Ids' = Ids /\ NoRecord.id \notin Ids
  BY NoneTypes DEF Ids, FlowInv
<1>2. \A w : Given(w) => Given(w)'
  BY DEF Given
<1>3. \A i \in Ids : Alive(i)' \/ record'.id = i => Alive(i) \/ record.id = i
  BY <1>1
<1> HIDE DEF Ids
<1>4. OneAlive'
  BY <1>1, <1>2, <1>3 DEF OneAlive, AliveInv
<1>5. Resolved'
  <2> SUFFICES ASSUME NEW i \in Ids, ~Given(wishOf[i])', Alive(i)'
               PROVE  i \in Delivered' \/ record'.id = i
    BY <1>1 DEF Resolved
  <2>1. i \in Delivered \/ record.id = i
    BY <1>2 DEF Resolved, AliveInv
  <2> QED
    BY <2>1
<1> QED
  BY <1>4, <1>5

(* A read of the transcript resolves a request that has arrived. *)
LEMMA ReadResolves ==
    ASSUME TextsDiffer, FlowInv, AliveInv, NEW fresh \in BOOLEAN, ReadPage(fresh)
    PROVE  \/ record' = record
           \/ /\ record' = NoRecord
              /\ \A i \in Ids : record.id = i /\ ~Given(wishOf[i]) => i \in Delivered
<1>1. SUFFICES ASSUME record' = NoRecord, record # NoRecord, NEW m \in Delivered,
                      Text[wishOf[m]] = Text[wishOf[record.id]]
               PROVE  \A i \in Ids : record.id = i /\ ~Given(wishOf[i]) => i \in Delivered
  BY ReadIs
<1>2. record.id \in Ids /\ m \in Ids /\ wishOf[m] \in Wishes /\ wishOf[record.id] \in Wishes
  BY <1>1, Numbers DEF FlowInv, RecordIsMade
<1>3. wishOf[m] = wishOf[record.id] /\ Alive(m)
  BY <1>1, <1>2 DEF TextsDiffer, Alive
<1> QED
  BY <1>2, <1>3 DEF AliveInv, OneAlive

LEMMA UserAlive ==
    ASSUME FlowInv, AliveInv, Types \/ Debounce \/ Press \/ CheckFails \/ Blocked
    PROVE  AliveInv'
<1>1. /\ UNCHANGED <<record, wire, wishOf, ledger, messages, posts, raced>> /\ waived \subseteq waived'
      /\ phase' # "posting" \/ UNCHANGED <<phase, sending>>
  BY DEF Types, Debounce, Press, CheckFails, Blocked, GivesBack, Ends, flow, daemon, composer
<1>2. OneAlive' /\ Resolved'
  BY <1>1, AliveKeeps DEF Alive, Delivered
<1> QED
  BY <1>1, <1>2 DEF AliveInv, AcceptedIsDelivered, PostIsSent, Ids, Delivered

LEMMA PostAlive ==
    ASSUME TextsDiffer, FlowInv, AliveInv, Post
    PROVE  AliveInv'
<1>0. posts \in Nat /\ sending \in Wishes /\ \A m \in wire : m.id \in Ids /\ m.post \in Nat /\ m.post <= posts
      /\ m.at \in {"travelling", "dispatching"}
  BY DeliveryAssumption DEF FlowInv, TypeOK, PhaseInv, AnswersInv, Post
<1> DEFINE post == [id |-> record'.id, post |-> posts + 1, at |-> "travelling"]
<1>1. /\ wire' = wire \cup {post} /\ posts' = posts + 1 /\ UNCHANGED <<messages, sending>>
      /\ post.id = record'.id /\ post.post = posts + 1 /\ post.at = "travelling"
  BY DEF Post
<1>2. CASE Unresolved /\ SameRequest /\ UNCHANGED <<record, wishOf, ledger, waived, raced>>
  <2>1. record.id \in Ids /\ wishOf[record.id] \in Wishes
    BY <1>2, Numbers DEF Unresolved, FlowInv, RecordIsMade
  <2>2. wishOf[record.id] = sending
    BY <1>0, <1>2, <2>1 DEF SameRequest, TextsDiffer
  <2>3. OneAlive' /\ Resolved'
    <3>1. \A i \in Ids : Alive(i)' => Alive(i) \/ record.id = i
      BY <1>1, <1>2 DEF Alive, Delivered
    <3> QED
      BY <1>1, <1>2, <3>1, AliveKeeps DEF Delivered
  <2>4. AcceptedIsDelivered'
    BY <1>1, <1>2 DEF AcceptedIsDelivered, AliveInv, Ids, Delivered
  <2>5. PostIsSent'
    BY <1>0, <1>1, <1>2, <2>2 DEF PostIsSent
  <2> QED
    BY <2>3, <2>4, <2>5 DEF AliveInv
<1>3. CASE ~Unresolved /\ NewRequest
  <2> DEFINE n == Fresh
  <2>1. /\ Ids' = Ids \cup {n} /\ n \notin Ids /\ n # None
        /\ wishOf'[n] = sending /\ \A i \in Ids : wishOf'[i] = wishOf[i]
        /\ ledger'[n] = "none" /\ \A i \in Ids : ledger'[i] = ledger[i]
    BY <1>0, <1>3, NewIs DEF NewRequest
  <2>2. record'.id = n /\ post.id = n
    BY <1>1, <1>3 DEF NewRequest, Fresh
  <2>3. /\ waived' = IF record = NoRecord THEN waived ELSE waived \cup {wishOf[record.id]}
        /\ raced' = IF Released(sending) THEN raced \cup {sending} ELSE raced
    BY <1>3 DEF NewRequest
  <2>4. Delivered' = Delivered /\ Delivered \subseteq Ids
    BY <1>1, Numbers DEF Delivered, FlowInv
  <2> HIDE DEF n, post
  <2>5. \A i \in Ids : Alive(i)' => Alive(i)
    BY <1>1, <2>1, <2>2, <2>4 DEF Alive
  <2>6. ASSUME NEW i \in Ids, wishOf[i] \notin waived' \cup raced'
        PROVE  ~Given(wishOf[i]) /\ record.id # i
    <3>1. record.id = i => record # NoRecord
      BY NoneTypes DEF FlowInv
    <3> QED
      BY <2>3, <2>6, <3>1 DEF Given
  <2>7. ASSUME NEW i \in Ids, wishOf[i] = sending, sending \notin waived' \cup raced'
        PROVE  ~Alive(i)
    <3>1. ~Given(wishOf[i]) /\ record.id # i
      BY <2>6, <2>7
    <3>2. SUFFICES ASSUME i \in Delivered PROVE FALSE
      BY <3>1 DEF AliveInv, Resolved
    <3>3. DeliveredFor(sending) # {}
      BY <2>7, <3>2 DEF DeliveredFor
    <3>4. record # NoRecord => wishOf[record.id] # sending
      BY <2>3, <2>7
    <3>5. sending \in raced'
      BY <2>3, <3>3, <3>4 DEF Released
    <3> QED
      BY <2>7, <3>5
  <2>8. OneAlive'
    <3> SUFFICES ASSUME NEW i \in Ids', NEW j \in Ids', wishOf'[i] = wishOf'[j],
                        wishOf'[i] \notin waived' \cup raced',
                        Alive(i)' \/ i = n, Alive(j)' \/ j = n
                 PROVE  i = j
      BY <2>2 DEF OneAlive, Given
    <3>1. CASE i \in Ids /\ j \in Ids
      <4>1. wishOf[i] = wishOf[j] /\ ~Given(wishOf[i]) /\ Alive(i) /\ Alive(j)
        BY <2>1, <2>5, <2>6, <3>1
      <4> QED
        BY <3>1, <4>1 DEF OneAlive, AliveInv
    <3>2. CASE i = n
      BY <2>1, <2>5, <2>7, <3>2
    <3>3. CASE j = n
      BY <2>1, <2>5, <2>7, <3>3
    <3> QED
      BY <2>1, <3>1, <3>2, <3>3
  <2>9. Resolved'
    <3> SUFFICES ASSUME NEW i \in Ids', wishOf'[i] \notin waived' \cup raced', Alive(i)', i # n
                 PROVE  i \in Delivered'
      BY <2>2 DEF Resolved, Given
    <3>1. i \in Ids /\ wishOf'[i] = wishOf[i]
      BY <2>1
    <3>2. Alive(i) /\ ~Given(wishOf[i]) /\ record.id # i
      BY <2>5, <2>6, <3>1
    <3> QED
      BY <2>4, <3>1, <3>2 DEF Resolved, AliveInv
  <2>10. AcceptedIsDelivered'
    BY <1>1, <2>1, <2>4 DEF AcceptedIsDelivered, AliveInv, post
  <2>11. PostIsSent'
    BY <1>0, <1>1, <2>1, <2>2 DEF PostIsSent
  <2> QED
    BY <2>8, <2>9, <2>10, <2>11 DEF AliveInv
<1> QED
  BY <1>2, <1>3 DEF Post

LEMMA AnsweredAlive ==
    ASSUME FlowInv, AliveInv, NEW m \in wire, Answered(m)
    PROVE  AliveInv'
<1>1. /\ UNCHANGED <<wishOf, ledger, messages, raced>> /\ wire' = wire \ {m} /\ phase' = "idle"
      /\ waived \subseteq waived' /\ m.id \in Ids
  BY DEF Answered, AcceptedAnswer, UnsureAnswer, RefusedAnswer, GivesBack, Ends, daemon, FlowInv, TypeOK
<1>2. phase = "posting" /\ m.post = posts
  BY DEF Answered, AcceptedAnswer, UnsureAnswer, RefusedAnswer, FlowInv, AnswersInv
<1>3. wishOf[m.id] = sending /\ (record = NoRecord \/ record.id = m.id)
  BY <1>2 DEF AliveInv, PostIsSent
<1>4. \A i \in Ids : record.id = i => i = m.id
  BY <1>3, NoneTypes DEF FlowInv
<1>5. \A i \in Ids : Alive(i)' => Alive(i)
  BY <1>1 DEF Alive, Delivered
<1>6. \/ record'.id = record.id
      \/ /\ record' = NoRecord
         /\ \A i \in Ids : record.id = i /\ Alive(i)' /\ ~Given(wishOf[i])' => i \in Delivered'
  <2>1. CASE AcceptedAnswer(m)
    <3>1. record' = NoRecord /\ m.id \in Delivered
      BY <2>1 DEF AcceptedAnswer, AliveInv, AcceptedIsDelivered
    <3> QED
      BY <1>1, <1>4, <3>1 DEF Delivered
  <2>2. CASE UnsureAnswer(m)
    BY <2>2 DEF UnsureAnswer
  <2>3. CASE RefusedAnswer(m)
    <3>1. record' = NoRecord /\ waived' = IF MayStillAct(m) THEN waived \cup {sending} ELSE waived
      BY <2>3 DEF RefusedAnswer
    <3>2. CASE MayStillAct(m)
      BY <1>1, <1>3, <1>4, <3>1, <3>2 DEF Given
    <3>3. CASE ~MayStillAct(m)
      <4>1. Alive(m.id)' => m.id \in Delivered'
        BY <1>1, <3>3 DEF MayStillAct, Alive, Delivered
      <4> QED
        BY <1>4, <3>1, <4>1
    <3> QED
      BY <3>2, <3>3
  <2> QED
    BY <2>1, <2>2, <2>3 DEF Answered
<1>7. OneAlive' /\ Resolved'
  BY <1>1, <1>5, <1>6, AliveKeeps DEF Delivered
<1> QED
  BY <1>1, <1>7 DEF AliveInv, AcceptedIsDelivered, PostIsSent, Ids, Delivered

(* A step of the app that ends send(), reads or waits. *)
LEMMA QuietAlive ==
    ASSUME FlowInv, AliveInv, wire' \subseteq wire, UNCHANGED <<wishOf, ledger, messages, waived, raced>>,
           \/ record'.id = record.id
           \/ record' = NoRecord /\ \A i \in Ids : record.id = i /\ ~Given(wishOf[i]) => i \in Delivered,
           \/ phase' # "posting"
           \/ UNCHANGED <<phase, sending, posts>> /\ record' \in {record, NoRecord}
    PROVE  AliveInv'
<1>1. \A i \in Ids : Alive(i)' => Alive(i)
  BY DEF Alive, Delivered
<1>2. \A i \in Ids : ~Given(wishOf[i])' => ~Given(wishOf[i])
  BY DEF Given
<1>3. OneAlive' /\ Resolved'
  BY <1>1, <1>2, AliveKeeps DEF Delivered
<1>4. PostIsSent'
  BY DEF PostIsSent, AliveInv
<1> QED
  BY <1>3, <1>4 DEF AliveInv, AcceptedIsDelivered, Ids, Delivered

LEMMA AppAlive ==
    ASSUME TextsDiffer, FlowInv, AliveInv,
           \/ ConnectionBreaks \/ RecoveryFinds \/ RecoveryFindsNothing \/ RecoveryFails
           \/ TailRead \/ Expires \/ Reload
    PROVE  AliveInv'
<1>1. wire' \subseteq wire /\ UNCHANGED <<wishOf, ledger, messages, waived, raced>>
  BY DEF ConnectionBreaks, RecoveryFinds, RecoveryFindsNothing, RecoveryFails, TailRead, Expires, Reload,
         Requested, daemon
<1>2. CASE RecoveryFinds \/ RecoveryFindsNothing \/ TailRead
  <2>1. PICK fresh \in BOOLEAN : ReadPage(fresh)
    BY <1>2 DEF RecoveryFinds, RecoveryFindsNothing, TailRead
  <2>2. phase' # "posting" \/ UNCHANGED <<phase, sending, posts>>
    BY <1>2 DEF RecoveryFinds, RecoveryFindsNothing, TailRead, Ends, flow
  <2>3. record' \in {record, NoRecord}
    BY <2>1 DEF ReadPage
  <2> QED
    BY <1>1, <2>1, <2>2, <2>3, ReadResolves, QuietAlive
<1>3. CASE ConnectionBreaks \/ RecoveryFails \/ Expires \/ Reload
  <2>1. phase' # "posting"
    BY <1>3 DEF ConnectionBreaks, RecoveryFails, Expires, Reload, GivesBack, Ends, flow
  <2>2. record'.id = record.id
    <3>1. CASE Expires
      BY <3>1 DEF Expires, FlowInv, TypeOK
    <3> QED
      BY <1>3, <3>1 DEF ConnectionBreaks, RecoveryFails, Reload
  <2> QED
    BY <1>1, <2>1, <2>2, QuietAlive
<1> QED
  BY <1>2, <1>3

(* The network and the daemon bring no request back to life. *)
LEMMA MovedAlive ==
    ASSUME FlowInv, AliveInv, UNCHANGED app, UNCHANGED messages, NEW m \in wire, NEW S,
           S \subseteq {[m EXCEPT !.at = a] : a \in InFlight},
           wire' = (wire \ {m}) \cup S,
           \A i \in Ids : ledger'[i] # "none" => i = m.id \/ ledger[i] # "none",
           \A i \in Ids : ledger'[i] = "accepted" => i \in Delivered,
           \A n \in S : n.at = "accepted" => n.id \in Delivered
    PROVE  AliveInv'
<1>1. \A n \in S : n.id = m.id /\ n.post = m.post
  BY MessageFields
<1>2. Delivered' = Delivered /\ UNCHANGED <<wishOf, record, waived, raced, phase, sending, posts>>
  BY DEF Delivered, app, flow
<1>3. \A i \in Ids : Alive(i)' => Alive(i)
  BY <1>1, <1>2 DEF Alive
<1>4. OneAlive' /\ Resolved'
  BY <1>2, <1>3, AliveKeeps
<1>5. AcceptedIsDelivered'
  BY <1>2 DEF AcceptedIsDelivered, AliveInv, Ids
<1>6. PostIsSent'
  BY <1>1, <1>2 DEF PostIsSent, AliveInv
<1> QED
  BY <1>4, <1>5, <1>6 DEF AliveInv

LEMMA DaemonAlive ==
    ASSUME FlowInv, AliveInv,
           \/ \E m \in wire : LostOnTheWay(m) \/ Arrives(m) \/ Accepts(m) \/ Refuses(m) \/ LosesTrack(m)
           \/ \E id \in Ids : Applies(id)
    PROVE  AliveInv'
<1>1. /\ ledger \in [Ids -> {"none", "pending", "accepted", "uncertain"}] /\ \A m \in wire : m.id \in Ids
      /\ \A i \in Ids : ledger[i] = "accepted" => i \in Delivered
  BY DEF FlowInv, TypeOK, AliveInv, AcceptedIsDelivered
<1> DEFINE Sent(m, a) == IF phase = "posting" /\ m.post = posts THEN {[m EXCEPT !.at = a]} ELSE {}
<1>2. ASSUME NEW m \in wire, NEW a \in InFlight
      PROVE  /\ Sent(m, a) \subseteq {[m EXCEPT !.at = b] : b \in InFlight}
             /\ \A n \in Sent(m, a) : n.at = a /\ n.id = m.id
             /\ Answer(m, a) => wire' = (wire \ {m}) \cup Sent(m, a)
  BY <1>2, MessageFields DEF Answer
<1> HIDE DEF Sent
<1>3. ASSUME NEW m \in wire, LostOnTheWay(m) PROVE AliveInv'
  <2>1. wire' \subseteq wire /\ UNCHANGED <<app, ledger, messages>>
    BY <1>3 DEF LostOnTheWay, daemon
  <2> QED
    BY <2>1, QuietAlive DEF app, flow
<1>4. ASSUME NEW m \in wire, Arrives(m), ledger[m.id] = "none" PROVE AliveInv'
  <2> DEFINE S == {[m EXCEPT !.at = "dispatching"]}
  <2>1. /\ wire' = (wire \ {m}) \cup S /\ "dispatching" \in InFlight
        /\ ledger' = [ledger EXCEPT ![m.id] = "pending"] /\ UNCHANGED app /\ UNCHANGED messages
    BY <1>4 DEF Arrives, InFlight
  <2>2. S \subseteq {[m EXCEPT !.at = b] : b \in InFlight} /\ \A n \in S : n.at = "dispatching"
    BY <2>1, MessageFields
  <2>3. /\ \A i \in Ids : ledger'[i] # "none" => i = m.id \/ ledger[i] # "none"
        /\ \A i \in Ids : ledger'[i] = "accepted" => i \in Delivered
    BY <1>1, <2>1
  <2> HIDE DEF S
  <2> QED
    BY <2>1, <2>2, <2>3, MovedAlive
<1>5. ASSUME NEW m \in wire, Arrives(m), ledger[m.id] # "none" PROVE AliveInv'
  <2>1. Answer(m, ledger[m.id]) /\ UNCHANGED <<app, messages, ledger>>
    BY <1>5 DEF Arrives
  <2>2. ledger[m.id] \in InFlight
    BY <1>1, <1>5 DEF InFlight
  <2> QED
    BY <1>1, <1>2, <2>1, <2>2, MovedAlive
<1>6. ASSUME NEW m \in wire, Accepts(m) \/ Refuses(m) \/ LosesTrack(m) PROVE AliveInv'
  <2>1. PICK a \in InFlight : Answer(m, a) /\ (a = "accepted" => m.id \in Delivered)
    BY <1>6 DEF Accepts, Refuses, LosesTrack, InFlight
  <2>2. PICK l \in {"none", "uncertain", "accepted"} :
             ledger' = [ledger EXCEPT ![m.id] = l] /\ (l = "accepted" => m.id \in Delivered)
    BY <1>6 DEF Accepts, Refuses, LosesTrack
  <2>3. UNCHANGED <<app, messages>>
    BY <1>6 DEF Accepts, Refuses, LosesTrack
  <2> QED
    BY <1>1, <1>2, <2>1, <2>2, <2>3, MovedAlive
<1>7. ASSUME NEW id \in Ids, Applies(id) PROVE AliveInv'
  <2>1. /\ ledger[id] # "none" /\ messages' = Append(messages, id) /\ UNCHANGED <<wire, ledger>>
        /\ UNCHANGED <<wishOf, record, waived, raced, phase, sending, posts>>
    BY <1>7 DEF Applies, app, flow
  <2>2. Delivered' = Delivered \cup {id}
    BY <2>1, AppendSet DEF Delivered, FlowInv, TypeOK
  <2>3. \A i \in Ids : Alive(i)' => Alive(i)
    BY <2>1, <2>2 DEF Alive
  <2>4. OneAlive' /\ Resolved'
    BY <2>1, <2>2, <2>3, AliveKeeps
  <2> QED
    BY <2>1, <2>2, <2>4 DEF AliveInv, AcceptedIsDelivered, PostIsSent, Ids
<1> QED
  BY <1>3, <1>4, <1>5, <1>6, <1>7

LEMMA AliveStep ==
    ASSUME TextsDiffer, FlowInv, AliveInv, [Next]_vars
    PROVE  AliveInv'
<1>1. CASE Next
  BY <1>1, UserAlive, PostAlive, AnsweredAlive, AppAlive, DaemonAlive DEF Next
<1>2. CASE UNCHANGED vars
  BY <1>2, QuietAlive DEF vars, composer, flow, shown, daemon
<1> QED
  BY <1>1, <1>2

LEMMA AliveInit == Init => AliveInv
<1> SUFFICES ASSUME Init PROVE AliveInv
  OBVIOUS
<1>1. Ids = {} /\ wire = {}
  BY EmptySeq DEF Init, Ids
<1> QED
  BY <1>1 DEF AliveInv, OneAlive, Resolved, AcceptedIsDelivered, PostIsSent

-----------------------------------------------------------------------------
(* Where each wish is. *)

(* In the Session, in the durable request, or given up. *)
Kept(w) ==
    \/ w \in waived
    \/ DeliveredFor(w) # {}
    \/ record # NoRecord /\ wishOf[record.id] = w

Somewhere == \A w \in 1..typed : w \in dropped \cup {draft, sending} \/ Kept(w)

(* A POST is made of what is kept, so that a kill may forget it. *)
SentIsKept ==
    phase \in {"posting", "recovering"} =>
        /\ Kept(sending)
        /\ record # NoRecord => wishOf[record.id] = sending

(* A restored draft goes away for a turn that is shown. *)
ShownIsDelivered == \A t \in turns : t # NoTurn /\ DeliveredFor(WishOf(t)) # {}

KeptInv == Somewhere /\ SentIsKept /\ ShownIsDelivered

LEMMA SomewhereKeeps ==
    ASSUME FlowInv, KeptInv, typed' = typed, dropped \subseteq dropped',
           \A w \in Wishes : Kept(w) => Kept(w)' \/ w \in {draft', sending'},
           \A w \in Wishes \cap {draft, sending} : w \in dropped' \cup {draft', sending'} \/ Kept(w)'
    PROVE  Somewhere'
<1>1. 1..typed \subseteq Wishes
  BY DeliveryAssumption DEF FlowInv, TypeOK, Wishes, None
<1> SUFFICES ASSUME NEW w \in 1..typed
             PROVE  w \in dropped' \cup {draft', sending'} \/ Kept(w)'
  BY DEF Somewhere
<1>2. w \in dropped \cup {draft, sending} \/ Kept(w)
  BY DEF Somewhere, KeptInv
<1> QED
  BY <1>1, <1>2

(* What was carried out stays so. *)
LEMMA DeliveredStays ==
    ASSUME FlowInv, Delivered \subseteq Delivered', \A i \in Ids : wishOf'[i] = wishOf[i]
    PROVE  \A w : DeliveredFor(w) # {} => DeliveredFor(w)' # {}
<1>1. Delivered \subseteq Ids
  BY Numbers DEF FlowInv
<1> QED
  BY <1>1 DEF DeliveredFor

(* A wish is kept until its request is forgotten. *)
LEMMA KeptStays ==
    ASSUME FlowInv, Delivered \subseteq Delivered', \A i \in Ids : wishOf'[i] = wishOf[i],
           waived \subseteq waived',
           \/ record'.id = record.id /\ (record # NoRecord => record' # NoRecord)
           \/ record # NoRecord => wishOf[record.id] \in waived' \/ DeliveredFor(wishOf[record.id]) # {}
    PROVE  \A w : Kept(w) => Kept(w)'
<1> SUFFICES ASSUME NEW w, Kept(w) PROVE Kept(w)'
  OBVIOUS
<1>1. DeliveredFor(w) # {} => DeliveredFor(w)' # {}
  BY DeliveredStays
<1>2. record # NoRecord => record.id \in Ids
  BY DEF FlowInv, RecordIsMade
<1> QED
  BY <1>1, <1>2 DEF Kept

LEMMA ShownStays ==
    ASSUME FlowInv, KeptInv, Delivered \subseteq Delivered', \A i \in Ids : wishOf'[i] = wishOf[i],
           turns' \subseteq turns
    PROVE  ShownIsDelivered'
<1> SUFFICES ASSUME NEW t \in turns PROVE t # NoTurn /\ DeliveredFor(WishOf(t))' # {}
  BY DEF ShownIsDelivered
<1>1. t \in Turns /\ t # NoTurn /\ DeliveredFor(WishOf(t)) # {}
  BY DEF FlowInv, TypeOK, KeptInv, ShownIsDelivered
<1>2. WishOf(t)' = WishOf(t)
  <2>1. t.request # None \/ t.message # None
    BY <1>1 DEF Turns, NoTurn
  <2> QED
    BY <1>1, <2>1 DEF WishOf, Turns
<1>3. Delivered \subseteq Ids
  BY Numbers DEF FlowInv
<1> QED
  BY <1>1, <1>2, <1>3 DEF DeliveredFor

(* A read shows only what has arrived, and forgets only that. *)
LEMMA ReadShows ==
    ASSUME TextsDiffer, FlowInv, KeptInv, NEW fresh \in BOOLEAN, ReadPage(fresh)
    PROVE  /\ turns' \in SUBSET Turns
           /\ \A t \in turns' : t # NoTurn /\ DeliveredFor(WishOf(t)) # {}
           /\ \/ record' = record
              \/ record' = NoRecord /\ DeliveredFor(wishOf[record.id]) # {}
<1>1. /\ Delivered \subseteq Ids /\ None \notin Ids /\ \A i \in Ids : wishOf[i] \in Wishes
      /\ record # NoRecord => record.id \in Ids
  BY Numbers DEF FlowInv, RecordIsMade
<1>2. ASSUME NEW t, TurnOfMessage(t) PROVE t # NoTurn /\ DeliveredFor(WishOf(t)) # {}
  <2>1. t \in Turns /\ t.message \in Delivered
    BY <1>2 DEF TurnOfMessage
  <2>2. t # NoTurn
    BY <1>1, <2>1 DEF NoTurn
  <2>3. wishOf[t.message] = WishOf(t)
    <3>1. t.request # None => t.request \in Ids
      BY <2>1 DEF Turns
    <3>2. t.request # None => Text[wishOf[t.request]] = Text[wishOf[t.message]]
      BY <1>2 DEF TurnOfMessage
    <3> QED
      BY <1>1, <2>1, <3>1, <3>2 DEF WishOf, TextsDiffer
  <2> QED
    BY <2>1, <2>2, <2>3 DEF DeliveredFor
<1>3. ASSUME NEW m \in Delivered, Text[wishOf[m]] = Text[wishOf[record.id]], record # NoRecord
      PROVE  DeliveredFor(wishOf[record.id]) # {}
  BY <1>1, <1>3 DEF DeliveredFor, TextsDiffer
<1> QED
  BY <1>2, <1>3, ReadIs DEF KeptInv, ShownIsDelivered

(* A draft goes away only once its wish has arrived. *)
LEMMA SettleGives ==
    ASSUME TextsDiffer, FlowInv, NEW ts \in SUBSET Turns,
           \A t \in ts : DeliveredFor(WishOf(t)) # {},
           NEW u, NEW d \in Wishes \cup {None}, Settle(u, d, ts)
    PROVE  draft' = d \/ (d \in Wishes => DeliveredFor(d) # {})
<1> SUFFICES ASSUME NEW t \in ts, Text[WishOf(t)] = Text[d], d \in Wishes
             PROVE  DeliveredFor(d) # {}
  BY SettleIs DEF FlowInv
<1>1. PICK id \in Delivered : wishOf[id] = WishOf(t)
  BY DEF DeliveredFor
<1>2. WishOf(t) \in Wishes
  BY <1>1, Numbers DEF FlowInv
<1> QED
  BY <1>2 DEF TextsDiffer

LEMMA GivesBackKept ==
    ASSUME TextsDiffer, FlowInv, KeptInv, phase # "idle", NEW b \in BOOLEAN, GivesBack(b)
    PROVE  /\ draft = None /\ sending \in Wishes /\ phase' = "idle"
           /\ draft' = sending \/ DeliveredFor(sending) # {}
<1>1. draft = None /\ sending \in Wishes /\ turns \in SUBSET Turns
  BY DEF FlowInv, PhaseInv, TypeOK
<1>2. \A t \in turns : DeliveredFor(WishOf(t)) # {}
  BY DEF KeptInv, ShownIsDelivered
<1>3. phase' = "idle" /\ \E u : Settle(u, sending, turns)
  BY DEF GivesBack, Ends
<1> QED
  BY <1>1, <1>2, <1>3, SettleGives

LEMMA UserKept ==
    ASSUME TextsDiffer, FlowInv, KeptInv, Types \/ Debounce \/ Press \/ CheckFails \/ Blocked
    PROVE  KeptInv'
<1>1. /\ UNCHANGED <<record, wishOf, messages, turns, raced>> /\ waived \subseteq waived' /\ dropped \subseteq dropped'
      /\ Delivered' = Delivered
  BY DEF Types, Debounce, Press, CheckFails, Blocked, GivesBack, shown, daemon, flow, composer, Delivered
<1>2. \A w : Kept(w) => Kept(w)'
  BY <1>1, KeptStays
<1>3. ShownIsDelivered'
  BY <1>1, ShownStays
<1>4. CASE Types
  <2>1. /\ phase = "idle" /\ sending = None /\ UNCHANGED <<phase, sending>>
        /\ typed' = typed + 1 /\ draft' = typed + 1
        /\ dropped' = IF draft = None THEN dropped ELSE dropped \cup {draft}
    BY <1>4 DEF Types, flow, FlowInv, PhaseInv
  <2>2. typed \in Nat /\ \A w \in 1..typed : w \in Wishes
    BY DeliveryAssumption DEF FlowInv, TypeOK, Wishes, None
  <2>3. Somewhere'
    <3> SUFFICES ASSUME NEW w \in 1..(typed + 1), w # typed + 1
                 PROVE  w \in dropped' \cup {draft', sending'} \/ Kept(w)'
      BY <2>1 DEF Somewhere
    <3>1. w \in 1..typed /\ w # None
      BY <2>2 DEF None
    <3>2. w \in dropped \cup {draft, sending} \/ Kept(w)
      BY <3>1 DEF Somewhere, KeptInv
    <3> QED
      BY <1>2, <2>1, <3>1, <3>2
  <2> QED
    BY <1>3, <2>1, <2>3 DEF KeptInv, SentIsKept
<1>5. CASE Debounce
  <2>1. UNCHANGED <<typed, draft, phase, sending>>
    BY <1>5 DEF Debounce, flow
  <2>2. Somewhere'
    BY <1>1, <1>2, <2>1, SomewhereKeeps
  <2> QED
    BY <1>1, <1>2, <1>3, <2>1, <2>2 DEF KeptInv, SentIsKept
<1>6. CASE Press
  <2>1. /\ typed' = typed /\ sending = None /\ sending' = draft /\ phase' = "checking"
    BY <1>6 DEF Press, FlowInv, PhaseInv
  <2>2. None \notin Wishes
    BY Numbers DEF FlowInv
  <2>3. Somewhere'
    BY <1>1, <1>2, <2>1, <2>2, SomewhereKeeps
  <2> QED
    BY <1>3, <2>1, <2>3 DEF KeptInv, SentIsKept
<1>7. CASE CheckFails \/ Blocked
  <2>1. phase # "idle" /\ GivesBack(FALSE) /\ typed' = typed
    BY <1>7 DEF CheckFails, Blocked, GivesBack
  <2>2. draft = None /\ sending \in Wishes /\ phase' = "idle" /\ (draft' = sending \/ DeliveredFor(sending) # {})
    BY <2>1, GivesBackKept
  <2>3. DeliveredFor(sending) # {} => Kept(sending)
    BY DEF Kept
  <2>4. Kept(sending) => \A w : w = sending => Kept(w)'
    BY <1>2
  <2>5. None \notin Wishes
    BY Numbers DEF FlowInv
  <2>6. Somewhere'
    BY <1>1, <1>2, <2>1, <2>2, <2>3, <2>4, <2>5, SomewhereKeeps
  <2> QED
    BY <1>3, <2>2, <2>6 DEF KeptInv, SentIsKept
<1> QED
  BY <1>4, <1>5, <1>6, <1>7

LEMMA PostKept ==
    ASSUME TextsDiffer, FlowInv, KeptInv, Post
    PROVE  KeptInv'
<1>1. /\ phase' = "posting" /\ UNCHANGED <<typed, draft, sending, dropped, turns, messages>>
      /\ sending \in Wishes
  BY DEF Post, composer, shown, FlowInv, PhaseInv, TypeOK
<1>2. /\ \A i \in Ids : wishOf'[i] = wishOf[i]
      /\ \A w : Kept(w) => Kept(w)'
      /\ record' # NoRecord /\ wishOf'[record'.id] = sending
      /\ Delivered' = Delivered
  <2>1. CASE Unresolved /\ SameRequest /\ UNCHANGED <<record, wishOf, ledger, waived, raced>>
    <3>1. record.id \in Ids /\ wishOf[record.id] \in Wishes
      BY <2>1, Numbers DEF Unresolved, FlowInv, RecordIsMade
    <3>2. record # NoRecord /\ wishOf[record.id] = sending
      BY <1>1, <2>1, <3>1 DEF Unresolved, SameRequest, TextsDiffer
    <3>3. Delivered' = Delivered
      BY <1>1, <2>1 DEF Delivered
    <3> QED
      BY <2>1, <3>2, <3>3, KeptStays
  <2>2. CASE ~Unresolved /\ NewRequest
    <3>1. /\ Fresh # None /\ wishOf'[Fresh] = sending
          /\ \A i \in Ids : wishOf'[i] = wishOf[i]
      BY <1>1, <2>2, NewIs DEF NewRequest
    <3>2. record' = [id |-> Fresh, old |-> FALSE]
      BY <2>2 DEF NewRequest, Fresh
    <3>3. waived \subseteq waived' /\ (record # NoRecord => wishOf[record.id] \in waived')
      BY <2>2 DEF NewRequest
    <3>4. Delivered' = Delivered
      BY <1>1 DEF Delivered
    <3> QED
      BY <3>1, <3>2, <3>3, <3>4, KeptStays DEF NoRecord
  <2> QED
    BY <2>1, <2>2 DEF Post
<1>3. ShownIsDelivered'
  BY <1>1, <1>2, ShownStays
<1>4. Somewhere'
  BY <1>1, <1>2, SomewhereKeeps
<1>5. SentIsKept'
  BY <1>1, <1>2 DEF SentIsKept, Kept
<1> QED
  BY <1>3, <1>4, <1>5 DEF KeptInv

(* send() ends: its wish is kept, or back in the composer. *)
LEMMA EndsKept ==
    ASSUME FlowInv, KeptInv, phase # "idle", Ends, typed' = typed, dropped' = dropped,
           \A w \in Wishes : Kept(w) => Kept(w)' \/ w = draft',
           \A w \in Wishes : w = sending => w = draft' \/ Kept(w)',
           ShownIsDelivered'
    PROVE  KeptInv'
<1>1. draft = None /\ phase' = "idle" /\ None \notin Wishes
  BY Numbers DEF FlowInv, PhaseInv, Ends
<1>2. Somewhere'
  BY <1>1, SomewhereKeeps
<1> QED
  BY <1>1, <1>2 DEF KeptInv, SentIsKept

LEMMA AnsweredKept ==
    ASSUME TextsDiffer, FlowInv, AliveInv, KeptInv, NEW m \in wire, Answered(m)
    PROVE  KeptInv'
<1>1. /\ UNCHANGED <<wishOf, messages>> /\ waived \subseteq waived' /\ m.id \in Ids /\ Delivered' = Delivered
      /\ Ends /\ typed' = typed /\ dropped' = dropped
  BY DEF Answered, AcceptedAnswer, UnsureAnswer, RefusedAnswer, GivesBack, daemon, FlowInv, TypeOK, Delivered
<1>2. phase = "posting" /\ m.post = posts
  BY DEF Answered, AcceptedAnswer, UnsureAnswer, RefusedAnswer, FlowInv, AnswersInv
<1>3. /\ wishOf[m.id] = sending /\ (record = NoRecord \/ record.id = m.id)
      /\ Kept(sending) /\ (record # NoRecord => wishOf[record.id] = sending)
  BY <1>2 DEF AliveInv, PostIsSent, KeptInv, SentIsKept
<1>4. sending \in Wishes
  BY <1>2 DEF FlowInv, PhaseInv, TypeOK
<1>5. CASE AcceptedAnswer(m)
  <2>1. /\ m.id \in Delivered /\ m.id # None
        /\ turns' \subseteq turns \cup {[request |-> m.id, message |-> None]}
    BY <1>1, <1>5, Numbers DEF AcceptedAnswer, AliveInv, AcceptedIsDelivered, FlowInv
  <2>2. DeliveredFor(sending) # {}
    BY <1>3, <2>1 DEF DeliveredFor
  <2>3. \A w : Kept(w) => Kept(w)'
    BY <1>1, <1>3, <2>2, KeptStays
  <2>4. ShownIsDelivered'
    <3> DEFINE t == [request |-> m.id, message |-> None]
    <3>1. t # NoTurn /\ WishOf(t) = wishOf[m.id]
      BY <2>1 DEF NoTurn, WishOf
    <3>2. DeliveredFor(WishOf(t)) # {}
      BY <1>3, <2>2, <3>1
    <3> HIDE DEF t
    <3>3. \A u \in turns' : u # NoTurn /\ DeliveredFor(WishOf(u)) # {}
      BY <2>1, <3>1, <3>2 DEF t, KeptInv, ShownIsDelivered
    <3> QED
      BY <1>1, <3>3 DEF ShownIsDelivered, DeliveredFor, WishOf
  <2> QED
    BY <1>1, <1>2, <1>3, <2>3, <2>4, EndsKept
<1>6. CASE UnsureAnswer(m) \/ RefusedAnswer(m)
  <2>1. /\ GivesBack(FALSE) /\ turns' = turns /\ record' \in {record, NoRecord}
    BY <1>6 DEF UnsureAnswer, RefusedAnswer
  <2>2. draft' = sending \/ DeliveredFor(sending) # {}
    BY <1>2, <2>1, GivesBackKept
  <2>3. ShownIsDelivered'
    BY <1>1, <2>1, ShownStays
  <2>4. ASSUME NEW w, Kept(w) PROVE Kept(w)' \/ w = draft'
    <3>1. CASE record' = record \/ w # sending \/ DeliveredFor(sending) # {}
      BY <1>1, <1>3, <2>1, <2>4, <3>1 DEF Kept, DeliveredFor
    <3> QED
      BY <2>2, <3>1
  <2> QED
    BY <1>1, <1>2, <1>3, <2>3, <2>4, EndsKept
<1> QED
  BY <1>5, <1>6 DEF Answered

LEMMA TransportKept ==
    ASSUME TextsDiffer, FlowInv, KeptInv,
           ConnectionBreaks \/ RecoveryFinds \/ RecoveryFindsNothing \/ RecoveryFails
    PROVE  KeptInv'
<1>1. /\ phase \in {"posting", "recovering"} /\ UNCHANGED <<typed, dropped, wishOf, messages, waived>>
      /\ Delivered' = Delivered /\ sending \in Wishes
  BY DEF ConnectionBreaks, RecoveryFinds, RecoveryFindsNothing, RecoveryFails, GivesBack, composer, daemon,
         FlowInv, PhaseInv, TypeOK, Delivered
<1>2. Kept(sending)
  BY <1>1 DEF KeptInv, SentIsKept
<1>3. CASE ConnectionBreaks /\ sending \notin Commands
  <2>1. UNCHANGED <<record, turns, draft, sending>> /\ phase' = "recovering"
    BY <1>3 DEF ConnectionBreaks, composer, shown
  <2>2. \A w : Kept(w) => Kept(w)'
    BY <1>1, <2>1, KeptStays
  <2>3. Somewhere' /\ ShownIsDelivered'
    BY <1>1, <2>1, <2>2, SomewhereKeeps, ShownStays
  <2>4. SentIsKept'
    BY <1>1, <2>1, <2>2 DEF KeptInv, SentIsKept
  <2> QED
    BY <2>3, <2>4 DEF KeptInv
<1>4. CASE (ConnectionBreaks /\ sending \in Commands) \/ RecoveryFails
  <2>1. Ends /\ UNCHANGED <<record, turns>>
    BY <1>4 DEF ConnectionBreaks, RecoveryFails, GivesBack, shown
  <2>2. \A w : Kept(w) => Kept(w)'
    BY <1>1, <2>1, KeptStays
  <2>3. ShownIsDelivered'
    BY <1>1, <2>1, ShownStays
  <2> QED
    BY <1>1, <1>2, <2>1, <2>2, <2>3, EndsKept
<1>5. CASE RecoveryFinds \/ RecoveryFindsNothing
  <2>1. Ends
    BY <1>5 DEF RecoveryFinds, RecoveryFindsNothing
  <2>2. PICK fresh \in BOOLEAN : ReadPage(fresh)
    BY <1>5 DEF RecoveryFinds, RecoveryFindsNothing
  <2>3. /\ \A t \in turns' : t # NoTurn /\ DeliveredFor(WishOf(t)) # {}
        /\ record' = record \/ (record' = NoRecord /\ DeliveredFor(wishOf[record.id]) # {})
    BY <2>2, ReadShows
  <2>4. ShownIsDelivered'
    BY <1>1, <2>3 DEF ShownIsDelivered, DeliveredFor, WishOf
  <2>5. \A w : Kept(w) => Kept(w)'
    BY <1>1, <2>3, KeptStays
  <2> QED
    BY <1>1, <1>2, <2>1, <2>4, <2>5, EndsKept
<1> QED
  BY <1>3, <1>4, <1>5 DEF ConnectionBreaks

LEMMA TimeKept ==
    ASSUME TextsDiffer, FlowInv, KeptInv, TailRead \/ Expires \/ Reload
    PROVE  KeptInv'
<1>1. UNCHANGED <<typed, wishOf, messages, waived>> /\ Delivered' = Delivered /\ dropped \subseteq dropped'
      /\ None \notin Wishes
  BY Numbers DEF TailRead, Expires, Reload, composer, daemon, Delivered, FlowInv
<1>2. CASE TailRead
  <2>1. PICK fresh \in BOOLEAN : ReadPage(fresh)
    BY <1>2 DEF TailRead
  <2>2. /\ turns' \in SUBSET Turns
        /\ \A t \in turns' : t # NoTurn /\ DeliveredFor(WishOf(t)) # {}
        /\ record' = record \/ (record' = NoRecord /\ DeliveredFor(wishOf[record.id]) # {})
    BY <2>1, ReadShows
  <2>3. ShownIsDelivered'
    BY <1>1, <2>2 DEF ShownIsDelivered, DeliveredFor, WishOf
  <2>4. \A w : Kept(w) => Kept(w)'
    BY <1>1, <2>2, KeptStays
  <2>5. UNCHANGED <<phase, sending>> /\ Settle(uncertain, draft, turns') /\ draft \in Wishes \cup {None}
    BY <1>2 DEF TailRead, flow, FlowInv, TypeOK
  <2>6. draft' = draft \/ (draft \in Wishes => DeliveredFor(draft) # {})
    BY <2>2, <2>5, SettleGives
  <2>7. DeliveredFor(draft) # {} => \A w : w = draft => Kept(w)'
    BY <2>4 DEF Kept
  <2>8. Somewhere'
    BY <1>1, <2>4, <2>5, <2>6, <2>7, SomewhereKeeps
  <2>9. SentIsKept'
    BY <1>1, <2>2, <2>4, <2>5 DEF KeptInv, SentIsKept
  <2> QED
    BY <2>3, <2>8, <2>9 DEF KeptInv
<1>3. CASE Expires
  <2>1. UNCHANGED <<turns, draft, phase, sending>> /\ phase = "idle"
        /\ record'.id = record.id /\ record'.old = TRUE
    BY <1>3 DEF Expires, shown, flow, composer, FlowInv, TypeOK
  <2>2. \A w : Kept(w) => Kept(w)'
    BY <1>1, <2>1, KeptStays DEF NoRecord
  <2>3. Somewhere' /\ ShownIsDelivered'
    BY <1>1, <2>1, <2>2, SomewhereKeeps, ShownStays
  <2> QED
    BY <2>1, <2>3 DEF KeptInv, SentIsKept
<1>4. CASE Reload
  <2>1. /\ draft' = stored /\ dropped' = dropped \cup OnlyInMemory /\ phase' = "idle"
        /\ turns' = {} /\ record' = record
    BY <1>4 DEF Reload, Ends
  <2>2. \A w : Kept(w) => Kept(w)'
    BY <1>1, <2>1, KeptStays
  <2>3. ASSUME NEW w \in Wishes, w = draft \/ w = sending
        PROVE  w \in dropped' \cup {draft', sending'} \/ Kept(w)'
    <3>1. CASE phase \in {"posting", "recovering"} /\ w = sending
      BY <2>2, <3>1 DEF KeptInv, SentIsKept
    <3>2. CASE phase = "checking" \/ w = draft
      BY <1>1, <2>1, <2>3, <3>2 DEF OnlyInMemory
    <3>3. CASE phase = "idle" /\ w = sending
      BY <1>1, <3>3 DEF FlowInv, PhaseInv
    <3> QED
      BY <2>3, <3>1, <3>2, <3>3 DEF FlowInv, TypeOK
  <2>4. Somewhere'
    BY <1>1, <2>2, <2>3, SomewhereKeeps
  <2> QED
    BY <2>1, <2>4 DEF KeptInv, SentIsKept, ShownIsDelivered
<1> QED
  BY <1>2, <1>3, <1>4

(* The network and the daemon take nothing away. *)
LEMMA DaemonKept ==
    ASSUME FlowInv, KeptInv, UNCHANGED app, Delivered \subseteq Delivered'
    PROVE  KeptInv'
<1>1. UNCHANGED <<typed, draft, dropped, phase, sending, record, turns, wishOf, waived>>
  BY DEF app, composer, flow, shown
<1>2. \A w : Kept(w) => Kept(w)'
  BY <1>1, KeptStays
<1>3. Somewhere' /\ ShownIsDelivered'
  BY <1>1, <1>2, SomewhereKeeps, ShownStays
<1> QED
  BY <1>1, <1>2, <1>3 DEF KeptInv, SentIsKept

LEMMA KeptStep ==
    ASSUME TextsDiffer, FlowInv, AliveInv, KeptInv, [Next]_vars
    PROVE  KeptInv'
<1>1. ASSUME NEW m \in wire, LostOnTheWay(m) \/ Arrives(m) \/ Accepts(m) \/ Refuses(m) \/ LosesTrack(m)
      PROVE  KeptInv'
  <2>1. UNCHANGED app /\ UNCHANGED messages
    BY <1>1 DEF LostOnTheWay, Arrives, Accepts, Refuses, LosesTrack, daemon
  <2> QED
    BY <2>1, DaemonKept DEF Delivered
<1>2. ASSUME NEW id \in Ids, Applies(id) PROVE KeptInv'
  <2>1. UNCHANGED app /\ messages' = Append(messages, id)
    BY <1>2 DEF Applies
  <2>2. Delivered' = Delivered \cup {id}
    BY <2>1, AppendSet DEF Delivered, FlowInv, TypeOK
  <2> QED
    BY <2>1, <2>2, DaemonKept
<1>3. CASE UNCHANGED vars
  BY <1>3, DaemonKept DEF vars, app, daemon, Delivered
<1> QED
  BY <1>1, <1>2, <1>3, UserKept, PostKept, AnsweredKept, TransportKept, TimeKept DEF Next

LEMMA KeptInit == Init => KeptInv
<1> SUFFICES ASSUME Init PROVE KeptInv
  OBVIOUS
<1>1. typed = 0 /\ turns = {} /\ phase = "idle"
  BY DEF Init, None
<1> QED
  BY <1>1 DEF KeptInv, Somewhere, SentIsKept, ShownIsDelivered

-----------------------------------------------------------------------------
(* The theorems. *)

(* In every reachable state the variables of the app, the network and the  *)
(* daemon have their types, an unresolved request is one that was made,    *)
(* the composer is empty while something is sent, and each POST has at     *)
(* most one message under way, whatever the wishes' texts are.             *)
THEOREM DeliveryFlow == Spec => []FlowInv
<1> QED
  BY FlowInit, FlowStep, PTL DEF Spec

(* The type invariant, of every state the app and the daemon can reach.    *)
THEOREM DeliveryTypeCorrect == Spec => []TypeOK
<1>1. FlowInv => TypeOK
  BY DEF FlowInv
<1> QED
  BY <1>1, DeliveryFlow, PTL

(* The inductive invariant: what is where, at most one request of a wish   *)
(* that lives, and a place for every wish.                                 *)
THEOREM DeliveryInvariant ==
    ASSUME TextsDiffer
    PROVE  Spec => [](FlowInv /\ AliveInv /\ KeptInv)
<1> DEFINE I == FlowInv /\ AliveInv /\ KeptInv
<1>1. Init => I
  BY FlowInit, AliveInit, KeptInit
<1>2. I /\ [Next]_vars => I'
  BY FlowStep, AliveStep, KeptStep
<1> HIDE DEF I
<1>3. Spec => []I
  BY <1>1, <1>2, PTL DEF Spec
<1> QED
  BY <1>3 DEF I

(* What the user wants to send once reaches the Session at most once, after *)
(* lost requests, lost answers, refusals, sending it again and kills of the *)
(* app, in any number and order, unless the app itself gave its request up. *)
THEOREM OncePerWishHolds ==
    ASSUME TextsDiffer
    PROVE  Spec => []OncePerWish
<1>1. FlowInv /\ AliveInv => OncePerWish
  <2> SUFFICES ASSUME FlowInv, AliveInv, NEW w \in Wishes \ (waived \cup raced)
               PROVE  Cardinality(DeliveredFor(w)) <= 1
    BY DEF OncePerWish
  <2>1. \A i, j \in DeliveredFor(w) : i = j
    <3>1. Delivered \subseteq Ids
      BY Numbers DEF FlowInv
    <3> QED
      BY <3>1 DEF DeliveredFor, AliveInv, OneAlive, Alive, Given
  <2>2. CASE DeliveredFor(w) = {}
    BY <2>2, FS_EmptySet
  <2>3. CASE DeliveredFor(w) # {}
    <3>1. PICK i \in DeliveredFor(w) : DeliveredFor(w) = {i}
      BY <2>1, <2>3
    <3> QED
      BY <3>1, FS_Singleton
  <2> QED
    BY <2>2, <2>3
<1> QED
  BY <1>1, DeliveryInvariant, PTL

(* What was sent is never lost silently: each wish is in the Session, in    *)
(* the composer, in the durable request or being sent, unless the user or   *)
(* the app gave it up.                                                      *)
THEOREM NothingVanishesHolds ==
    ASSUME TextsDiffer
    PROVE  Spec => []NothingVanishes
<1>1. KeptInv => NothingVanishes
  BY DEF KeptInv, Somewhere, Kept, NothingVanishes
<1> QED
  BY <1>1, DeliveryInvariant, PTL

=============================================================================
